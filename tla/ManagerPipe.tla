---------------------------- MODULE ManagerPipe ----------------------------
(***************************************************************************)
(* The named pipe between the agent (NamedPipeServer,                       *)
(* src/src/platform/agent/ipc/named_pipe_server.cpp) and the pages of the   *)
(* manager (MacTypeCommunicator,                                            *)
(* src/src/platform/manager/MacTypeCommunication.cpp).                      *)
(*                                                                         *)
(* The server serves one page at a time.  A page writes the header of a     *)
(* command and its data as two messages, and the server answers each        *)
(* message it reads; the page reads the first 8 bytes that are there as the *)
(* header of its answer.  In message mode that read fails as long as more   *)
(* of the message is left, and the rest stays for the next command.  A      *)
(* message is its length and what its first bytes say, no text.             *)
(***************************************************************************)
EXTENDS Integers, Sequences, SequencesExt

CONSTANTS Pages,     (* the pages of the manager, each with a communicator   *)
          Commands,  (* [type, data]: a message type and the length of data  *)
          Buffer,    (* PIPE_BUFFER_SIZE, the quota of both directions       *)
          Lists,     (* lengths of a serialized process or style list        *)
          Garbage    (* what the uninitialized bytes of a header may say     *)

None == "none"
Types == {"GetStatus", "SetMode", "GetProcessList", "InjectProcess",
          "RemoveInjection", "GetStyles", "ApplyStyle", "HealthCheck"}
NoCommand == [type |-> "none", data |-> 0]
Header == 8          (* sizeof(ManagerMessage)                               *)

ASSUME ManagerPipeAssumption ==
  /\ None \notin Pages /\ Buffer \in Nat
  /\ Lists \subseteq Nat /\ Garbage \subseteq Nat /\ Garbage \ {0} # {}
  /\ Commands \subseteq [type : Types, data : Nat]

VARIABLES
  running,   (* m_isRunning                                                  *)
  server,    (* where the server thread is                                   *)
  conn,      (* the page whose handle is on the pipe instance, or None       *)
  requests,  (* the unread messages of the page                              *)
  answers,   (* the unread messages of the server, the first perhaps in part *)
  page,      (* where each page is                                           *)
  command,   (* the command each page has begun                              *)
  size,      (* the dataSize each page has read                              *)
  result,    (* what SendCommand last returned to each page                  *)
  late       (* history: the messages read since m_isRunning fell, at most 2 *)

pipe == <<requests, answers>>
pages == <<page, command, size, result>>
vars == <<running, server, conn, pipe, pages, late>>

Init ==
  /\ running = TRUE /\ server = "create" /\ conn = None
  /\ requests = <<>> /\ answers = <<>> /\ late = 0
  /\ page = [p \in Pages |-> "closed"]
  /\ command = [p \in Pages |-> NoCommand]
  /\ size = [p \in Pages |-> 0]
  /\ result = [p \in Pages |-> ""]

Closed(p) == p = None \/ page[p] = "closed"

(* WriteFile adds its message at once, which can be read from then on, and  *)
(* returns when what is unread is within the quota of the pipe.             *)
Unread(messages) == FoldLeft(LAMBDA n, m : n + m.left, 0, messages)
Room(messages) == Unread(messages) <= Buffer

-----------------------------------------------------------------------------
(* The server thread.  CreateNamedPipe and the wait for a page: the handle  *)
(* is the only instance, so no other page gets in until it is closed.  When *)
(* it cannot be made the thread sleeps, and begins anew while m_isRunning.  *)
Create ==
  /\ server = "create"
  /\ server' \in {"listen", IF running THEN "create" ELSE "ended"}
  /\ UNCHANGED <<running, conn, pipe, pages, late>>

LoopForever == "read"                                          \* mutated form
Loop == IF running THEN "read" ELSE "hangup"

Accept ==
  /\ server = "listen" /\ conn # None
  /\ server' = Loop
  /\ UNCHANGED <<running, conn, pipe, pages, late>>

(* The length of the text ProcessMessage answers.  Header and data come as  *)
(* messages of their own: the handlers get no data, and the data, a decimal *)
(* number or a name, is no header.                                          *)
TextLengths(m) ==
  CASE m.left < Header -> {29}                   \* ERROR: Invalid message format
    [] m.left >= Header /\ m.type = "data" -> {27}  \* ERROR: Unknown message type
    [] m.type = "GetStatus" -> {7}               \* Service
    [] m.type = "SetMode" -> {19}                \* ERROR: Invalid mode
    [] m.type \in {"InjectProcess", "RemoveInjection"} -> {25}
                                                 \* ERROR: Invalid process ID
    [] m.type = "ApplyStyle" -> {7}              \* SUCCESS
    [] m.type = "HealthCheck" -> {2, 9}          \* OK, UNHEALTHY
    [] m.type \in {"GetProcessList", "GetStyles"} -> Lists

(* CreateResponse and WriteMessage: header and text in one message.         *)
RespondToKnown(m) ==                                           \* mutated form
  IF TextLengths(m) \cap {19, 25, 27, 29} # {}
  THEN UNCHANGED answers
  ELSE \E n \in TextLengths(m) :
         answers' = Append(answers, [left |-> Header + n, size |-> n, fresh |-> TRUE])
Respond(m) ==
  \E n \in TextLengths(m) :
    answers' = Append(answers, [left |-> Header + n, size |-> n, fresh |-> TRUE])

(* ReadMessage, ProcessMessage, and WriteMessage until it returns.  A       *)
(* message longer than the buffer fails the read.                           *)
Serve ==
  /\ server = "read" /\ requests # <<>>
  /\ requests' = Tail(requests)
  /\ late' = IF running \/ late = 2 THEN late ELSE late + 1
  /\ \/ /\ Head(requests).left <= Buffer
        /\ Respond(Head(requests))
        /\ server' = "write"
     \/ /\ Head(requests).left > Buffer
        /\ server' = "hangup"
        /\ UNCHANGED answers
  /\ UNCHANGED <<running, conn, pages>>

Wrote ==
  /\ server = "write" /\ (Room(answers) \/ Closed(conn))
  /\ server' = IF Closed(conn) THEN "hangup" ELSE Loop
  /\ UNCHANGED <<running, conn, pipe, pages, late>>

PageGone ==
  /\ server = "read" /\ requests = <<>> /\ Closed(conn)
  /\ server' = "hangup"
  /\ UNCHANGED <<running, conn, pipe, pages, late>>

(* DisconnectNamedPipe and CloseHandle drop what is unread.                 *)
HangUp ==
  /\ server = "hangup"
  /\ server' = IF running THEN "create" ELSE "ended"
  /\ conn' = None /\ requests' = <<>> /\ answers' = <<>>
  /\ UNCHANGED <<running, pages, late>>

Server == Create \/ Accept \/ Serve \/ Wrote \/ PageGone \/ HangUp

(* StopAsync, or the destructor: the flag falls, then join waits for the    *)
(* server thread to end.                                                    *)
StopAsync ==
  /\ running /\ running' = FALSE
  /\ UNCHANGED <<server, conn, pipe, pages, late>>

-----------------------------------------------------------------------------
(* A page.  EstablishNamedPipeConnection: CreateFileW fails unless the      *)
(* instance is free.  A page whose SetCommTimeouts fails closes its handle  *)
(* at once.                                                                 *)
ConnectToMacType(p) ==
  /\ page[p] = "closed" /\ server = "listen" /\ conn = None
  /\ conn' = p
  /\ page' = [page EXCEPT ![p] = "idle"]
  /\ UNCHANGED <<running, server, pipe, command, size, result, late>>

Disconnect(p) ==
  /\ page[p] = "idle"
  /\ page' = [page EXCEPT ![p] = "closed"]
  /\ result' = [result EXCEPT ![p] = ""]
  /\ UNCHANGED <<running, server, conn, pipe, command, size, late>>

(* SendCommand returns to its caller.                                       *)
Return(p, what) ==
  /\ page' = [page EXCEPT ![p] = "idle"]
  /\ result' = [result EXCEPT ![p] = what]
  /\ size' = [size EXCEPT ![p] = 0]
  /\ command' = [command EXCEPT ![p] = NoCommand]

(* SendCommand: the header, the data if any, and ReceiveResponse.  A page   *)
(* the server has hung up on keeps m_isConnected, and its calls fail.       *)
SendCommand(p) ==
  /\ page[p] = "idle"
  /\ \E c \in Commands :
       \/ /\ conn = p
          /\ command' = [command EXCEPT ![p] = c]
          /\ page' = [page EXCEPT ![p] = "header"]
          /\ requests' = Append(requests, [type |-> c.type, left |-> Header])
          /\ UNCHANGED <<size, result>>
       \/ /\ conn # p
          /\ Return(p, "")
          /\ UNCHANGED requests
  /\ UNCHANGED <<running, server, conn, answers, late>>

SendDataAlways(p) ==                                           \* mutated form
  /\ page[p] = "header" /\ conn = p /\ Room(requests)
  /\ page' = [page EXCEPT ![p] = "data"]
  /\ requests' = Append(requests, [type |-> "data", left |-> command[p].data])
  /\ UNCHANGED <<running, server, conn, answers, command, size, result, late>>
SendData(p) ==
  /\ page[p] = "header" /\ conn = p /\ Room(requests)
  /\ \/ /\ command[p].data > 0
        /\ page' = [page EXCEPT ![p] = "data"]
        /\ requests' = Append(requests, [type |-> "data", left |-> command[p].data])
     \/ /\ command[p].data = 0
        /\ page' = [page EXCEPT ![p] = "receive"]
        /\ UNCHANGED requests
  /\ UNCHANGED <<running, server, conn, answers, command, size, result, late>>

Sent(p) ==
  /\ page[p] = "data" /\ conn = p /\ Room(requests)
  /\ page' = [page EXCEPT ![p] = "receive"]
  /\ UNCHANGED <<running, server, conn, pipe, command, size, result, late>>

(* Reading n bytes of the first unread message.                             *)
Take(n) ==
  IF Head(answers).left <= n
  THEN Tail(answers)
  ELSE [answers EXCEPT ![1] = [left |-> @.left - n, size |-> @.size, fresh |-> FALSE]]

(* What the dataSize of the header says after a read of m bytes that does   *)
(* not begin a message: the last four bytes of it are text, or were never   *)
(* written.                                                                 *)
Misread(m) == IF m <= 4 THEN Garbage ELSE Garbage \ {0}

(* ReceiveResponse: the read of the header fails while the message has      *)
(* more.  A dataSize the vector cannot be made for throws.                  *)
ReceiveHeader(p) ==
  /\ page[p] = "receive" /\ conn = p /\ answers # <<>>
  /\ answers' = Take(Header)
  /\ LET m == Head(answers) IN
       \/ m.left > Header /\ Return(p, "")
       \/ /\ m.left <= Header
          /\ \E n \in IF m.fresh THEN {m.size} ELSE Misread(m.left) :
               \/ /\ n > 0
                  /\ page' = [page EXCEPT ![p] = IF m.fresh THEN "text" ELSE "stray"]
                  /\ size' = [size EXCEPT ![p] = n]
                  /\ UNCHANGED <<command, result>>
               \/ (n = 0 \/ n > Buffer) /\ Return(p, "")
  /\ UNCHANGED <<running, server, conn, requests, late>>

(* The read of the text.  After a header that was none it gets an answer    *)
(* from its header on, of which the string keeps the first byte.            *)
ReceiveText(p) ==
  /\ page[p] \in {"text", "stray"} /\ conn = p /\ answers # <<>>
  /\ answers' = Take(size[p])
  /\ Return(p, IF Head(answers).left > size[p] THEN ""
               ELSE IF page[p] = "text" THEN "text" ELSE "type")
  /\ UNCHANGED <<running, server, conn, requests, late>>

(* A read or write on a pipe the server has hung up on fails.               *)
Broken(p) ==
  /\ page[p] \notin {"closed", "idle"} /\ conn # p
  /\ Return(p, "")
  /\ UNCHANGED <<running, server, conn, pipe, late>>

Page(p) == SendData(p) \/ Sent(p) \/ ReceiveHeader(p) \/ ReceiveText(p) \/ Broken(p)

Next ==
  \/ Server \/ StopAsync
  \/ \E p \in Pages : ConnectToMacType(p) \/ Disconnect(p) \/ SendCommand(p) \/ Page(p)

(* The threads run; a command begun is gone on with, none need begin.       *)
Spec == Init /\ [][Next]_vars /\ WF_vars(Server) /\ \A p \in Pages : WF_vars(Page(p))

-----------------------------------------------------------------------------
(* A message in the pipe, or what is left of it.                            *)
Message == [type : Types \cup {"data"}, left : Nat \ {0}]
Answer == [left : Nat \ {0}, size : Nat, fresh : BOOLEAN]

TypeOK ==
  /\ running \in BOOLEAN
  /\ server \in {"create", "listen", "read", "write", "hangup", "ended"}
  /\ conn \in Pages \cup {None}
  /\ requests \in Seq(Message) /\ answers \in Seq(Answer)
  /\ page \in [Pages -> {"closed", "idle", "header", "data", "receive", "text", "stray"}]
  /\ command \in [Pages -> Commands \cup {NoCommand}] /\ size \in [Pages -> Nat]
  /\ result \in [Pages -> {"", "type", "text"}]
  /\ late \in 0..2

(* A page never waits in a read for an answer nobody owes it, although it   *)
(* reads more often than it writes commands and is always behind.           *)
Reads(p) == page[p] \in {"receive", "text", "stray"}
AnswerOwed ==
  \A p \in Pages : Reads(p) /\ conn = p =>
    answers # <<>> \/ requests # <<>> \/ server = "hangup"

(* A page that asks for the health of the agent, which is answered OK or    *)
(* UNHEALTHY, and is not hung up on, is returned the text of the answer     *)
(* ("Read response data", MacTypeCommunication.cpp:312).                    *)
Returns(p) == page[p] \notin {"idle", "closed"} /\ page'[p] = "idle"
HealthAnswered ==
  [][\A p \in Pages :
       Returns(p) /\ conn = p /\ command[p].type = "HealthCheck" => result'[p] = "text"]_vars

(* Once StopAsync has lowered the flag the server reads one more message at *)
(* most.                                                                    *)
OneLateMessage == late <= 1

(* A command returns, unless both ends wait for the other to read.          *)
Standstill(p) ==
  /\ page[p] \in {"header", "data"} /\ ~Room(requests)
  /\ server = "write" /\ ~Room(answers)
CommandReturns ==
  \A p \in Pages : page[p] \notin {"idle", "closed"} ~> page[p] = "idle" \/ Standstill(p)

(* StopAsync returns, unless the server thread waits for good: for a page   *)
(* to connect, to write, or to read.                                        *)
Waits ==
  \/ server = "listen" /\ conn = None
  \/ server = "read" /\ requests = <<>>
  \/ server = "write" /\ ~Room(answers)
StopReturns == ~running ~> (server = "ended" \/ []Waits)
=============================================================================
