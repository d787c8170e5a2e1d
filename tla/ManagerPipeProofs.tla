------------------------- MODULE ManagerPipeProofs -------------------------
(***************************************************************************)
(* Theorems about the pipe of the agent, for any number of pages, any       *)
(* commands and lists, and any size of the buffers.                         *)
(***************************************************************************)
EXTENDS ManagerPipe, SequenceTheorems, TLAPS

(* What CreateResponse makes, and what is left of it.                       *)
Whole(m) == m.left = Header + m.size

(* A page that has written something and not yet read finds the answer to   *)
(* it, behind what earlier commands have left.                              *)
Writes(p) == page[p] \in {"header", "data", "receive"}
Queued ==
  /\ \A i \in DOMAIN answers : answers[i].fresh => Whole(answers[i])
  /\ \A i \in DOMAIN answers : i # 1 => answers[i].fresh
  /\ conn = None => requests = <<>> /\ answers = <<>>
  /\ \A p \in Pages : conn = p /\ server # "hangup" =>
       /\ Writes(p) => requests # <<>> \/ answers # <<>>
       /\ Writes(p) /\ answers # <<>> /\ ~answers[1].fresh =>
            requests # <<>> \/ Len(answers) > 1
       /\ page[p] = "stray" => requests # <<>> \/ answers # <<>>

(* No page has read the header of an answer that has a text.                *)
NoHeader == \A p \in Pages : page[p] # "text" /\ result[p] # "text"

(* The server thread after the flag has fallen.                             *)
Late ==
  /\ running => late = 0
  /\ late \in {0, 1}
  /\ late = 1 => server \in {"write", "hangup", "ended"}

Inv == TypeOK /\ Queued /\ NoHeader /\ Late

LEMMA TextLengthsTyped ==
  ASSUME NEW m \in Message
  PROVE  TextLengths(m) \subseteq Nat
<1>1. Lists \subseteq Nat
  BY ManagerPipeAssumption
<1> QED
  BY <1>1 DEF TextLengths, Message, Types, Header

LEMMA GarbageTyped == \A m \in Nat : Misread(m) \subseteq Nat
  BY ManagerPipeAssumption DEF Misread

LEMMA InitInv == Init => Inv
<1> SUFFICES ASSUME Init PROVE Inv
  OBVIOUS
<1>c. <<>> \in Seq(Message) /\ <<>> \in Seq(Answer)
  BY EmptySeq
<1>1. requests \in Seq(Message) /\ answers \in Seq(Answer)
  BY <1>c DEF Init
<1>2. /\ page \in [Pages -> {"closed", "idle", "header", "data", "receive", "text", "stray"}]
      /\ command \in [Pages -> Commands \cup {NoCommand}] /\ size \in [Pages -> Nat]
      /\ result \in [Pages -> {"", "type", "text"}]
  BY DEF Init
<1>a. running \in BOOLEAN /\ conn \in Pages \cup {None}
  BY Zenon DEF Init
<1>b. /\ server \in {"create", "listen", "read", "write", "hangup", "ended"}
      /\ late = 0
  BY Zenon DEF Init
<1>3. /\ running \in BOOLEAN /\ late \in 0 .. 2 /\ conn \in Pages \cup {None}
      /\ server \in {"create", "listen", "read", "write", "hangup", "ended"}
  <2>1. late \in 0 .. 2
    BY <1>b, SMT
  <2> QED  BY <1>a, <1>b, <2>1
<1>4. TypeOK
  BY <1>1, <1>2, <1>3, Zenon DEF TypeOK
<1>5. Queued
  <2>a. conn = None /\ requests = <<>> /\ answers = <<>>
    BY Zenon DEF Init
  <2>1. conn = None /\ requests = <<>> /\ answers = <<>> /\ DOMAIN answers = {}
    BY <2>a
  <2> QED  BY <2>1, ManagerPipeAssumption DEF Queued
<1>6. NoHeader /\ Late
  <2>1. NoHeader
    <3>1. \A p \in Pages : page[p] = "closed" /\ result[p] = ""
      BY DEF Init
    <3> QED  BY <3>1 DEF NoHeader
  <2>2. Late
    <3>1. 0 # 1
      OBVIOUS
    <3> QED  BY <1>b, <3>1, Zenon DEF Late
  <2> QED  BY <2>1, <2>2
<1> QED  BY <1>4, <1>5, <1>6 DEF Inv

(* A step of the server thread that leaves the pipe and the pages alone.    *)
LEMMA Moved ==
  ASSUME Inv, UNCHANGED <<running, conn, requests, answers, page, command, size, result, late>>,
         server # "hangup", server' \in {"create", "listen", "read", "hangup", "ended"},
         server' \notin {"hangup", "ended"} => late = 0
  PROVE  Inv'
<1>1. TypeOK'
  BY DEF Inv, TypeOK
<1>2. Queued'
  BY DEF Inv, Queued, Writes, Whole
<1>3. NoHeader' /\ Late'
  BY DEF Inv, NoHeader, Late
<1> QED  BY <1>1, <1>2, <1>3 DEF Inv

LEMMA ServerInv ==
  ASSUME Inv, Server
  PROVE  Inv'
<1> USE DEF Inv
<1>1. CASE Create
  <2>1. /\ UNCHANGED <<running, conn, requests, answers, page, command, size, result, late>>
        /\ server = "create" /\ server' \in {"create", "listen", "ended"}
    BY <1>1 DEF Create, pages, pipe
  <2>2. late = 0
    BY <2>1 DEF Late
  <2> QED  BY <2>1, <2>2, Moved
<1>2. CASE Accept
  <2>1. /\ UNCHANGED <<running, conn, requests, answers, page, command, size, result, late>>
        /\ server = "listen" /\ server' = IF running THEN "read" ELSE "hangup"
    BY <1>2 DEF Accept, Loop, pages, pipe
  <2>2. late = 0 /\ server' \in {"read", "hangup"}
    <3>1. server # "write" /\ server # "hangup" /\ server # "ended"
      BY <2>1
    <3> QED  BY <2>1, <3>1, Zenon DEF Late
  <2> QED  BY <2>1, <2>2, Moved
<1>3. CASE Wrote
  <2>1. /\ UNCHANGED <<running, conn, requests, answers, page, command, size, result, late>>
        /\ server = "write"
        /\ server' = "hangup" \/ (running /\ server' = "read")
    BY <1>3 DEF Wrote, Loop, pages, pipe
  <2> QED  BY <2>1, Moved DEF TypeOK, Late
<1>4. CASE PageGone
  <2>1. /\ UNCHANGED <<running, conn, requests, answers, page, command, size, result, late>>
        /\ server = "read" /\ server' = "hangup"
    BY <1>4 DEF PageGone, pages, pipe
  <2> QED  BY <2>1, Moved DEF TypeOK, Late
<1>5. CASE HangUp
  <2>1. /\ UNCHANGED <<running, page, command, size, result, late>>
        /\ conn' = None /\ requests' = <<>> /\ answers' = <<>>
        /\ server = "hangup" /\ server' = IF running THEN "create" ELSE "ended"
    BY <1>5 DEF HangUp, pages
  <2>2. requests' \in Seq(Message) /\ answers' \in Seq(Answer)
    BY <2>1, EmptySeq
  <2>3. TypeOK'
    BY <2>1, <2>2 DEF TypeOK
  <2>4. Queued'
    BY <2>1, ManagerPipeAssumption DEF Queued
  <2>5. NoHeader' /\ Late'
    BY <2>1 DEF NoHeader, Late
  <2> QED  BY <2>3, <2>4, <2>5
<1>6. CASE Serve
  <2>1. requests \in Seq(Message) /\ requests # <<>> /\ answers \in Seq(Answer)
    BY <1>6 DEF Serve, TypeOK, Message, Answer
  <2>2. Head(requests) \in Message /\ Tail(requests) \in Seq(Message)
    BY <2>1
  <2>a. /\ UNCHANGED <<running, conn, page, command, size, result>>
        /\ server = "read" /\ requests' = Tail(requests)
        /\ late' = IF running \/ late = 2 THEN late ELSE late + 1
        /\ server' \in {"write", "hangup"}
    BY <1>6 DEF Serve, pages
  <2>b. late = 0 /\ (running => late' = 0) /\ late' \in 0 .. 1
    <3>1. server # "write" /\ server # "hangup" /\ server # "ended"
      BY <2>a
    <3>2. late = 0
      BY <3>1, Zenon DEF Late
    <3>3. (running => late' = late) /\ (late' = late \/ late' = late + 1)
      BY <2>a, Zenon
    <3> QED  BY <3>2, <3>3
  <2>3. NoHeader' /\ Late'
    <3>1. NoHeader'
      BY <2>a DEF NoHeader
    <3>2. Late'
      BY <2>a, <2>b DEF Late
    <3> QED  BY <3>1, <3>2
  <2>c. requests' \in Seq(Message)
    BY <2>a, <2>2
  <2>4. CASE Head(requests).left > Buffer
    <3>1. server' = "hangup" /\ UNCHANGED answers
      BY <1>6, <2>1, <2>2, <2>4, ManagerPipeAssumption DEF Serve, Message
    <3>2. TypeOK'
      <4>1. late' \in 0 .. 2
        BY <2>b
      <4>2. server' \in {"create", "listen", "read", "write", "hangup", "ended"}
        BY <3>1
      <4> QED  BY <2>a, <2>c, <3>1, <4>1, <4>2, Zenon DEF TypeOK
    <3>3. Queued'
      <4>1. conn # None
        BY <2>1 DEF Queued
      <4> QED  BY <2>a, <3>1, <4>1 DEF Queued, Whole
    <3> QED  BY <2>3, <3>2, <3>3
  <2>5. CASE Head(requests).left <= Buffer
    <3>1. server' = "write" /\ Respond(Head(requests))
      BY <1>6, <2>1, <2>2, <2>5, ManagerPipeAssumption DEF Serve, Message
    <3>2. PICK n \in TextLengths(Head(requests)) :
            answers' = Append(answers, [left |-> Header + n, size |-> n, fresh |-> TRUE])
      BY <3>1 DEF Respond
    <3>3. n \in Nat
      BY <2>2, TextLengthsTyped
    <3> DEFINE a == [left |-> Header + n, size |-> n, fresh |-> TRUE]
    <3>4. a \in Answer /\ a.fresh /\ Whole(a)
      BY <3>3 DEF Answer, Header, Whole
    <3> HIDE DEF a
    <3>5. /\ answers' = Append(answers, a) /\ answers' \in Seq(Answer)
          /\ Len(answers') = Len(answers) + 1 /\ answers' # <<>>
          /\ \A i \in 1 .. Len(answers) : answers'[i] = answers[i]
          /\ answers'[Len(answers) + 1] = a
      BY <2>1, <3>2, <3>4 DEF a
    <3>6. TypeOK'
      <4>1. late' \in 0 .. 2
        BY <2>b
      <4>2. server' \in {"create", "listen", "read", "write", "hangup", "ended"}
        BY <3>1
      <4> QED  BY <2>a, <2>c, <3>5, <4>1, <4>2, Zenon DEF TypeOK
    <3>7. Queued'
      BY <2>1, <2>a, <3>1, <3>4, <3>5 DEF Queued, Writes, Whole
    <3> QED  BY <2>3, <3>6, <3>7
  <2>6. Head(requests).left \in Nat /\ Buffer \in Nat
    BY <2>2, ManagerPipeAssumption DEF Message
  <2> QED  BY <2>4, <2>5, <2>6
<1> QED
  BY <1>1, <1>2, <1>3, <1>4, <1>5, <1>6 DEF Server
-----------------------------------------------------------------------------
(* Where a page can be, and what it can have been returned.                 *)
Places == {"closed", "idle", "header", "data", "receive", "stray"}
Outcomes == {"", "type"}

LEMMA Narrow ==
  ASSUME Inv
  PROVE  page \in [Pages -> Places] /\ result \in [Pages -> Outcomes]
<1>1. /\ page \in [Pages -> Places \cup {"text"}]
      /\ result \in [Pages -> Outcomes \cup {"text"}]
  BY DEF Inv, TypeOK, Places, Outcomes
<1>2. \A p \in Pages : page[p] # "text" /\ result[p] # "text"
  BY DEF Inv, NoHeader
<1>3. \A p \in Pages : page[p] \in Places /\ result[p] \in Outcomes
  BY <1>1, <1>2
<1> QED  BY <1>1, <1>3

(* A step of a page, from the types of what it changes and what it queues.  *)
LEMMA PageStep ==
  ASSUME Inv, UNCHANGED <<running, server, late>>, conn' \in Pages \cup {None},
         requests' \in Seq(Message), answers' \in Seq(Answer),
         page' \in [Pages -> Places], result' \in [Pages -> Outcomes],
         command' \in [Pages -> Commands \cup {NoCommand}], size' \in [Pages -> Nat],
         Queued'
  PROVE  Inv'
<1>1. /\ page' \in [Pages -> {"closed", "idle", "header", "data", "receive", "text", "stray"}]
      /\ result' \in [Pages -> {"", "type", "text"}]
  BY DEF Places, Outcomes
<1>2. running \in BOOLEAN /\ late \in 0 .. 2
      /\ server \in {"create", "listen", "read", "write", "hangup", "ended"}
  BY Zenon DEF Inv, TypeOK
<1>3. TypeOK'
  BY <1>1, <1>2, Zenon DEF TypeOK
<1>4. NoHeader'
  BY DEF NoHeader, Places, Outcomes
<1>5. Late'
  BY Zenon DEF Inv, Late
<1> QED  BY <1>3, <1>4, <1>5 DEF Inv

(* A step after which the page has returned to its caller.                  *)
LEMMA Returned ==
  ASSUME Inv, NEW p \in Pages, NEW what \in Outcomes, Return(p, what),
         UNCHANGED <<running, server, late, conn, requests>>,
         answers' \in Seq(Answer), conn # p => answers' = answers,
         \A i \in DOMAIN answers' : answers'[i].fresh => Whole(answers'[i]),
         \A i \in DOMAIN answers' : i # 1 => answers'[i].fresh
  PROVE  Inv'
<1>1. /\ page \in [Pages -> Places] /\ result \in [Pages -> Outcomes]
      /\ conn \in Pages \cup {None} /\ requests \in Seq(Message)
      /\ command \in [Pages -> Commands \cup {NoCommand}] /\ size \in [Pages -> Nat]
  BY Narrow, Zenon DEF Inv, TypeOK
<1>2. /\ page' = [page EXCEPT ![p] = "idle"] /\ result' = [result EXCEPT ![p] = what]
      /\ size' = [size EXCEPT ![p] = 0] /\ command' = [command EXCEPT ![p] = NoCommand]
  BY DEF Return
<1>3. /\ page' \in [Pages -> Places] /\ result' \in [Pages -> Outcomes]
      /\ command' \in [Pages -> Commands \cup {NoCommand}] /\ size' \in [Pages -> Nat]
  BY <1>1, <1>2 DEF Places
<1>4. Queued'
  <2>1. conn' = None => requests' = <<>> /\ answers' = <<>>
    BY ManagerPipeAssumption DEF Inv, Queued
  <2>2. ASSUME NEW q \in Pages, conn' = q, server' # "hangup"
        PROVE  /\ Writes(q)' => requests' # <<>> \/ answers' # <<>>
               /\ Writes(q)' /\ answers' # <<>> /\ ~answers'[1].fresh =>
                    requests' # <<>> \/ Len(answers') > 1
               /\ page'[q] = "stray" => requests' # <<>> \/ answers' # <<>>
    <3>1. CASE q = p
      <4>1. page'[q] = "idle"
        BY <1>1, <1>2, <3>1
      <4> QED  BY <4>1 DEF Writes
    <3>2. CASE q # p
      <4>1. page'[q] = page[q] /\ answers' = answers /\ conn = q /\ server # "hangup"
        BY <1>1, <1>2, <2>2, <3>2
      <4> QED  BY <4>1 DEF Inv, Queued, Writes
    <3> QED  BY <3>1, <3>2
  <2> QED  BY <2>1, <2>2 DEF Queued, Whole
<1> QED  BY <1>1, <1>3, <1>4, PageStep

(* What is left of the answers after a read of n bytes.                     *)
LEMMA Taken ==
  ASSUME Inv, answers # <<>>, NEW n \in Nat
  PROVE  /\ Take(n) \in Seq(Answer)
         /\ \A i \in DOMAIN Take(n) : Take(n)[i].fresh => Whole(Take(n)[i])
         /\ \A i \in DOMAIN Take(n) : i # 1 => Take(n)[i].fresh
         /\ Head(answers).left <= n /\ Len(answers) > 1 => Take(n) # <<>>
<1>1. answers \in Seq(Answer) /\ Len(answers) \in Nat \ {0}
  BY EmptySeq DEF Inv, TypeOK
<1>2. /\ \A i \in 1 .. Len(answers) : answers[i].fresh => Whole(answers[i])
      /\ \A i \in 1 .. Len(answers) : i # 1 => answers[i].fresh
      /\ \A i \in 1 .. Len(answers) : answers[i] \in Answer
  BY <1>1 DEF Inv, Queued
<1>3. Head(answers) = answers[1] /\ answers[1] \in Answer /\ answers[1].left \in Nat \ {0}
  BY <1>1, <1>2 DEF Answer
<1>4. CASE Head(answers).left <= n
  <2>1. Take(n) = Tail(answers)
    BY <1>4 DEF Take
  <2>2. /\ Tail(answers) \in Seq(Answer) /\ Len(Tail(answers)) = Len(answers) - 1
        /\ \A i \in 1 .. Len(answers) - 1 : Tail(answers)[i] = answers[i + 1]
    BY <1>1, HeadTailProperties
  <2>3. \A i \in 1 .. Len(answers) - 1 :
          /\ Tail(answers)[i].fresh /\ Whole(Tail(answers)[i])
    BY <1>1, <1>2, <2>2
  <2>4. DOMAIN Tail(answers) = 1 .. Len(answers) - 1
    BY <2>2
  <2>5. Len(answers) > 1 => Tail(answers) # <<>>
    <3>1. Tail(answers) = <<>> => Len(Tail(answers)) = 0
      BY EmptySeq
    <3> QED  BY <1>1, <2>2, <3>1
  <2>6. \A i \in DOMAIN Tail(answers) : Tail(answers)[i].fresh /\ Whole(Tail(answers)[i])
    BY <2>3, <2>4
  <2> QED  BY <2>1, <2>2, <2>5, <2>6, Zenon
<1>5. CASE Head(answers).left > n
  <2> DEFINE a == [left |-> answers[1].left - n, size |-> answers[1].size, fresh |-> FALSE]
  <2>1. Take(n) = [answers EXCEPT ![1] = a]
    BY <1>1, <1>3, <1>5 DEF Take
  <2>2. a \in Answer /\ a.fresh = FALSE
    <3>1. answers[1].left - n \in Nat \ {0} /\ answers[1].size \in Nat
      BY <1>3, <1>5 DEF Answer
    <3> QED  BY <3>1 DEF Answer
  <2> HIDE DEF a
  <2>3. /\ Take(n) \in Seq(Answer) /\ DOMAIN Take(n) = 1 .. Len(answers)
        /\ Take(n)[1] = a
        /\ \A i \in 1 .. Len(answers) : i # 1 => Take(n)[i] = answers[i]
    BY <1>1, <2>1, <2>2
  <2> QED  BY <1>2, <1>3, <1>5, <2>2, <2>3
<1> QED  BY <1>3, <1>4, <1>5
-----------------------------------------------------------------------------
(* A step that lets the page on the pipe go on with its command.            *)
LEMMA GoneOn ==
  ASSUME Inv, NEW p \in Pages, NEW where \in Places, conn = p,
         page' = [page EXCEPT ![p] = where],
         UNCHANGED <<running, server, late, conn, answers, result>>,
         command' \in [Pages -> Commands \cup {NoCommand}], size' \in [Pages -> Nat],
         requests' \in Seq(Message), requests' = requests \/ requests' # <<>>,
         where \notin {"idle", "closed"} => requests' # <<>> \/ Writes(p),
         where # "stray"
  PROVE  Inv'
<1>1. /\ page \in [Pages -> Places] /\ result' \in [Pages -> Outcomes]
      /\ conn' \in Pages \cup {None} /\ answers' \in Seq(Answer)
  BY Narrow, Zenon DEF Inv, TypeOK
<1>2. page' \in [Pages -> Places] /\ page'[p] = where
  BY <1>1
<1>3. Queued'
  <2>1. conn' # None
    BY ManagerPipeAssumption
  <2>2. ASSUME NEW q \in Pages, conn' = q, server' # "hangup"
        PROVE  /\ Writes(q)' => requests' # <<>> \/ answers' # <<>>
               /\ Writes(q)' /\ answers' # <<>> /\ ~answers'[1].fresh =>
                    requests' # <<>> \/ Len(answers') > 1
               /\ page'[q] = "stray" => requests' # <<>> \/ answers' # <<>>
    BY <1>2, <2>2 DEF Inv, Queued, Writes
  <2> QED  BY <2>1, <2>2 DEF Inv, Queued, Whole
<1> QED  BY <1>1, <1>2, <1>3, PageStep

LEMMA WriteInv ==
  ASSUME Inv, NEW p \in Pages,
         ConnectToMacType(p) \/ Disconnect(p) \/ SendCommand(p) \/ SendData(p) \/ Sent(p)
  PROVE  Inv'
<1>1. /\ page \in [Pages -> Places] /\ result \in [Pages -> Outcomes]
      /\ conn \in Pages \cup {None}
      /\ requests \in Seq(Message) /\ answers \in Seq(Answer)
      /\ command \in [Pages -> Commands \cup {NoCommand}] /\ size \in [Pages -> Nat]
  BY Narrow, Zenon DEF Inv, TypeOK
<1>2. CASE ConnectToMacType(p)
  <2>1. /\ conn = None /\ conn' = p /\ page' = [page EXCEPT ![p] = "idle"]
        /\ UNCHANGED <<running, server, late, requests, answers, command, size, result>>
    BY <1>2 DEF ConnectToMacType, pipe
  <2>2. /\ requests = <<>> /\ answers = <<>> /\ page'[p] = "idle"
        /\ page' \in [Pages -> Places]
    BY <1>1, <2>1 DEF Inv, Queued, Places
  <2>3. Queued'
    BY <2>1, <2>2, ManagerPipeAssumption DEF Queued, Writes
  <2> QED  BY <1>1, <2>1, <2>2, <2>3, PageStep
<1>3. CASE Disconnect(p)
  <2>1. /\ page' = [page EXCEPT ![p] = "closed"] /\ result' = [result EXCEPT ![p] = ""]
        /\ UNCHANGED <<running, server, late, conn, requests, answers, command, size>>
    BY <1>3 DEF Disconnect, pipe
  <2>2. /\ page' \in [Pages -> Places] /\ result' \in [Pages -> Outcomes]
        /\ page'[p] = "closed" /\ \A q \in Pages \ {p} : page'[q] = page[q]
    BY <1>1, <2>1 DEF Places, Outcomes
  <2>3. Queued'
    BY <2>1, <2>2 DEF Inv, Queued, Writes, Whole
  <2> QED  BY <1>1, <2>1, <2>2, <2>3, PageStep
<1>4. CASE SendCommand(p)
  <2>1. PICK c \in Commands :
          \/ /\ conn = p
             /\ command' = [command EXCEPT ![p] = c]
             /\ page' = [page EXCEPT ![p] = "header"]
             /\ requests' = Append(requests, [type |-> c.type, left |-> Header])
             /\ UNCHANGED <<size, result>>
          \/ conn # p /\ Return(p, "") /\ UNCHANGED requests
    BY <1>4 DEF SendCommand
  <2>2. UNCHANGED <<running, server, late, conn, answers>>
    BY <1>4 DEF SendCommand
  <2>3. CASE conn # p
    <3>1. Return(p, "") /\ UNCHANGED requests
      BY <2>1, <2>3
    <3>2. "" \in Outcomes
      BY DEF Outcomes
    <3> QED  BY <1>1, <2>2, <2>3, <3>1, <3>2, Returned DEF Inv, Queued
  <2>4. CASE conn = p
    <3> DEFINE m == [type |-> c.type, left |-> Header]
    <3>1. /\ command' = [command EXCEPT ![p] = c]
          /\ page' = [page EXCEPT ![p] = "header"]
          /\ requests' = Append(requests, m) /\ UNCHANGED <<size, result>>
      BY <2>1, <2>4
    <3>2. m \in Message
      BY ManagerPipeAssumption DEF Message, Header
    <3> HIDE DEF m
    <3>3. requests' \in Seq(Message) /\ requests' # <<>>
      BY <1>1, <3>1, <3>2, AppendProperties
    <3>4. command' \in [Pages -> Commands \cup {NoCommand}] /\ "header" \in Places
      BY <1>1, <3>1 DEF Places
    <3> QED  BY <1>1, <2>2, <2>4, <3>1, <3>3, <3>4, GoneOn
  <2> QED  BY <2>3, <2>4
<1>5. CASE SendData(p)
  <2>1. /\ page[p] = "header" /\ conn = p
        /\ UNCHANGED <<running, server, conn, answers, command, size, result, late>>
        /\ \/ /\ command[p].data > 0
              /\ page' = [page EXCEPT ![p] = "data"]
              /\ requests' = Append(requests, [type |-> "data", left |-> command[p].data])
           \/ page' = [page EXCEPT ![p] = "receive"] /\ UNCHANGED requests
    BY <1>5 DEF SendData
  <2>2. Writes(p) /\ "data" \in Places /\ "receive" \in Places
    BY <2>1 DEF Writes, Places
  <2>3. CASE page' = [page EXCEPT ![p] = "receive"] /\ UNCHANGED requests
    BY <1>1, <2>1, <2>2, <2>3, GoneOn
  <2>4. CASE /\ command[p].data > 0
             /\ page' = [page EXCEPT ![p] = "data"]
             /\ requests' = Append(requests, [type |-> "data", left |-> command[p].data])
    <3> DEFINE m == [type |-> "data", left |-> command[p].data]
    <3>1. command[p].data \in Nat \ {0}
      BY <1>1, <2>4, ManagerPipeAssumption DEF NoCommand
    <3>2. m \in Message
      BY <3>1 DEF Message
    <3>3. requests' = Append(requests, m)
      BY <2>4
    <3> HIDE DEF m
    <3>4. requests' \in Seq(Message) /\ requests' # <<>>
      BY <1>1, <3>2, <3>3, AppendProperties
    <3> QED  BY <1>1, <2>1, <2>2, <2>4, <3>4, GoneOn
  <2> QED  BY <2>1, <2>3, <2>4
<1>6. CASE Sent(p)
  <2>1. /\ page[p] = "data" /\ conn = p /\ page' = [page EXCEPT ![p] = "receive"]
        /\ UNCHANGED <<running, server, conn, requests, answers, command, size, result, late>>
    BY <1>6 DEF Sent, pipe
  <2>2. Writes(p) /\ "receive" \in Places
    BY <2>1 DEF Writes, Places
  <2> QED  BY <1>1, <2>1, <2>2, GoneOn
<1> QED  BY <1>2, <1>3, <1>4, <1>5, <1>6
LEMMA ReadInv ==
  ASSUME Inv, NEW p \in Pages, ReceiveHeader(p) \/ ReceiveText(p) \/ Broken(p)
  PROVE  Inv'
<1>1. /\ page \in [Pages -> Places] /\ result \in [Pages -> Outcomes]
      /\ conn \in Pages \cup {None}
      /\ requests \in Seq(Message) /\ answers \in Seq(Answer)
      /\ command \in [Pages -> Commands \cup {NoCommand}] /\ size \in [Pages -> Nat]
  BY Narrow, Zenon DEF Inv, TypeOK
<1>2. "" \in Outcomes /\ "type" \in Outcomes /\ page[p] # "text"
  BY <1>1 DEF Outcomes, Places
<1>3. CASE ReceiveHeader(p)
  <2> DEFINE m == Head(answers)
  <2>1. /\ page[p] = "receive" /\ conn = p /\ answers # <<>> /\ answers' = Take(Header)
        /\ UNCHANGED <<running, server, conn, requests, late>>
    BY <1>3 DEF ReceiveHeader
  <2>2. /\ answers' \in Seq(Answer)
        /\ \A i \in DOMAIN answers' : answers'[i].fresh => Whole(answers'[i])
        /\ \A i \in DOMAIN answers' : i # 1 => answers'[i].fresh
        /\ m.left <= Header /\ Len(answers) > 1 => answers' # <<>>
    BY <2>1, Taken DEF Header
  <2>3. m \in Answer /\ m = answers[1] /\ 1 \in DOMAIN answers
    BY <1>1, <2>1, EmptySeq
  <2>4. CASE Return(p, "")
    BY <1>2, <2>1, <2>2, <2>4, Returned
  <2>5. CASE /\ m.left <= Header
             /\ \E n \in IF m.fresh THEN {m.size} ELSE Misread(m.left) :
                  /\ n > 0
                  /\ page' = [page EXCEPT ![p] = IF m.fresh THEN "text" ELSE "stray"]
                  /\ size' = [size EXCEPT ![p] = n]
                  /\ UNCHANGED <<command, result>>
    <3>1. PICK n \in IF m.fresh THEN {m.size} ELSE Misread(m.left) :
                  /\ n > 0
                  /\ page' = [page EXCEPT ![p] = IF m.fresh THEN "text" ELSE "stray"]
                  /\ size' = [size EXCEPT ![p] = n]
                  /\ UNCHANGED <<command, result>>
      BY <2>5
    <3>2. ~m.fresh
      <4>1. ASSUME m.fresh PROVE FALSE
        <5>1. m.left = Header + m.size
          BY <2>3, <4>1 DEF Inv, Queued, Whole
        <5>2. n = m.size
          BY <3>1, <4>1
        <5>3. m.left <= Header /\ m.size \in Nat /\ n > 0
          BY <2>3, <2>5, <3>1 DEF Answer
        <5> QED  BY <5>1, <5>2, <5>3 DEF Header
      <4> QED  BY <4>1
    <3>3. n \in Nat /\ page' = [page EXCEPT ![p] = "stray"] /\ size' = [size EXCEPT ![p] = n]
      BY <2>3, <3>1, <3>2, GarbageTyped DEF Answer
    <3>4. /\ page' \in [Pages -> Places] /\ page'[p] = "stray" /\ size' \in [Pages -> Nat]
      BY <1>1, <3>3 DEF Places
    <3>5. server # "hangup" => requests # <<>> \/ answers' # <<>>
      <4>1. server # "hangup" => requests # <<>> \/ Len(answers) > 1
        BY <2>1, <2>3, <3>2 DEF Inv, Queued, Writes
      <4> QED  BY <2>2, <2>5, <4>1
    <3>6. Queued'
      BY <2>1, <2>2, <3>4, <3>5, ManagerPipeAssumption DEF Queued, Writes, Whole
    <3> QED  BY <1>1, <2>1, <2>2, <3>1, <3>4, <3>6, PageStep
  <2>6. Return(p, "") \/
        (/\ m.left <= Header
         /\ \E n \in IF m.fresh THEN {m.size} ELSE Misread(m.left) :
              /\ n > 0
              /\ page' = [page EXCEPT ![p] = IF m.fresh THEN "text" ELSE "stray"]
              /\ size' = [size EXCEPT ![p] = n]
              /\ UNCHANGED <<command, result>>)
    BY <1>3, Zenon DEF ReceiveHeader
  <2> QED  BY <2>4, <2>5, <2>6
<1>4. CASE ReceiveText(p)
  <2>1. /\ page[p] = "stray" /\ conn = p /\ answers # <<>> /\ answers' = Take(size[p])
        /\ UNCHANGED <<running, server, conn, requests, late>>
        /\ Return(p, "") \/ Return(p, "type")
    BY <1>2, <1>4 DEF ReceiveText
  <2>2. /\ answers' \in Seq(Answer)
        /\ \A i \in DOMAIN answers' : answers'[i].fresh => Whole(answers'[i])
        /\ \A i \in DOMAIN answers' : i # 1 => answers'[i].fresh
    BY <1>1, <2>1, Taken
  <2> QED  BY <1>2, <2>1, <2>2, Returned
<1>5. CASE Broken(p)
  <2>1. /\ conn # p /\ Return(p, "")
        /\ UNCHANGED <<running, server, conn, requests, answers, late>>
    BY <1>5 DEF Broken, pipe
  <2>2. /\ \A i \in DOMAIN answers : answers[i].fresh => Whole(answers[i])
        /\ \A i \in DOMAIN answers : i # 1 => answers[i].fresh
    BY DEF Inv, Queued
  <2> QED  BY <1>1, <1>2, <2>1, <2>2, Returned
<1> QED  BY <1>3, <1>4, <1>5

-----------------------------------------------------------------------------
LEMMA InvNext == Inv /\ [Next]_vars => Inv'
<1> SUFFICES ASSUME Inv, [Next]_vars PROVE Inv'
  OBVIOUS
<1>1. CASE Server
  BY <1>1, ServerInv
<1>2. CASE StopAsync
  <2>1. /\ running' = FALSE
        /\ UNCHANGED <<server, conn, requests, answers, page, command, size, result, late>>
    BY <1>2 DEF StopAsync, pipe, pages
  <2>2. TypeOK'
    BY <2>1, Zenon DEF Inv, TypeOK
  <2>3. Queued' /\ NoHeader'
    BY <2>1 DEF Inv, Queued, NoHeader, Writes, Whole
  <2>4. Late'
    BY <2>1, Zenon DEF Inv, Late
  <2> QED  BY <2>2, <2>3, <2>4 DEF Inv
<1>3. ASSUME NEW p \in Pages,
             ConnectToMacType(p) \/ Disconnect(p) \/ SendCommand(p) \/ Page(p)
      PROVE  Inv'
  BY <1>3, WriteInv, ReadInv DEF Page
<1>4. CASE UNCHANGED vars
  <2>1. UNCHANGED <<running, server, conn, requests, answers, page, command, size, result, late>>
    BY <1>4 DEF vars, pipe, pages
  <2> QED  BY <2>1 DEF Inv, TypeOK, Queued, NoHeader, Late, Writes, Whole
<1> QED  BY <1>1, <1>2, <1>3, <1>4 DEF Next

LEMMA Invariant == Spec => []Inv
  BY InitInv, InvNext, PTL DEF Spec

(* Every variable keeps its type, whatever the pages send and whatever is   *)
(* left in the pipe between their commands.                                 *)
THEOREM TypeCorrect == Spec => []TypeOK
<1>1. Inv => TypeOK
  BY DEF Inv
<1> QED  BY <1>1, Invariant, PTL

(* A page in ReceiveResponse always has an answer in the pipe or one the    *)
(* server still has to give: its read does not wait for nothing, although   *)
(* the answers of earlier commands are left in front of it.                 *)
THEOREM AnswersOwed == Spec => []AnswerOwed
<1>1. Inv => AnswerOwed
  BY DEF Inv, Queued, NoHeader, AnswerOwed, Reads, Writes
<1> QED  BY <1>1, Invariant, PTL

(* No command, of any type and in any order of the two sides, is returned   *)
(* the text of its answer: what the run managerpipe_health finds of one is  *)
(* no matter of timing.                                                     *)
NeverTheText == \A p \in Pages : result[p] # "text"

THEOREM NoText == Spec => []NeverTheText
<1>1. Inv => NeverTheText
  BY DEF Inv, NoHeader, NeverTheText
<1> QED  BY <1>1, Invariant, PTL

(* The server answers at most one message after StopAsync.                  *)
THEOREM LateOnce == Spec => []OneLateMessage
<1>1. Inv => OneLateMessage
  <2>1. Inv => late \in {0, 1}
    BY DEF Inv, Late
  <2> QED  BY <2>1 DEF OneLateMessage
<1> QED  BY <1>1, Invariant, PTL
=============================================================================
