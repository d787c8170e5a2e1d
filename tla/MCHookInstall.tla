--------------------------- MODULE MCHookInstall ---------------------------
EXTENDS HookInstall

CONSTANTS loader, drawing, painting

TwoThreads == {drawing, painting}

(* Systems on which a program draws with render targets, with device        *)
(* contexts and with DirectWrite.                                           *)
SomeSystems ==
  {{"TextOutW", "D2D1CreateFactory", "CreateWicBitmapRenderTarget",
    "CreateHwndRenderTarget", "D2D1RenderTarget_DrawText"},
   {"D2D1CreateDevice", "CreateDeviceContext", "CreateCompatibleRenderTarget",
    "D2D1DeviceContext_DrawText"},
   {"DWriteCreateFactory", "CreateGlyphRunAnalysis", "CreateGlyphRunAnalysis2",
    "GetAlphaBlendParams"}}
=============================================================================
