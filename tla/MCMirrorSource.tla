--------------------------- MODULE MCMirrorSource ---------------------------
(***************************************************************************)
(* Sinks for the runs of MirrorSource.                                     *)
(***************************************************************************)
EXTENDS MirrorSource

Good(methods) == [kind: {"request"}, method: methods, good: {TRUE}]

\* a sink that plays by the handshake
PlayingSink == Good({"OPTIONS", "SETUP", "PLAY", "PAUSE", "TEARDOWN"})

\* one that also names wrong sessions, sends broken requests and its own keep-alives
UnrulySink ==
  PlayingSink
    \cup Good({"GET_PARAMETER", "SET_PARAMETER"})
    \cup [kind: {"request"}, method: {"OTHER", "SETUP", "PLAY", "PAUSE", "TEARDOWN", "SET_PARAMETER"},
          good: {FALSE}]
==============================================================================
