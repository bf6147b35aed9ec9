---- MODULE MCCanService ----
(* Instances of CanService for TLC.  One call list per scenario.             *)
EXTENDS CanService, TLC

CONSTANTS c1, c2, c3, d1, d2

(* Agent tools and diagnostics on a service that stays up.                   *)
SteadyCalls ==
  (c3 :> {"send"}) @@
  [c \in {c1, c2} |-> {"send", "recover", "subscribe", "unsubscribe"}]

(* One NSH shell that runs every command, and a tool that starts the service *)
(* by using it, and may stop it.                                             *)
ShellCalls ==
  (c1 :> CallNames) @@ (c2 :> {"start", "stop", "send", "subscribe"})

(* A shell that stops the service while a tool sends or subscribes.          *)
StopCalls == (c1 :> {"stop"}) @@ (c2 :> {"send", "subscribe"})
====
