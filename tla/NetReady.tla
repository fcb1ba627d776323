------------------------------ MODULE NetReady ------------------------------
(***************************************************************************)
(* The Ready negotiation (netplay/proto/ready.c): two sides meet at a      *)
(* point of the program. Each side keeps two flags and the callback to run *)
(* when both are ready; the flags are cleared before the callback runs, so *)
(* that the callback may begin the next negotiation.                       *)
(*                                                                         *)
(* Operators on the record of one connection; the modules that use the     *)
(* negotiation keep one record per side.                                   *)
(***************************************************************************)

CONSTANT Callback   \* the callbacks, of which "none" is no callback

Ready == [local : BOOLEAN, remote : BOOLEAN, callback : Callback \cup {"none"}]

(* NetConnection_open                                                      *)
NotReady == [local |-> FALSE, remote |-> FALSE, callback |-> "none"]

(* Netplay_localReady: whether both sides are ready now, so that the       *)
(* callback runs, and the flags it leaves.                                 *)
MetByLocal(r) == r.remote

(* Faulty: the peer's readiness counts once more.                          *)
AfterLocalKeepsRemote(r, callback) ==
  IF MetByLocal(r) THEN [r EXCEPT !.callback = "none"]
  ELSE [r EXCEPT !.local = TRUE, !.callback = callback]

AfterLocal(r, callback) ==
  IF MetByLocal(r)
  THEN [r EXCEPT !.remote = FALSE, !.callback = "none"]
  ELSE [r EXCEPT !.local = TRUE, !.callback = callback]

(* Netplay_remoteReady                                                     *)
MetByRemote(r) == r.local

(* Faulty: the own readiness counts once more.                             *)
AfterRemoteKeepsLocal(r) ==
  IF MetByRemote(r) THEN [r EXCEPT !.callback = "none"]
  ELSE [r EXCEPT !.remote = TRUE]

AfterRemote(r) ==
  IF MetByRemote(r)
  THEN [r EXCEPT !.local = FALSE, !.callback = "none"]
  ELSE [r EXCEPT !.remote = TRUE]
=============================================================================
