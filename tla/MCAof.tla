------------------------------- MODULE MCAof --------------------------------
(* What an instance leaves out: a third command other than RPUSH and LPOP, *)
(* of a link, with a failure or after a second restart; and the link in    *)
(* the process after two restarts when there was a failure.  These are no  *)
(* steps that fairness asks for.                                           *)
EXTENDS Aof

NoLink == \A c \in Links : pc[c] = "closed"

FewCommands ==
  /\ Len(issued) > 2 =>
       /\ crashes <= 1 /\ faults = 0 /\ NoLink
       /\ \A i \in DOMAIN issued : issued[i].kind \in {"rpush", "lpop"}
  /\ crashes = 2 /\ faults > 0 => NoLink
=============================================================================
