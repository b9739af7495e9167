----------------------------- MODULE MCReview -----------------------------
(***************************************************************************)
(* Instances of Review for TLC.  The sandbox and the runtime container     *)
(* share one image.  "read" is a file a policy of the alert sort caught;   *)
(* "dial" is a connection to a domain, caught by a kill policy.            *)
(***************************************************************************)
EXTENDS Review

Nothing == {}
Sandbox == {"sg"}
Web == {"web"}
Scan1 == {"scan"}
Dial == {"dial"}
ReadDial == {"read", "dial"}
Policies1 == {"net"}
Policies2 == {"file", "net"}
Evil == {"evil"}
ByRule == [d \in Details |-> IF d = "read" THEN "file" ELSE "net"]
ByHost == [d \in Details |-> IF d = "dial" THEN "evil" ELSE NoHost]
OwnPackage == [x \in Sandboxes \cup Selections |-> "pkg"]
OneImage == [c \in Sandboxes \cup Runtimes |-> "img"]
Strong == {Killed}
TwoLevels == {Alert, Killed}
CallersAB == {"a", "b"}
=============================================================================
