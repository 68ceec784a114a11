----------------------------- MODULE MessageWire -----------------------------
(***************************************************************************)
(* What Socket::try_send promises the threads that call it, with no lock,  *)
(* no loop and no room in the kernel: a call puts the beginning of its     *)
(* message behind what is on the wire, all at once, and says whether that  *)
(* was the whole message.                                                  *)
(***************************************************************************)
EXTENDS Naturals, Sequences

CONSTANTS Messages, Length

VARIABLES
  wire,      (* the bytes of the calls that have ended                     *)
  answer     (* what each call has returned: "true" or "false"; "some"     *)
             (* while it runs, "none" before                               *)

vars == <<wire, answer>>

Init ==
  /\ wire = <<>>
  /\ answer = [m \in Messages |-> "none"]

Beginning(m, n) == [i \in 1 .. n |-> [of |-> m, n |-> i]]

(* A call on a socket without a descriptor leaves no trace.                *)
Refuse(m) ==
  /\ answer[m] = "none"
  /\ answer' = [answer EXCEPT ![m] = "false"]
  /\ UNCHANGED wire

Call(m) ==
  /\ answer[m] = "none"
  /\ answer' = [answer EXCEPT ![m] = "some"]
  /\ UNCHANGED wire

Return(m) ==
  /\ answer[m] = "some"
  /\ \E n \in 0 .. Length[m] :
       /\ wire' = wire \o Beginning(m, n)
       /\ answer' = [answer EXCEPT ![m] = IF n = Length[m] THEN "true"
                                                           ELSE "false"]

Next == \E m \in Messages : Refuse(m) \/ Call(m) \/ Return(m)

Spec == Init /\ [][Next]_vars

=============================================================================
