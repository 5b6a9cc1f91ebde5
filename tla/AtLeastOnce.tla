----------------------------- MODULE AtLeastOnce -----------------------------
(***************************************************************************)
(* What a caller may rely on, without connections, buffers or events: the  *)
(* calls are made one after the other; each is sent at most twice, and     *)
(* executed no more often than it was sent, at any time after, even when   *)
(* its caller has given up; a call that is answered has been executed.     *)
(***************************************************************************)
EXTENDS Naturals, Sequences

CONSTANTS Wanted

VARIABLES stage, sent, runs

vars == <<stage, sent, runs>>

Mine == {Wanted[i] : i \in DOMAIN Wanted}

Init ==
  /\ stage = [x \in Mine |-> "new"]
  /\ sent = [x \in Mine |-> 0]
  /\ runs = [x \in Mine |-> 0]

Turn(i) ==
  /\ stage[Wanted[i]] = "new"
  /\ \A j \in 1..(i - 1) : stage[Wanted[j]] \in {"answered", "failed"}

Begin(i) ==
  /\ Turn(i)
  /\ stage' = [stage EXCEPT ![Wanted[i]] = "pending"]
  /\ sent' = [sent EXCEPT ![Wanted[i]] = 1]
  /\ UNCHANGED runs

Fail(i) ==
  /\ Turn(i) \/ stage[Wanted[i]] = "pending"
  /\ stage' = [stage EXCEPT ![Wanted[i]] = "failed"]
  /\ UNCHANGED <<sent, runs>>

SendAgain(x) ==
  /\ stage[x] = "pending"
  /\ sent[x] = 1
  /\ sent' = [sent EXCEPT ![x] = 2]
  /\ UNCHANGED <<stage, runs>>

Run(x) ==
  /\ runs[x] < sent[x]
  /\ runs' = [runs EXCEPT ![x] = @ + 1]
  /\ UNCHANGED <<stage, sent>>

Answer(x) ==
  /\ stage[x] = "pending"
  /\ runs[x] > 0
  /\ stage' = [stage EXCEPT ![x] = "answered"]
  /\ UNCHANGED <<sent, runs>>

Next ==
  \/ \E i \in DOMAIN Wanted : Begin(i) \/ Fail(i)
  \/ \E x \in Mine : SendAgain(x) \/ Run(x) \/ Answer(x)

Spec == Init /\ [][Next]_vars
=============================================================================
