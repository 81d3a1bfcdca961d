----------------------------- MODULE ClientLife -----------------------------
(***************************************************************************)
(* What a Client promises to whoever starts and stops it: Start returns    *)
(* only after Stop has been called, and Stop of a client that has started  *)
(* returns only after Start has.  Client implements this; MultiClient is   *)
(* built on it.                                                            *)
(***************************************************************************)
CONSTANT Clients

VARIABLES life,  \* Start: not called yet, running, returned
          halt   \* Stop: not called, stopCh closed, and how it goes on

LifeInit ==
  /\ life = [k \in Clients |-> "new"]
  /\ halt = [k \in Clients |-> "no"]

Lives(k, from, to) == life[k] = from /\ life' = [life EXCEPT ![k] = to]
Halts(k, from, to) == halt[k] = from /\ halt' = [halt EXCEPT ![k] = to]

Start(k) == Lives(k, "new", "running") /\ UNCHANGED halt

Finish(k) ==
  /\ halt[k] # "no"
  /\ Lives(k, "running", "done")
  /\ UNCHANGED halt

(* stopCh is closed; a second call would find that and return.             *)
Ask(k) == Halts(k, "no", "asked") /\ UNCHANGED life

(* Stop reads started under the lock: one that has not started is not      *)
(* waited for.  When Start is called later it finds stopCh closed.         *)
Look(k) ==
  /\ Halts(k, "asked", IF life[k] = "new" THEN "free" ELSE "waiting")
  /\ UNCHANGED life

Return(k) ==
  /\ \/ Halts(k, "free", "returned")
     \/ life[k] = "done" /\ Halts(k, "waiting", "returned")
  /\ UNCHANGED life

StopStep(k) == Look(k) \/ Return(k)

LifeNext == \E k \in Clients : Start(k) \/ Finish(k) \/ Ask(k) \/ StopStep(k)

LifeSpec == LifeInit /\ [][LifeNext]_<<life, halt>>
=============================================================================
