-------------------------- MODULE RuntimeInvariant --------------------------
(***************************************************************************)
(* The inductive invariant of Runtime: why its safety properties hold.     *)
(* Each part is inductive together with the parts it names.                *)
(***************************************************************************)
EXTENDS Runtime

Saves == {"complete", "scopes", "clear"}

AllSent == \A f \in DOMAIN sender : sender[f].at = "done"

(* One holder of the lock at a time, and what each holder may be doing.    *)
LockInv ==
  /\ lock = "free" <=> pc = "idle"
  /\ purpose # "none" <=> pc \in {"write", "verify", "saved", "failed"}
  /\ pc \in {"drain", "evaluate"} => lock \in {"refresh", "control", "stop"}
  /\ pc = "evaluate" => lock = "refresh"
  /\ purpose \in Saves => lock \in {"refresh", "control"} /\ engine
  /\ purpose = "timer" <=> lock = "timer"
  /\ purpose = "attempt" <=> lock = "send"
  /\ purpose = "final" => lock = "stop" /\ pending = <<>>
  /\ lock = "stop" => life = "stopping"
  /\ life = "stopped" => lock \in {"free", "send"}
  /\ life = "loaded" => lock = "free" /\ task = "none" /\ facts = {} /\ AllSent
  /\ lock = "stop" \/ pc = "drain" => engine
  /\ control # 0 => purpose \in Saves

(* The digest names what is on disk, a save that ended well left the disk  *)
(* equal to memory, and what was told or confirmed was on disk by then.    *)
DurableInv ==
  /\ disk.changes \subseteq mem.changes
  /\ verified \subseteq {disk}
  /\ pc = "saved" => disk = mem
  /\ facts \subseteq mem.changes
  /\ ~engine => facts = {}
  /\ \A s \in mem.changes : s <= stamps
  /\ \A s \in Stamps : told[s] > 0 => s \in disk.changes /\ s \notin facts
  /\ \A s \in Stamps : told[s] <= 1
  /\ control # 0 => control \in mem.changes
  /\ confirmed \subseteq disk.changes

(* An attempt goes from memory to disk before its transport is called, and *)
(* no two sending tasks hold the same attempt.                             *)
Attempt(f) == <<f.id, sender[f].channel>>
Attempting(f) == sender[f].at \in {"save", "transport"}

SendInv ==
  /\ \A f \in DOMAIN sender : sender[f].at = "save" => purpose = "attempt"
  /\ \A f, g \in DOMAIN sender :
       sender[f].at = "save" /\ sender[g].at = "save" => f = g
  /\ \A f, g \in DOMAIN sender :
       Attempting(f) /\ Attempting(g) /\ Attempt(f) = Attempt(g) => f = g
  /\ \A f \in DOMAIN sender :
       Attempting(f) => Attempt(f) \in mem.attempted /\ sent[Attempt(f)] = 0
  /\ \A f \in DOMAIN sender :
       sender[f].at = "transport" => Attempt(f) \in disk.attempted
  /\ \A p \in Pairs :
       sent[p] > 0 => p \in mem.attempted /\ p \in disk.attempted
  /\ \A p \in Pairs : sent[p] <= 1

(* Every request that is still somewhere, and the numbers it may carry.    *)
AsRequest(f) == [id |-> f.id, body |-> f.body]
Asked == {AsRequest(f) : f \in DOMAIN sender}
Durable == disk.outbox \cup batch.requests \cup Asked

IdInv ==
  /\ disk.sequence <= mem.sequence
  /\ \A r \in Durable : r.id <= disk.sequence
  /\ \A r \in mem.outbox : r.id <= mem.sequence
  /\ \A r, q \in Durable \cup mem.outbox : r.id = q.id => r = q

(* A request in memory is on disk, was fired, or is younger than the disk; *)
(* one that left memory was fired, or withdrawn since the last write.      *)
OutboxInv ==
  /\ \A r \in mem.outbox : r \in disk.outbox \cup Asked \/ disk.sequence < r.id
  /\ \A r \in disk.outbox \ mem.outbox : r \in Asked \cup withdrawn
  /\ purpose = "scopes" => NewReports = {} /\ batch.requests \subseteq mem.outbox
  /\ purpose = "clear" => batch.requests \subseteq Asked

(* A change in memory is a fact to come, was told, or was given up, and    *)
(* nothing is fired while a fact is to come.                               *)
FactInv ==
  /\ \A s \in mem.changes : s \in facts \/ s \in dropped \/ told[s] > 0
  /\ \A r \in mem.outbox \cup disk.outbox : r.body <= stamps
  /\ \A f \in DOMAIN sender :
       /\ f.body <= stamps
       /\ f.body \in mem.changes => f.body \in dropped \/ told[f.body] > 0
  /\ purpose \in {"scopes", "clear"} => facts = {}

(* After a stop without error only sending tasks still touch the ledger.   *)
StopInv ==
  /\ FinalSaveComplete
  /\ life = "stopped" /\ engine /\ ~error => purpose \in {"none", "attempt"}

(* A captured observation has an owner whenever the last pass succeeded,   *)
(* and already when the pass under way has drained the queue.              *)
Owned == (requested /\ task # "none") \/ task = "waiting" \/ pc = "drain"

WakeInv ==
  /\ life = "loaded" => pending = <<>> /\ ~requested
  /\ early <= captured
  /\ pending # <<>> /\ captured > early => engine
  /\ running /\ requested => task # "none"
  /\ running /\ pending # <<>> /\ captured > early
       /\ (~error \/ purpose \in Saves \/ pc = "evaluate")
       => Owned

IInv == /\ LockInv /\ DurableInv /\ SendInv /\ IdInv /\ OutboxInv /\ FactInv
        /\ StopInv /\ WakeInv
=============================================================================
