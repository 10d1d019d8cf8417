------------------------- MODULE DurablePublication -------------------------
(***************************************************************************)
(* What Homeostatic promises to the consumers of its events and to the     *)
(* people it notifies, in terms of the saved ledger only: how it is saved, *)
(* when, by whom and what fails in between is left to the implementation.  *)
(*                                                                         *)
(*   - A fact is published at most once, and only for a saved change.      *)
(*   - A request is published only out of the saved outbox, at least once  *)
(*     unless it is withdrawn before, and its delivery id never comes back *)
(*     for another request.                                                *)
(*   - A transport is called at most once per delivery id and channel, and *)
(*     only when the attempt is saved; a saved attempt is not forgotten    *)
(*     once it was used.                                                   *)
(***************************************************************************)
EXTENDS Naturals

CONSTANTS Changes,   \* changes of episodes and operator controls
          Attempts   \* pairs of a delivery id and a channel

VARIABLES
  ledger,     \* the saved ledger: a record with at least changes, sequence,
              \* outbox and attempted
  published,  \* how often each change was published as a fact
  asked,      \* requests published so far
  called,     \* how often the transport was called for each attempt
  withdrawn   \* requests withdrawn since the ledger was last saved or loaded

absVars == <<ledger, published, asked, called, withdrawn>>

InitAbs ==
  /\ ledger.changes = {} /\ ledger.sequence = 0
  /\ ledger.outbox = {} /\ ledger.attempted = {}
  /\ published = [c \in Changes |-> 0]
  /\ asked = {}
  /\ called = [a \in Attempts |-> 0]
  /\ withdrawn = {}

(* The saved ledger is replaced as a whole.  Changes stay.  A request that *)
(* enters the outbox is new or was asked before; one that leaves it was    *)
(* asked, or it was withdrawn.  Used attempts stay.                        *)
Save ==
  /\ ledger.changes \subseteq ledger'.changes
  /\ ledger.sequence <= ledger'.sequence
  /\ \A r \in ledger'.outbox :
       \/ r \in ledger.outbox \cup asked
       \/ ledger.sequence < r.id /\ r.id <= ledger'.sequence
  /\ \A r, q \in ledger'.outbox : r.id = q.id => r = q
  /\ \A r \in ledger.outbox \ ledger'.outbox :
       r \in asked \cup withdrawn
  /\ \A a \in Attempts : called[a] > 0 => a \in ledger'.attempted
  /\ withdrawn' = {}
  /\ UNCHANGED <<published, asked, called>>

(* Facts of saved changes that were not published yet, then perhaps the    *)
(* whole saved outbox.                                                     *)
Announce ==
  /\ published' \in [Changes -> Nat]
  /\ \A c \in Changes : published'[c] # published[c] =>
       c \in ledger.changes /\ published[c] = 0 /\ published'[c] = 1
  /\ asked' = asked \/ asked' = asked \cup ledger.outbox
  /\ UNCHANGED <<ledger, called, withdrawn>>

Call(a) ==
  /\ a \in ledger.attempted /\ called[a] = 0
  /\ \E r \in asked : r.id = a[1]
  /\ called' = [called EXCEPT ![a] = 1]
  /\ UNCHANGED <<ledger, published, asked, withdrawn>>

(* A later summary, a change or an activation takes requests back.         *)
Withdraw ==
  /\ withdrawn \subseteq withdrawn'
  /\ UNCHANGED <<ledger, published, asked, called>>

(* Only the saved ledger survives an exit, with every request it holds.    *)
Reload ==
  /\ withdrawn' = {}
  /\ UNCHANGED <<ledger, published, asked, called>>

NextAbs == Save \/ Announce \/ Withdraw \/ Reload \/ \E a \in Attempts : Call(a)

SpecAbs == InitAbs /\ [][NextAbs]_absVars
=============================================================================
