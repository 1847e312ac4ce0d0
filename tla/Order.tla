-------------------------------- MODULE Order --------------------------------
(***************************************************************************)
(* The curated order of a department's processes: what `order` and `merge` *)
(* make of the stored sequence and of the processes on disk.               *)
(*                                                                         *)
(* An id is its number.  A hint maps an id to the ids it is placed by: an  *)
(* heir to what it supersedes, a parent to its new sub-processes.          *)
(***************************************************************************)
EXTENDS Naturals, SequencesExt, Listing

InIdOrder(S) == InOrder(S)

NoHints == [p \in {} |-> {}]

Placed(p, work) == \E i \in DOMAIN work : work[i] = p

IndexOf(p, work) == CHOOSE i \in DOMAIN work : work[i] = p

\* Of a sequence what S holds, and every id where it stands first.
Held(seq, S) == AtPlaces(seq, {i \in DOMAIN seq : seq[i] \in S})

Dedup(seq) == AtPlaces(seq, {i \in DOMAIN seq : \A k \in 1..(i - 1) : seq[k] # seq[i]})

LowestIndex(work, S) == Min({i \in DOMAIN work : work[i] \in S})

\* Pass 1: an heir takes the lowest place held by anything it supersedes.
Inherits(actives, work, heir, old) ==
    IF heir \in actives /\ ~Placed(heir, work) /\ \E p \in old : Placed(p, work)
    THEN InsertAt(work, LowestIndex(work, old), heir)
    ELSE work

WithHeirs(actives, seq, hints) ==
    FoldLeft(LAMBDA work, heir : Inherits(actives, work, heir, hints[heir]),
             seq, InIdOrder(DOMAIN hints))

\* Pass 2: new sub-processes sit directly after their parent, in id order.
\* They go in from the last, each directly after the parent.
Follow(work, parent, children) ==
    FoldRight(LAMBDA child, w : InsertAt(w, IndexOf(parent, w) + 1, child),
              InIdOrder(children), work)

Adopts(actives, work, parent, new) ==
    IF Placed(parent, work)
    THEN Follow(work, parent, {c \in new : c \in actives /\ ~Placed(c, work)})
    ELSE work

WithChildren(actives, seq, hints) ==
    FoldLeft(LAMBDA work, parent : Adopts(actives, work, parent, hints[parent]),
             seq, InIdOrder(DOMAIN hints))

\* Pass 3, and what is tombstoned or gone leaves.
Completed(actives, seq) ==
    Held(seq \o InIdOrder({p \in actives : ~Placed(p, seq)}), actives)

\* Mutant: what is gone leaves before the heirs are placed.
ReconciledTooEarly(actives, raw, heirs, children) ==
    Completed(actives,
        WithChildren(actives,
            WithHeirs(actives, Held(Dedup(raw), actives), heirs), children))

Reconciled(actives, raw, heirs, children) ==
    Completed(actives, WithChildren(actives, WithHeirs(actives, Dedup(raw), heirs), children))

\* `order set` takes the active set, each once, and nothing else.
ExactlyThe(actives, seq) ==
    /\ Len(seq) = Cardinality(actives)
    /\ \A p \in actives : Placed(p, seq)

Moved(seq, p, to) == InsertAt(Held(seq, ToSet(seq) \ {p}), to, p)
=============================================================================
