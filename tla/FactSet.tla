------------------------------- MODULE FactSet -------------------------------
(***************************************************************************)
(* What a data source promises its clients: a set of facts, each with the  *)
(* commit that asserted it last, changed by one transaction at a time.  A  *)
(* transaction works on a draft that takes the place of the facts when it  *)
(* returns.  The facts are stored three times over in FactStore, which     *)
(* implements this.                                                        *)
(***************************************************************************)
EXTENDS Integers

CONSTANTS
  Facts,           \* what clients may assert: triples
  CommitFact(_),   \* the fact that records a commit
  Atomic           \* a transaction that throws leaves nothing behind

VARIABLES
  facts,     \* the facts, as data: [fact |-> f, cause |-> c]
  draft,     \* what the transaction under way has made of them
  writing,   \* there is one
  commits    \* number of transactions begun

setVars == <<facts, draft, writing, commits>>

With(D, f, c) == {d \in D : d.fact # f} \cup {[fact |-> f, cause |-> c]}
Without(D, f) == {d \in D : d.fact # f}
SameSlot(f, g) == f[1] = g[1] /\ f[2] = g[2]    \* entity and attribute
Replaced(D, f, c) == With({d \in D : ~SameSlot(d.fact, f)}, f, c)

SetInit == facts = {} /\ draft = {} /\ writing = FALSE /\ commits = 0

BeginSet ==
  /\ ~writing
  /\ writing' = TRUE
  /\ commits' = commits + 1
  /\ draft' = With(facts, CommitFact(commits + 1), commits + 1)
  /\ UNCHANGED facts

EditSet ==
  /\ writing
  /\ \E f \in Facts :
       \/ draft' = With(draft, f, commits)
       \/ draft' = Without(draft, f)
       \/ draft' = Replaced(draft, f, commits)
  /\ UNCHANGED <<facts, writing, commits>>

CommitSet ==
  /\ writing
  /\ writing' = FALSE /\ facts' = draft
  /\ UNCHANGED <<draft, commits>>

AbortSet ==
  /\ writing
  /\ writing' = FALSE
  /\ facts' = IF Atomic THEN facts ELSE draft
  /\ draft' = facts'
  /\ UNCHANGED commits

SetSpec == SetInit /\ [][BeginSet \/ EditSet \/ CommitSet \/ AbortSet]_setVars
=============================================================================
