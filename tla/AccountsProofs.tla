--------------------------- MODULE AccountsProofs ---------------------------
(***************************************************************************)
(* Who gets in: theorems about accounts, about the sessions on top of them *)
(* and about the throttle in front of both.                                *)
(*                                                                         *)
(* Accounts come first, for every set of people, role table and scope.     *)
(* The inductive invariant is the conjunction of the parts below; the one  *)
(* that carries the others is that nobody acts on an account that reaches  *)
(* further than their own, so the actor outlives whatever they take away.  *)
(***************************************************************************)
EXTENDS Sessions, Throttle, FiniteSetTheorems, TLAPS

IInv ==
    /\ TypeOK
    /\ AskersExist
    /\ StarEditorSurvives
    /\ SupervisorsExist
    /\ SupervisorUnlessStar
    /\ SupervisorsAcyclic
    /\ NumbersUnique

-----------------------------------------------------------------------------
(* Scopes.                                                                 *)

\* Only Everything reaches Everything.
LEMMA OnlyStarReachesStar ==
    ASSUME NEW s \in Scope, Contains(s, Everything)
    PROVE  s = Everything
BY ScopeAssumption DEF Contains, Everything, Scope

\* A list that covers a list with Everything in it has Everything in it.
LEMMA CoverOfStar ==
    ASSUME NEW held \in SUBSET Scope, NEW want,
           Everything \in want, CoveredBy(want, held)
    PROVE  Everything \in held
BY OnlyStarReachesStar DEF CoveredBy

\* A scope reached through a covered scope is reached through the cover.
LEMMA ContainsTransitive ==
    ASSUME NEW a \in Scope, NEW b \in Scope, NEW c \in Scope,
           Contains(a, b), Contains(b, c)
    PROVE  Contains(a, c)
BY ScopeAssumption DEF Contains, Scope, Everything

-----------------------------------------------------------------------------
(* What a step does to the accounts.                                       *)

\* One row is written: the row t becomes a.
Writes(t, a) == account' = [account EXCEPT ![t] = a]

\* An INSERT of columns of the right types makes an account.
LEMMA RowType ==
    ASSUME NEW n \in Number, NEW ro \in Role, NEW sc \in ScopeLists,
           NEW sp \in User \cup {NoUser}, NEW cs \in BOOLEAN, NEW off \in BOOLEAN
    PROVE  Row(n, ro, sc, sp, cs, off) \in Account
BY DEF Row, Account

\* Whoever has a row has an account.
LEMMA AccountOfUser ==
    ASSUME TypeOK, NEW u \in Users
    PROVE  /\ u \in User
           /\ account[u] \in Account
           /\ account[u].username \in Number
           /\ account[u].role \in Role
           /\ account[u].scopes \in ScopeLists
           /\ account[u].scopes \in SUBSET Scope
           /\ account[u].supervisor \in User \cup {NoUser}
           /\ account[u].canSupervise \in BOOLEAN
           /\ account[u].disabled \in BOOLEAN
BY AccountsAssumption DEF TypeOK, Users, Account

\* Writing a row of the right type leaves every other row alone, and the
\* written one exists afterwards.
LEMMA WriteEffect ==
    ASSUME TypeOK, NEW t \in User, NEW a \in Account, Writes(t, a)
    PROVE  /\ account' \in [User -> Account \cup {NoAccount}]
           /\ account'[t] = a
           /\ \A u \in User \ {t} : account'[u] = account[u]
           /\ Users' = Users \cup {t}
BY NoAccountAssumption DEF Writes, TypeOK, Users

\* Every row is an account and every request was made by somebody, whatever
\* the order of the writes.
THEOREM TypeCorrect == Spec => []TypeOK
<1>1. Init => TypeOK
  BY DEF Init, TypeOK
<1>2. TypeOK /\ [Next]_accountVars => TypeOK'
  <2> SUFFICES ASSUME TypeOK, [Next]_accountVars
               PROVE  TypeOK'
    OBVIOUS
  <2>1. ASSUME NEW u \in User, NEW n \in Number, Seed(u, n)
        PROVE  TypeOK'
    <3>1. Row(n, EditorRole, {Everything}, NoUser, FALSE, FALSE) \in Account
      BY AccountsAssumption, RowType
    <3>2. QED
      BY <2>1, <3>1, WriteEffect DEF Seed, TypeOK, Writes
  <2>2. ASSUME NEW r \in Request, NEW u \in User, Gate(r, u)
        PROVE  TypeOK'
    BY <2>2 DEF Gate, TypeOK
  <2>3. ASSUME NEW r \in Request, Refused(r)
        PROVE  TypeOK'
    BY <2>3 DEF Refused, Answered, TypeOK
  <2>4. ASSUME NEW r \in Request, NEW u \in User, Create(r, u)
        PROVE  TypeOK'
    <3>1. PICK n \in Number, ro \in Role, sc \in ScopeLists,
               sp \in User \cup {NoUser}, cs \in BOOLEAN :
             Writes(u, Row(n, ro, sc, sp, cs, FALSE))
      BY <2>4 DEF Create, Writes
    <3>2. Row(n, ro, sc, sp, cs, FALSE) \in Account
      BY RowType
    <3>3. account' \in [User -> Account \cup {NoAccount}]
      BY <3>1, <3>2, WriteEffect
    <3>4. QED
      BY <2>4, <3>3 DEF Create, Answered, TypeOK
  <2>5. ASSUME NEW r \in Request, NEW t \in User, Modify(r, t)
        PROVE  TypeOK'
    <3>1. PICK n \in Number, ro \in Role, sc \in ScopeLists,
               sp \in User \cup {NoUser}, cs \in BOOLEAN :
             Writes(t, Row(n, ro, sc, sp, cs, account[t].disabled))
      BY <2>5 DEF Modify, Writes
    <3>2. account[t].disabled \in BOOLEAN
      BY <2>5, AccountOfUser DEF Modify
    <3>3. Row(n, ro, sc, sp, cs, account[t].disabled) \in Account
      BY <3>2 DEF Row, Account
    <3>4. account' \in [User -> Account \cup {NoAccount}]
      BY <3>1, <3>3, WriteEffect
    <3>5. QED
      BY <2>5, <3>4 DEF Modify, Answered, TypeOK
  <2>6. ASSUME NEW r \in Request, NEW t \in User, SetPassword(r, t)
        PROVE  TypeOK'
    BY <2>6 DEF SetPassword, Answered, TypeOK
  <2>7. ASSUME NEW r \in Request, NEW t \in User, NEW flag \in BOOLEAN,
               SetDisabled(r, t, flag)
        PROVE  TypeOK'
    <3>1. account' = [account EXCEPT ![t] = [account[t] EXCEPT !.disabled = flag]]
      BY <2>7 DEF SetDisabled
    <3>2. [account[t] EXCEPT !.disabled = flag] \in Account
      BY <2>7, AccountOfUser DEF SetDisabled, Account
    <3>3. QED
      BY <2>7, <3>1, <3>2, WriteEffect DEF SetDisabled, Answered, TypeOK, Writes
  <2>8. CASE UNCHANGED accountVars
    BY <2>8 DEF accountVars, TypeOK
  <2>9. QED
    BY <2>1, <2>2, <2>3, <2>4, <2>5, <2>6, <2>7, <2>8 DEF Next, UnderWay
<1>3. QED
  BY <1>1, <1>2, PTL DEF Spec

-----------------------------------------------------------------------------
(* Each writing operation, as the row it writes and what was asked first.  *)

CreateConds(r, u, a) ==
    /\ asking[r] \in Users /\ u \notin Users /\ a \in Account /\ Writes(u, a)
    /\ MayDelegate(asking[r], a.role, a.scopes)
    /\ SupervisorAllowed(NoUser, a.supervisor, a.scopes)
    /\ TakenBy(a.username) = {}
    /\ a.disabled = FALSE

ModifyConds(r, t, a) ==
    /\ asking[r] \in Users /\ t \in Users /\ a \in Account /\ Writes(t, a)
    /\ asking[r] # t
    /\ MayDelegate(asking[r], a.role, a.scopes)
    /\ MayDelegate(asking[r], account[t].role, account[t].scopes)
    /\ \/ a.supervisor = Supervisor(t) /\ a.scopes = account[t].scopes
       \/ SupervisorAllowed(t, a.supervisor, a.scopes)
    /\ a.username = account[t].username \/ TakenBy(a.username) \subseteq {t}

SeedConds(u, a) ==
    /\ u \notin Users /\ a \in Account /\ Writes(u, a)
    /\ a.role = EditorRole /\ a.scopes = {Everything} /\ a.supervisor = NoUser
    /\ a.disabled = FALSE
    /\ TakenBy(a.username) = {}

\* What create_user writes and under which conditions.
LEMMA CreateWrites ==
    ASSUME TypeOK, AskersExist, NEW r \in Request, NEW u \in User, Create(r, u)
    PROVE  \E a \in Account : CreateConds(r, u, a)
<1>1. PICK ro \in Role, sc \in ScopeLists, sp \in User \cup {NoUser},
           n \in Number, cs \in BOOLEAN :
        /\ MayDelegate(asking[r], ro, sc)
        /\ SupervisorAllowed(NoUser, sp, sc)
        /\ TakenBy(n) = {}
        /\ account' = [account EXCEPT ![u] = Row(n, ro, sc, sp, cs, FALSE)]
  BY DEF Create
<1> DEFINE a == Row(n, ro, sc, sp, cs, FALSE)
<1>2. a \in Account
  BY RowType
<1>3. asking[r] \in Users /\ u \notin Users
  BY DEF Create, Answered, AskersExist, Users
<1>4. /\ a.role = ro /\ a.scopes = sc /\ a.supervisor = sp /\ a.username = n
      /\ a.disabled = FALSE
  BY DEF Row
<1>5. Writes(u, a)
  BY <1>1 DEF Writes
<1> HIDE DEF a
<1>6. CreateConds(r, u, a)
  BY <1>1, <1>2, <1>3, <1>4, <1>5 DEF CreateConds
<1>7. QED
  BY <1>2, <1>6

\* What modify_user writes and under which conditions.
LEMMA ModifyWrites ==
    ASSUME TypeOK, AskersExist, NEW r \in Request, NEW t \in User, Modify(r, t)
    PROVE  \E a \in Account : ModifyConds(r, t, a)
<1>1. PICK ro \in Role, sc \in ScopeLists, sp \in User \cup {NoUser},
           n \in Number, cs \in BOOLEAN :
        /\ MayModify(asking[r], t, ro, sc)
        /\ sp # Supervisor(t) \/ sc # account[t].scopes => SupervisorAllowed(t, sp, sc)
        /\ TakenBy(n) \subseteq {t}
        /\ account' = [account EXCEPT ![t] =
              Row(n, ro, sc, sp, cs, account[t].disabled)]
  BY DEF Modify
<1> DEFINE a == Row(n, ro, sc, sp, cs, account[t].disabled)
<1>2. t \in Users /\ asking[r] \in Users
  BY DEF Modify, Answered, AskersExist
<1>3. a \in Account
  BY <1>2, AccountOfUser DEF Row, Account
<1>4. a.role = ro /\ a.scopes = sc /\ a.supervisor = sp /\ a.username = n
  BY DEF Row
<1>5. Writes(t, a)
  BY <1>1 DEF Writes
<1> HIDE DEF a
<1>6. ModifyConds(r, t, a)
  BY <1>1, <1>2, <1>3, <1>4, <1>5 DEF ModifyConds, MayModify
<1>7. QED
  BY <1>3, <1>6

\* Disabling and re-enabling write the row with one column changed.
LEMMA DisableWrites ==
    ASSUME TypeOK, AskersExist, NEW r \in Request, NEW t \in User,
           NEW flag \in BOOLEAN, SetDisabled(r, t, flag)
    PROVE  \E a \in Account : ModifyConds(r, t, a)
<1> DEFINE a == [account[t] EXCEPT !.disabled = flag]
<1>1. t \in Users /\ asking[r] \in Users
  BY DEF SetDisabled, Answered, AskersExist
<1>2. a \in Account
  BY <1>1, AccountOfUser DEF Account
<1>3. /\ a.role = account[t].role /\ a.scopes = account[t].scopes
      /\ a.supervisor = Supervisor(t) /\ a.username = account[t].username
  BY <1>1, AccountOfUser DEF Account, Supervisor
<1>4. Writes(t, a)
  BY DEF SetDisabled, Writes
<1>5. MayDisable(asking[r], t)
  BY DEF SetDisabled
<1> HIDE DEF a
<1>6. QED
  BY <1>1, <1>2, <1>3, <1>4, <1>5 DEF ModifyConds, MayDisable

\* What the seed writes and under which conditions.
LEMMA SeedWrites ==
    ASSUME TypeOK, NEW u \in User, NEW n \in Number, Seed(u, n)
    PROVE  \E a \in Account : SeedConds(u, a)
<1> DEFINE a == Row(n, EditorRole, {Everything}, NoUser, FALSE, FALSE)
<1>1. a \in Account
  BY AccountsAssumption, RowType
<1>2. /\ a.role = EditorRole /\ a.scopes = {Everything} /\ a.supervisor = NoUser
      /\ a.username = n /\ a.disabled = FALSE
  BY DEF Row
<1>3. Writes(u, a) /\ u \notin Users
  BY DEF Seed, Writes, Users
<1>4. TakenBy(n) = {}
  BY DEF Seed
<1> HIDE DEF a
<1>5. QED
  BY <1>1, <1>2, <1>3, <1>4 DEF SeedConds

-----------------------------------------------------------------------------
(* The part of the invariant each kind of write could disturb.             *)

\* Whoever may act on a star Editor is one.
LEMMA ActorIsStarEditor ==
    ASSUME TypeOK, NEW actor \in Users, NEW t \in Users, StarEditor(t),
           MayDelegate(actor, account[t].role, account[t].scopes)
    PROVE  StarEditor(actor)
<1>1. ~account[actor].disabled /\ CapabilitiesOf(actor) = RoleCaps[account[actor].role]
  BY DEF MayDelegate, CapabilitiesOf
<1>2. ConfersEdit(account[actor].role)
  BY <1>1 DEF MayDelegate, ConfersEdit, StarEditor
<1>3. Everything \in account[actor].scopes
  BY CoverOfStar, AccountOfUser DEF MayDelegate, StarEditor
<1>4. QED
  BY <1>1, <1>2, <1>3 DEF StarEditor, Active

\* A star Editor whose row is not the one written stays one.
LEMMA StarEditorStays ==
    ASSUME TypeOK, NEW t \in User, NEW a \in Account, Writes(t, a),
           NEW w \in Users \ {t}, StarEditor(w)
    PROVE  StarEditorSurvives'
<1>1. w \in Users' /\ account'[w] = account[w]
  BY WriteEffect, AccountOfUser
<1>2. StarEditor(w)'
  BY <1>1 DEF StarEditor, Active, ConfersEdit
<1>3. w \in User
  BY AccountOfUser
<1>4. QED
  BY <1>1, <1>2, <1>3 DEF StarEditorSurvives

\* An allowed change leaves a star Editor: the one who made it, whenever the
\* one who was changed was the last other.
LEMMA StarEditorAfterModify ==
    ASSUME IInv, NEW r \in Request, NEW t \in User, NEW a \in Account,
           ModifyConds(r, t, a)
    PROVE  StarEditorSurvives'
<1>1. PICK w \in Users : StarEditor(w)
  BY DEF IInv, StarEditorSurvives, ModifyConds
<1>3. CASE w # t
  BY <1>1, <1>3, StarEditorStays DEF IInv, ModifyConds
<1>4. CASE w = t
  <2>1. StarEditor(asking[r])
    BY <1>1, <1>4, ActorIsStarEditor DEF IInv, ModifyConds
  <2>2. QED
    BY <2>1, StarEditorStays DEF IInv, ModifyConds
<1>5. QED
  BY <1>3, <1>4

\* Giving t a supervisor from whom the chain does not lead back to t closes
\* no loop: a group with no way out after the write, cut down to the people
\* above the new supervisor, would have had no way out before it.
LEMMA AcyclicAfterModify ==
    ASSUME IInv, NEW r \in Request, NEW t \in User, NEW a \in Account,
           ModifyConds(r, t, a)
    PROVE  SupervisorsAcyclic'
<1>a. Users \subseteq User /\ t \in Users /\ Writes(t, a) /\ TypeOK
  BY DEF Users, ModifyConds, IInv
<1>1. Users' = Users /\ Supervisor(t)' = a.supervisor
      /\ \A u \in Users \ {t} : Supervisor(u)' = Supervisor(u)
  BY <1>a, WriteEffect DEF Supervisor
<1>2. NoUser \notin Users
  BY AccountsAssumption DEF Users
<1>3. SUFFICES ASSUME NEW S \in SUBSET Users, S # {},
                      \A u \in S : Supervisor(u)' \in S
               PROVE  FALSE
  BY <1>1 DEF SupervisorsAcyclic
<1>4. PICK u \in S : Supervisor(u) \notin S
  BY <1>3 DEF IInv, SupervisorsAcyclic
<1>5. u = t /\ a.supervisor # Supervisor(t)
  BY <1>1, <1>3, <1>4
<1>6. a.supervisor \in S
  BY <1>1, <1>3, <1>5
<1>7. ~ChainReaches(a.supervisor, t)
  BY <1>2, <1>5, <1>6 DEF ModifyConds, SupervisorAllowed
<1>8. PICK above \in SUBSET Users :
        /\ a.supervisor \in above /\ t \notin above
        /\ \A v \in above : Supervisor(v) \in above \cup {NoUser}
  BY <1>7 DEF ChainReaches
<1>9. \A v \in S \cap above : Supervisor(v) \in S \cap above
  BY <1>1, <1>2, <1>3, <1>8
<1>10. S \cap above # {} /\ S \cap above \in SUBSET Users
  BY <1>6, <1>8
<1>11. QED
  BY <1>9, <1>10 DEF IInv, SupervisorsAcyclic

\* Nobody points at a row that was not there, so a new row closes no loop.
LEMMA AcyclicAfterInsert ==
    ASSUME IInv, NEW t \in User, t \notin Users, NEW a \in Account, Writes(t, a),
           a.supervisor \in Users \cup {NoUser}
    PROVE  SupervisorsAcyclic'
<1>1. Users' = Users \cup {t} /\ Supervisor(t)' = a.supervisor
      /\ \A u \in Users : Supervisor(u)' = Supervisor(u)
  BY WriteEffect, AccountOfUser DEF IInv, Supervisor
<1>2. NoUser \notin Users /\ t # NoUser
  BY AccountsAssumption DEF Users
<1>3. SUFFICES ASSUME NEW S \in SUBSET (Users \cup {t}), S # {},
                      \A u \in S : Supervisor(u)' \in S
               PROVE  FALSE
  BY <1>1 DEF SupervisorsAcyclic
<1>4. \A u \in S \ {t} : Supervisor(u) \in S \ {t}
  BY <1>1, <1>2, <1>3 DEF IInv, SupervisorsExist
<1>5. S \ {t} = {}
  BY <1>4 DEF IInv, SupervisorsAcyclic
<1>6. QED
  BY <1>1, <1>2, <1>3, <1>5

\* Writing a number nobody else has keeps the numbers apart.
LEMMA NumbersAfterWrite ==
    ASSUME IInv, NEW t \in User, NEW a \in Account, Writes(t, a),
           \/ TakenBy(a.username) \subseteq {t}
           \/ t \in Users /\ a.username = account[t].username
    PROVE  NumbersUnique'
<1>1. /\ Users' = Users \cup {t} /\ account'[t] = a
      /\ \A u \in Users \ {t} : account'[u] = account[u]
  BY WriteEffect, AccountOfUser DEF IInv
<1>2. \A u \in Users \ {t} : account[u].username # a.username
  BY DEF IInv, NumbersUnique, TakenBy
<1>3. QED
  BY <1>1, <1>2 DEF IInv, NumbersUnique

-----------------------------------------------------------------------------
(* Every operation preserves the invariant.                                *)

\* Inserting a row keeps the invariant.
LEMMA InsertPreserves ==
    ASSUME IInv, NEW u \in User, u \notin Users, NEW a \in Account, Writes(u, a),
           TypeOK', AskersExist',
           SupervisorAllowed(NoUser, a.supervisor, a.scopes),
           TakenBy(a.username) = {},
           Users = {} => /\ ~a.disabled /\ ConfersEdit(a.role)
                         /\ Everything \in a.scopes
    PROVE  IInv'
<1>1. /\ Users' = Users \cup {u} /\ account'[u] = a
      /\ \A v \in Users : account'[v] = account[v]
  BY WriteEffect, AccountOfUser DEF IInv
<1>2. a.supervisor \in Users \cup {NoUser}
  BY DEF SupervisorAllowed, EligibleSupervisors
<1>3. a.supervisor = NoUser => Everything \in a.scopes
  BY DEF SupervisorAllowed
<1>4. StarEditorSurvives'
  <2>1. CASE Users = {}
    BY <1>1, <2>1 DEF StarEditorSurvives, StarEditor, Active, ConfersEdit
  <2>2. CASE Users # {}
    <3>1. PICK w \in Users : StarEditor(w)
      BY <2>2 DEF IInv, StarEditorSurvives
    <3>2. QED
      BY <3>1, StarEditorStays DEF IInv
  <2>3. QED
    BY <2>1, <2>2
<1>5. SupervisorsExist'
  BY <1>1, <1>2 DEF IInv, SupervisorsExist, Supervisor
<1>6. SupervisorUnlessStar'
  BY <1>1, <1>3 DEF IInv, SupervisorUnlessStar, Supervisor
<1>7. SupervisorsAcyclic'
  BY <1>2, AcyclicAfterInsert
<1>8. NumbersUnique'
  BY NumbersAfterWrite
<1>9. QED
  BY <1>4, <1>5, <1>6, <1>7, <1>8 DEF IInv

\* Changing a row the way modify_user and set_user_disabled may keeps it.
LEMMA ModifyPreserves ==
    ASSUME IInv, NEW r \in Request, NEW t \in User, NEW a \in Account,
           ModifyConds(r, t, a), TypeOK', AskersExist'
    PROVE  IInv'
<1>a. Users \subseteq User /\ t \in Users /\ Writes(t, a) /\ TypeOK
  BY DEF Users, ModifyConds, IInv
<1>1. /\ Users' = Users /\ account'[t] = a
      /\ \A v \in Users \ {t} : account'[v] = account[v]
  BY <1>a, WriteEffect
<1>2. a.supervisor \in Users \cup {NoUser}
  BY DEF IInv, SupervisorsExist, ModifyConds, SupervisorAllowed, EligibleSupervisors
<1>3. a.supervisor = NoUser => Everything \in a.scopes
  BY DEF IInv, SupervisorUnlessStar, ModifyConds, SupervisorAllowed
<1>4. SupervisorsExist'
  BY <1>1, <1>2 DEF IInv, SupervisorsExist, Supervisor
<1>5. SupervisorUnlessStar'
  BY <1>1, <1>3 DEF IInv, SupervisorUnlessStar, Supervisor
<1>6. NumbersUnique'
  BY NumbersAfterWrite DEF ModifyConds
<1>7. QED
  BY <1>4, <1>5, <1>6, StarEditorAfterModify, AcyclicAfterModify DEF IInv

\* Every step of the accounts keeps it.
LEMMA IInvStep ==
    ASSUME IInv, [Next]_accountVars, TypeOK'
    PROVE  IInv'
<1>1. ASSUME NEW u \in User, NEW n \in Number, Seed(u, n)
      PROVE  IInv'
  <2>1. PICK a \in Account : SeedConds(u, a)
    BY <1>1, SeedWrites DEF IInv
  <2>2. Users' = Users \cup {u}
    BY <2>1, WriteEffect DEF IInv, SeedConds
  <2>3. AskersExist'
    BY <1>1, <2>2 DEF Seed, AskersExist, IInv
  <2>4. QED
    BY <2>1, <2>3, InsertPreserves, AccountsAssumption
    DEF SeedConds, SupervisorAllowed, ConfersEdit
<1>2. ASSUME NEW r \in Request, NEW u \in User, Gate(r, u)
      PROVE  IInv'
  BY <1>2 DEF Gate, MayAsk, Active, IInv, AskersExist, Users, StarEditorSurvives,
     StarEditor, SupervisorsExist, SupervisorUnlessStar, SupervisorsAcyclic,
     NumbersUnique, Supervisor, TypeOK
<1>3. ASSUME NEW r \in Request, UNCHANGED account, Answered(r)
      PROVE  IInv'
  BY <1>3 DEF Answered, Active, IInv, AskersExist, Users, StarEditorSurvives,
     StarEditor, SupervisorsExist, SupervisorUnlessStar, SupervisorsAcyclic,
     NumbersUnique, Supervisor, TypeOK
<1>4. ASSUME NEW r \in Request, NEW u \in User, Create(r, u)
      PROVE  IInv'
  <2>1. PICK a \in Account : CreateConds(r, u, a)
    BY <1>4, CreateWrites DEF IInv
  <2>2. Users' = Users \cup {u}
    BY <2>1, WriteEffect DEF IInv, CreateConds
  <2>3. AskersExist'
    BY <1>4, <2>2 DEF Create, Answered, AskersExist, IInv, TypeOK
  <2>4. QED
    BY <2>1, <2>3, InsertPreserves DEF CreateConds
<1>5. ASSUME NEW r \in Request, NEW t \in User, NEW a \in Account,
             ModifyConds(r, t, a), Answered(r)
      PROVE  IInv'
  <2>1. Users' = Users \cup {t}
    BY <1>5, WriteEffect DEF IInv, ModifyConds
  <2>2. AskersExist'
    BY <1>5, <2>1 DEF Answered, AskersExist, IInv, TypeOK
  <2>3. QED
    BY <1>5, <2>2, ModifyPreserves
<1>6. CASE UNCHANGED accountVars
  BY <1>6 DEF accountVars, Active, IInv, AskersExist, Users, StarEditorSurvives,
     StarEditor, SupervisorsExist, SupervisorUnlessStar, SupervisorsAcyclic,
     NumbersUnique, Supervisor, TypeOK
<1>7. ASSUME NEW r \in Request, NEW t \in User, Modify(r, t)
      PROVE  IInv'
  BY <1>5, <1>7, ModifyWrites DEF Modify, IInv
<1>8. ASSUME NEW r \in Request, NEW t \in User, NEW flag \in BOOLEAN,
             SetDisabled(r, t, flag)
      PROVE  IInv'
  BY <1>5, <1>8, DisableWrites DEF SetDisabled, IInv
<1>9. QED
  BY <1>1, <1>2, <1>3, <1>4, <1>6, <1>7, <1>8
  DEF Next, UnderWay, Refused, SetPassword

\* The inductive invariant holds in every state of every behaviour.
THEOREM Invariant == Spec => []IInv
<1>1. Init => IInv
  BY DEF Init, IInv, TypeOK, AskersExist, StarEditorSurvives, SupervisorsExist,
     SupervisorUnlessStar, SupervisorsAcyclic, NumbersUnique, Users
<1>2. IInv /\ [Next]_accountVars /\ TypeOK' => IInv'
  BY IInvStep
<1>3. QED
  BY <1>1, <1>2, TypeCorrect, PTL DEF Spec

-----------------------------------------------------------------------------
(* The properties, one theorem each.                                       *)

\* After the seed there is always an active Editor who sees everything, so
\* somebody can always undo what somebody else did.
THEOREM StarEditorAlways == Spec => []StarEditorSurvives
BY Invariant, PTL DEF IInv

\* No sequence of edits, however interleaved, closes a loop of supervisors.
THEOREM NoSupervisorLoop == Spec => []SupervisorsAcyclic
BY Invariant, PTL DEF IInv

\* Only somebody who sees everything is ever without a supervisor.
THEOREM NoOrphan == Spec => []SupervisorUnlessStar
BY Invariant, PTL DEF IInv

\* No two accounts ever share a number.
THEOREM OneAccountPerNumber == Spec => []NumbersUnique
BY Invariant, PTL DEF IInv

\* The climb a comment makes from its author always ends at somebody who sees
\* everything: the group has a way out, and the only way out is the top.
THEOREM ClimbEndsAtTop == Spec => []ChainsEndAtStar
<1>1. IInv => ChainsEndAtStar
  <2>1. SUFFICES ASSUME IInv, NEW S \in SUBSET Users, S # {},
                        \A u \in S : Supervisor(u) \in S \cup {NoUser}
                 PROVE  \E u \in S : /\ Supervisor(u) = NoUser
                                     /\ Everything \in account[u].scopes
    BY DEF ChainsEndAtStar
  <2>2. PICK u \in S : Supervisor(u) \notin S
    BY <2>1 DEF IInv, SupervisorsAcyclic
  <2>3. QED
    BY <2>1, <2>2 DEF IInv, SupervisorUnlessStar
<1>2. QED
  BY <1>1, Invariant, PTL

\* The recovery path finds nothing to do once it has run: an active star
\* Editor holds the seeded role, which is what the seed looks for.
LEMMA SeedNeedsAnEmptyTable ==
    ASSUME IInv, NEW u \in User, NEW n \in Number, Seed(u, n)
    PROVE  Users = {}
<1>1. SUFFICES ASSUME Users # {} PROVE FALSE
  OBVIOUS
<1>2. PICK w \in Users : StarEditor(w)
  BY <1>1 DEF IInv, StarEditorSurvives
<1>3. account[w].role = EditorRole
  BY <1>2, OneEditorRole, AccountOfUser DEF StarEditor, ConfersEdit, IInv
<1>4. QED
  BY <1>2, <1>3 DEF Seed, StarEditor

\* The seed mints an account only where there is none.
THEOREM SeedOnlyOnce == Spec => SeedsOnlyTheEmpty
<1>1. IInv /\ [Next]_accountVars
        => [(\E u \in User, n \in Number : Seed(u, n)) => Users = {}]_accountVars
  BY SeedNeedsAnEmptyTable
<1>2. QED
  BY <1>1, Invariant, PTL DEF Spec, SeedsOnlyTheEmpty

\* What a role and scopes that somebody may confer amount to is within what
\* they hold: what the scopes reach, the scopes that cover them reach.
LEMMA DelegableWithinActor ==
    ASSUME TypeOK, NEW actor \in Users, NEW ro \in Role, NEW sc \in ScopeLists,
           MayDelegate(actor, ro, sc),
           NEW c \in RoleCaps[ro], NEW s \in Scope,
           NEW held \in sc, Contains(held, s)
    PROVE  <<c, s>> \in Authority(actor)
<1>1. c \in CapabilitiesOf(actor)
  BY DEF MayDelegate
<1>2. PICK h \in account[actor].scopes : Contains(h, held)
  BY DEF MayDelegate, CoveredBy
<1>3. held \in Scope /\ h \in Scope
  BY <1>2, AccountOfUser, AccountsAssumption
<1>4. Contains(h, s)
  BY <1>2, <1>3, ContainsTransitive
<1>5. QED
  BY <1>1, <1>2, <1>4 DEF Authority

\* Everything a row amounts to is within the actor's reach when its role and
\* scopes are.
LEMMA AuthorityWithinActor ==
    ASSUME TypeOK, NEW actor \in Users, NEW u \in Users,
           MayDelegate(actor, account[u].role, account[u].scopes)
    PROVE  Authority(u) \subseteq Authority(actor)
<1>1. SUFFICES ASSUME NEW c \in CapabilitiesOf(u), NEW s \in Scope,
                      NEW held \in account[u].scopes, Contains(held, s)
               PROVE  <<c, s>> \in Authority(actor)
  BY DEF Authority
<1>2. c \in RoleCaps[account[u].role]
  BY <1>1 DEF CapabilitiesOf
<1>3. QED
  BY <1>1, <1>2, DelegableWithinActor, AccountOfUser

\* The same for the row a request writes.
LEMMA WrittenWithinActor ==
    ASSUME TypeOK, NEW actor \in Users, NEW u \in User, NEW a \in Account,
           Writes(u, a), MayDelegate(actor, a.role, a.scopes)
    PROVE  Authority(u)' \subseteq Authority(actor)
<1>1. account'[u] = a
  BY WriteEffect
<1>2. SUFFICES ASSUME NEW c \in CapabilitiesOf(u)', NEW s \in Scope,
                      NEW held \in a.scopes, Contains(held, s)
               PROVE  <<c, s>> \in Authority(actor)
  BY <1>1 DEF Authority
<1>3. c \in RoleCaps[a.role]
  BY <1>1, <1>2 DEF CapabilitiesOf
<1>4. a.role \in Role /\ a.scopes \in ScopeLists
  BY DEF Account
<1>5. QED
  BY <1>2, <1>3, <1>4, DelegableWithinActor

\* Nobody acts beyond their own reach, however their own row changed between
\* the gate and the write.
THEOREM NobodyReachesUp == Spec => ActsWithinReach
<1> DEFINE Within(r, u) ==
      account'[u] # account[u] /\ asking'[r] = NoUser
        => /\ asking[r] # u
           /\ Authority(u) \cup (Authority(u)') \subseteq Authority(asking[r])
<1>1. ASSUME IInv, Next, NEW r \in UnderWay, NEW u \in User,
             account'[u] # account[u], asking'[r] = NoUser
      PROVE  /\ asking[r] # u
             /\ Authority(u) \cup (Authority(u)') \subseteq Authority(asking[r])
  <2>1. PICK q \in UnderWay, t \in User :
           \/ Create(q, t) \/ Modify(q, t)
           \/ \E flag \in BOOLEAN : SetDisabled(q, t, flag)
    BY <1>1 DEF Next, Seed, Gate, Refused, SetPassword, UnderWay
  <2>2. q = r /\ r \in Request /\ TypeOK /\ AskersExist
    BY <1>1, <2>1 DEF Create, Modify, SetDisabled, Answered, UnderWay, IInv, TypeOK
  <2>3. CASE Create(q, t)
    <3>1. PICK a \in Account : CreateConds(r, t, a)
      BY <2>2, <2>3, CreateWrites
    <3>2. u = t /\ asking[r] \in Users /\ u \notin Users
      BY <1>1, <2>2, <3>1, WriteEffect DEF CreateConds
    <3>3. Authority(u) = {}
      BY <3>2 DEF Authority
    <3>4. QED
      BY <2>2, <3>1, <3>2, <3>3, WrittenWithinActor DEF CreateConds
  <2>4. ASSUME NEW a \in Account, ModifyConds(r, t, a)
        PROVE  /\ asking[r] # u
               /\ Authority(u) \cup (Authority(u)') \subseteq Authority(asking[r])
    <3>1. u = t /\ asking[r] \in Users /\ u \in Users
      BY <1>1, <2>2, <2>4, WriteEffect DEF ModifyConds
    <3>2. QED
      BY <2>2, <2>4, <3>1, WrittenWithinActor, AuthorityWithinActor DEF ModifyConds
  <2>5. QED
    BY <2>1, <2>2, <2>3, <2>4, ModifyWrites, DisableWrites
<1>2. IInv /\ [Next]_accountVars => [\A r \in UnderWay, u \in User : Within(r, u)]_accountVars
  BY <1>1
<1>3. QED
  BY <1>2, Invariant, PTL DEF Spec, ActsWithinReach

-----------------------------------------------------------------------------
(***************************************************************************)
(* Sessions implements Accounts, so that the theorems about accounts hold  *)
(* with sessions in place; and no session outlives what it was opened with *)
(* unless its own sign-in was overtaken.                                   *)
(***************************************************************************)

\* Every step of the whole is a step of the accounts or leaves them alone.
THEOREM SessionsImplementAccounts == SessionsSpec => Spec
<1>1. SessionsInit => Init
  BY DEF SessionsInit
<1>2. [SessionsNext]_vars => [Next]_accountVars
  <2> SUFFICES ASSUME SessionsNext PROVE [Next]_accountVars
    BY DEF vars, accountVars
  <2>1. CASE SigningIn
    BY <2>1 DEF SigningIn, LoginVerified, LoginIssued, LoginLost, Logout, Expired
  <2>2. CASE ChangingPasswords
    BY <2>2 DEF ChangingPasswords, ChangeAsked, ChangeSwept, ChangeSet, ChangeLost
  <2>3. CASE Administering
    <3>1. ASSUME NEW s \in Session, NEW r \in Request, Usable(s), Gate(r, session[s].user)
          PROVE  Next
      BY <3>1 DEF Next, Usable, Active, Users
    <3>2. QED
      BY <2>3, <3>1
      DEF Administering, SeedWithPassword, SignedInGate, RefusedHere,
          CreateWithPassword, ModifyHere, ResetPassword, Disable, Enable, Next
  <2>4. QED
    BY <2>1, <2>2, <2>3 DEF SessionsNext
<1>3. QED
  BY <1>1, <1>2, PTL DEF SessionsSpec, Spec

\* The accounts' invariant, in a system with sessions.
LEMMA AccountsInvariant == SessionsSpec => []IInv
BY SessionsImplementAccounts, Invariant, PTL

-----------------------------------------------------------------------------
(* The inductive invariant.  Sign-ins being verified are as current as the *)
(* sessions they become, and while a change of password is half done only  *)
(* the session that asked for it is left, but for those known to be raced. *)

LoginsAreCurrent == \A a \in Attempt : login[a] # Nothing => Current(login[a])

SweptIsClean ==
    \A c \in Change, s \in Session :
        /\ change[c] # Nothing /\ change[c].phase = "swept"
        /\ session[s] # Nothing /\ session[s].user = change[c].user
        /\ s # change[c].keep
        => session[s].raced

OwnersExist ==
    /\ \A s \in Session : session[s] # Nothing => session[s].user \in Users
    /\ \A a \in Attempt : login[a] # Nothing => login[a].user \in Users
    /\ \A c \in Change : change[c] # Nothing => change[c].user \in Users

SInv ==
    /\ SessionsTypeOK
    /\ OwnersExist
    /\ SessionsAreCurrent
    /\ LoginsAreCurrent
    /\ SweptIsClean

-----------------------------------------------------------------------------
(* What the operations on accounts leave as it was.                        *)

\* A new row changes nobody's flag and was nobody's before.
LEMMA CreateKeeps ==
    ASSUME IInv, NEW r \in Request, NEW u \in User, Create(r, u)
    PROVE  /\ u \notin Users /\ Users' = Users \cup {u}
           /\ \A v \in User \ {u} : account'[v] = account[v]
<1>1. PICK a \in Account : CreateConds(r, u, a)
  BY CreateWrites DEF IInv
<1>2. QED
  BY <1>1, WriteEffect DEF CreateConds, IInv

\* Nor does the row of the seed.
LEMMA SeedKeeps ==
    ASSUME IInv, NEW u \in User, NEW n \in Number, Seed(u, n)
    PROVE  /\ u \notin Users /\ Users' = Users \cup {u}
           /\ \A v \in User \ {u} : account'[v] = account[v]
<1>1. PICK a \in Account : SeedConds(u, a)
  BY SeedWrites DEF IInv
<1>2. QED
  BY <1>1, WriteEffect DEF SeedConds, IInv

\* modify_user changes neither who has a row nor anybody's flag.
LEMMA ModifyKeeps ==
    ASSUME IInv, NEW r \in Request, NEW t \in User, Modify(r, t)
    PROVE  /\ Users' = Users
           /\ \A v \in Users : account'[v].disabled = account[v].disabled
<1>1. PICK a \in Account : ModifyConds(r, t, a)
  BY ModifyWrites DEF IInv
<1>2. PICK ro \in Role, sc \in ScopeLists, sp \in User \cup {NoUser},
           n \in Number, cs \in BOOLEAN :
        account' = [account EXCEPT ![t] = Row(n, ro, sc, sp, cs, account[t].disabled)]
  BY DEF Modify
<1>3. t \in Users /\ Users' = Users /\ \A v \in Users \ {t} : account'[v] = account[v]
  BY <1>1, WriteEffect DEF ModifyConds, IInv, Users
<1>4. account'[t] = Row(n, ro, sc, sp, cs, account[t].disabled)
  BY <1>2 DEF IInv, TypeOK
<1>5. account'[t].disabled = account[t].disabled
  BY <1>4 DEF Row
<1>6. QED
  BY <1>3, <1>5

\* set_user_disabled changes the flag of its target and nothing else.
LEMMA SetDisabledKeeps ==
    ASSUME IInv, NEW r \in Request, NEW t \in User, NEW flag \in BOOLEAN,
           SetDisabled(r, t, flag)
    PROVE  /\ t \in Users /\ Users' = Users
           /\ account'[t].disabled = flag
           /\ \A v \in User \ {t} : account'[v] = account[v]
<1>1. PICK a \in Account : ModifyConds(r, t, a)
  BY DisableWrites DEF IInv
<1>2. /\ t \in Users /\ Users' = Users
      /\ \A v \in User \ {t} : account'[v] = account[v]
  BY <1>1, WriteEffect DEF ModifyConds, IInv
<1>3. account' = [account EXCEPT ![t] = [account[t] EXCEPT !.disabled = flag]]
  BY DEF SetDisabled
<1>4. account'[t].disabled = flag
  BY <1>2, <1>3, AccountOfUser DEF IInv, TypeOK, Account
<1>5. QED
  BY <1>2, <1>4

-----------------------------------------------------------------------------
(* Every operation preserves the invariant.                                *)

\* Accounts that changed only by gaining rows leave everything current.
LEMMA GrowthPreserves ==
    ASSUME SInv, NEW u \in User, u \notin Users, Users' = Users \cup {u},
           \A v \in User \ {u} : account'[v] = account[v],
           password' = [password EXCEPT ![u] = 1],
           UNCHANGED <<session, login, change>>
    PROVE  SInv'
<1>1. \A v \in Users : v \in User \ {u} /\ account'[v] = account[v]
                       /\ password'[v] = password[v]
  BY DEF Users, SInv, SessionsTypeOK
<1>2. SessionsTypeOK'
  BY SessionsAssumption DEF SInv, SessionsTypeOK, Users, Version
<1>3. OwnersExist'
  BY DEF SInv, OwnersExist
<1>4. SessionsAreCurrent' /\ LoginsAreCurrent'
  BY <1>1 DEF SInv, OwnersExist, SessionsAreCurrent, LoginsAreCurrent, Current
<1>5. SweptIsClean'
  BY DEF SInv, SweptIsClean
<1>6. QED
  BY <1>2, <1>3, <1>4, <1>5 DEF SInv

\* So does a step that keeps everybody's flag and everything of this module.
LEMMA QuietPreserves ==
    ASSUME SInv, Users' = Users, \A v \in Users : account'[v].disabled = account[v].disabled,
           UNCHANGED sessionVars
    PROVE  SInv'
<1>1. SessionsTypeOK'
  BY DEF SInv, SessionsTypeOK, Users, sessionVars
<1>2. OwnersExist' /\ SweptIsClean'
  BY DEF SInv, OwnersExist, SweptIsClean, sessionVars
<1>3. SessionsAreCurrent' /\ LoginsAreCurrent'
  BY DEF SInv, OwnersExist, SessionsAreCurrent, LoginsAreCurrent, Current, sessionVars
<1>4. QED
  BY <1>1, <1>2, <1>3 DEF SInv

\* Ending every session of t and marking its sign-ins makes room for any new
\* password and for a flag set on t.
LEMMA ClearedPreserves ==
    ASSUME SInv, NEW t \in Users, Users' = Users,
           \A v \in Users \ {t} : account'[v].disabled = account[v].disabled,
           Revoked(t, {}), Overtaken(t), UNCHANGED change,
           \/ UNCHANGED password
           \/ NewPassword(t)
    PROVE  SInv'
<1>1. /\ password' \in [User -> {0} \cup Version]
      /\ \A v \in User : password'[v] = 0 <=> password[v] = 0
      /\ \A v \in User \ {t} : password'[v] = password[v]
  BY SessionsAssumption DEF SInv, SessionsTypeOK, NewPassword, Version, Users
<1>2. \A s \in Session : session'[s] # Nothing =>
        session'[s] = session[s] /\ session[s].user # t
  BY DEF Revoked, SessionsOf
<1>3. session' \in [Session -> Opened \cup {Nothing}]
  BY DEF Revoked, SInv, SessionsTypeOK
<1>4. \A a \in Attempt :
        /\ login[a] = Nothing => login'[a] = Nothing
        /\ login[a] # Nothing =>
            /\ login'[a] \in Opened
            /\ login'[a].user = login[a].user
            /\ IF login[a].user = t THEN login'[a].raced ELSE login'[a] = login[a]
  <2> SUFFICES ASSUME NEW a \in Attempt, login[a] # Nothing
               PROVE  /\ login'[a] \in Opened
                      /\ login'[a].user = login[a].user
                      /\ IF login[a].user = t THEN login'[a].raced
                                              ELSE login'[a] = login[a]
    BY DEF Overtaken
  <2>1. login[a] \in Opened
    BY DEF SInv, SessionsTypeOK
  <2>2. \A o \in Opened : /\ [o EXCEPT !.raced = TRUE] \in Opened
                          /\ [o EXCEPT !.raced = TRUE].user = o.user
                          /\ [o EXCEPT !.raced = TRUE].raced
    BY DEF Opened
  <2>3. login'[a] = IF login[a].user = t THEN [login[a] EXCEPT !.raced = TRUE]
                                         ELSE login[a]
    BY DEF Overtaken
  <2>4. QED
    BY <2>1, <2>2, <2>3
<1>5. SessionsTypeOK'
  <2>1. login' \in [Attempt -> Opened \cup {Nothing}]
    BY <1>4 DEF Overtaken
  <2>2. QED
    BY <1>1, <1>3, <2>1 DEF SInv, SessionsTypeOK, Users
<1>6. OwnersExist'
  BY <1>2, <1>4 DEF SInv, OwnersExist
<1>7. SessionsAreCurrent'
  BY <1>1, <1>2, SessionsAssumption
  DEF SInv, OwnersExist, SessionsAreCurrent, Current, SessionsTypeOK, Users
<1>8. LoginsAreCurrent'
  BY <1>1, <1>4 DEF SInv, OwnersExist, LoginsAreCurrent, Current, Users
<1>9. SweptIsClean'
  BY <1>2 DEF SInv, SweptIsClean
<1>10. QED
  BY <1>5, <1>6, <1>7, <1>8, <1>9 DEF SInv

\* Signing in, signing out and expiry keep the invariant.
LEMMA SigningInPreserves ==
    ASSUME IInv, SInv, SigningIn
    PROVE  SInv'
<1>1. UNCHANGED <<account, password, change>> /\ Users' = Users
  BY DEF SigningIn, LoginVerified, LoginIssued, LoginLost, Logout, Expired, accountVars, Users
<1>2. ASSUME NEW a \in Attempt, NEW u \in User, LoginVerified(a, u)
      PROVE  SInv'
  <2>1. login' = [login EXCEPT ![a] = [user |-> u, version |-> password[u], raced |-> FALSE]]
        /\ UNCHANGED session /\ u \in Users /\ ~account[u].disabled
    BY <1>2 DEF LoginVerified, Active
  <2>2. password[u] \in Version
    BY <2>1 DEF SInv, SessionsTypeOK, Users
  <2>3. SessionsTypeOK'
    BY <1>1, <2>1, <2>2 DEF SInv, SessionsTypeOK, Opened, Users
  <2>4. OwnersExist' /\ SweptIsClean' /\ SessionsAreCurrent'
    BY <1>1, <2>1 DEF SInv, OwnersExist, SweptIsClean, SessionsTypeOK, SessionsAreCurrent, Current
  <2>5. LoginsAreCurrent'
    BY <1>1, <2>1 DEF SInv, LoginsAreCurrent, SessionsTypeOK, Current
  <2>6. QED
    BY <2>3, <2>4, <2>5 DEF SInv
<1>3. ASSUME NEW a \in Attempt, NEW s \in Session, LoginIssued(a, s)
      PROVE  SInv'
  <2> DEFINE o == [login[a] EXCEPT !.raced = @ \/ HalfChanged(login[a].user)]
  <2>1. /\ session' = [session EXCEPT ![s] = o]
        /\ login' = [login EXCEPT ![a] = Nothing]
        /\ login[a] # Nothing /\ Fresh(s)
    BY <1>3 DEF LoginIssued
  <2>2. login[a] \in Opened
    BY <2>1 DEF SInv, SessionsTypeOK
  <2>3. /\ o \in Opened /\ o.user = login[a].user /\ o.version = login[a].version
        /\ o.raced = (login[a].raced \/ HalfChanged(login[a].user))
    BY <2>2, Zenon DEF Opened, HalfChanged
  <2> HIDE DEF o
  <2>4. SessionsTypeOK'
    BY <1>1, <2>1, <2>3 DEF SInv, SessionsTypeOK, Users
  <2>5. OwnersExist'
    BY <1>1, <2>1, <2>3 DEF SInv, OwnersExist, SessionsTypeOK
  <2>6. SessionsAreCurrent' /\ LoginsAreCurrent'
    BY <1>1, <2>1, <2>3 DEF SInv, SessionsAreCurrent, LoginsAreCurrent, SessionsTypeOK, Current
  <2>7. SweptIsClean'
    BY <1>1, <2>1, <2>3 DEF SInv, SweptIsClean, SessionsTypeOK, HalfChanged
  <2>8. QED
    BY <2>4, <2>5, <2>6, <2>7 DEF SInv
<1>4. ASSUME NEW a \in Attempt, LoginLost(a)
      PROVE  SInv'
  BY <1>1, <1>4 DEF LoginLost, SInv, SessionsTypeOK, OwnersExist, SessionsAreCurrent,
     LoginsAreCurrent, SweptIsClean, Current, Users
<1>5. ASSUME NEW s \in Session, Logout(s) \/ Expired(s)
      PROVE  SInv'
  BY <1>1, <1>5 DEF Logout, Expired, SInv, SessionsTypeOK, OwnersExist, SessionsAreCurrent,
     LoginsAreCurrent, SweptIsClean, Current, Users
<1>6. QED
  BY <1>2, <1>3, <1>4, <1>5 DEF SigningIn

\* Storing the new password keeps it: the sweep before has ended every other
\* session of the same user.
LEMMA ChangeSetPreserves ==
    ASSUME IInv, SInv, NEW c \in Change, ChangeSet(c)
    PROVE  SInv'
<1> DEFINE u == change[c].user
           kept == change[c].keep
<1>1. /\ change[c] \in Changing /\ change[c].phase = "swept" /\ u \in Users /\ u \in User
      /\ Users' = Users /\ UNCHANGED account
      /\ NewPassword(u) /\ Overtaken(u)
      /\ change' = [change EXCEPT ![c] = Nothing]
      /\ session' = [s \in Session |-> IF s = kept /\ s \in SessionsOf(u)
                        THEN [session[s] EXCEPT !.version = password'[u]]
                        ELSE session[s]]
  BY DEF ChangeSet, SInv, OwnersExist, SessionsTypeOK, Users, accountVars, Changing
<1> HIDE DEF u, kept
<1>2. /\ password' \in [User -> {0} \cup Version]
      /\ \A v \in User : password'[v] = 0 <=> password[v] = 0
      /\ \A v \in User \ {u} : password'[v] = password[v]
      /\ password'[u] \in Version
  BY <1>1, SessionsAssumption DEF SInv, SessionsTypeOK, NewPassword, Version, Users
<1>3. \A o \in Opened :
        /\ [o EXCEPT !.version = password'[u]] \in Opened
        /\ [o EXCEPT !.version = password'[u]].user = o.user
        /\ [o EXCEPT !.version = password'[u]].raced = o.raced
        /\ [o EXCEPT !.version = password'[u]].version = password'[u]
        /\ [o EXCEPT !.raced = TRUE] \in Opened
        /\ [o EXCEPT !.raced = TRUE].user = o.user
        /\ [o EXCEPT !.raced = TRUE].raced
  BY <1>2 DEF Opened
<1>4. \A s \in Session : session[s] # Nothing =>
        /\ session[s] \in Opened
        /\ session'[s] \in Opened
        /\ session'[s].user = session[s].user
        /\ session'[s].raced = session[s].raced
        /\ session[s].user # u => session'[s] = session[s]
        /\ session[s].user = u => \/ session[s].raced
                                  \/ session'[s].version = password'[u]
  <2> SUFFICES ASSUME NEW s \in Session, session[s] # Nothing
               PROVE  /\ session[s] \in Opened
                      /\ session'[s] \in Opened
                      /\ session'[s].user = session[s].user
                      /\ session'[s].raced = session[s].raced
                      /\ session[s].user # u => session'[s] = session[s]
                      /\ session[s].user = u => \/ session[s].raced
                                                \/ session'[s].version = password'[u]
    OBVIOUS
  <2>1. session[s] \in Opened
    BY DEF SInv, SessionsTypeOK
  <2>2. CASE s = kept /\ session[s].user = u
    <3>1. session'[s] = [session[s] EXCEPT !.version = password'[u]]
      BY <1>1, <2>2 DEF SessionsOf
    <3>2. QED
      BY <1>3, <2>1, <2>2, <3>1
  <2>3. CASE ~(s = kept /\ session[s].user = u)
    <3>1. session'[s] = session[s]
      BY <1>1, <2>3 DEF SessionsOf
    <3>2. session[s].user = u => session[s].raced
      BY <1>1, <2>3, SessionsAssumption DEF SInv, SweptIsClean, u, kept
    <3>3. QED
      BY <2>1, <3>1, <3>2
  <2>4. QED
    BY <2>2, <2>3
<1>5. \A s \in Session : session[s] = Nothing => session'[s] = Nothing
  BY <1>1 DEF SessionsOf
<1>6. \A a \in Attempt :
        /\ login[a] = Nothing => login'[a] = Nothing
        /\ login[a] # Nothing =>
            /\ login'[a] \in Opened
            /\ login'[a].user = login[a].user
            /\ IF login[a].user = u THEN login'[a].raced ELSE login'[a] = login[a]
  BY <1>1, <1>3 DEF Overtaken, SInv, SessionsTypeOK
<1>7. SessionsTypeOK'
  <2>1. session' \in [Session -> Opened \cup {Nothing}]
    BY <1>1, <1>4, <1>5
  <2>2. login' \in [Attempt -> Opened \cup {Nothing}]
    BY <1>1, <1>6 DEF Overtaken
  <2>3. QED
    BY <1>1, <1>2, <2>1, <2>2 DEF SInv, SessionsTypeOK
<1>8. OwnersExist'
  BY <1>1, <1>4, <1>5, <1>6 DEF SInv, OwnersExist, SessionsTypeOK
<1>9. SessionsAreCurrent'
  <2>1. SUFFICES ASSUME NEW s \in Session, session'[s] # Nothing, ~session'[s].raced
                 PROVE  /\ session'[s].version = password'[session'[s].user]
                        /\ ~account[session'[s].user].disabled
    BY <1>1 DEF SessionsAreCurrent, Current
  <2>2. /\ session[s] # Nothing /\ ~session[s].raced /\ session'[s].user = session[s].user
        /\ session[s].user \in User
    BY <1>4, <1>5, <2>1 DEF Opened
  <2>3. /\ session[s].version = password[session[s].user]
        /\ ~account[session[s].user].disabled
    BY <2>2 DEF SInv, SessionsAreCurrent, Current
  <2>4. QED
    BY <1>2, <1>4, <2>2, <2>3
<1>10. LoginsAreCurrent'
  BY <1>1, <1>2, <1>6 DEF SInv, OwnersExist, LoginsAreCurrent, Current, Users
<1>11. SweptIsClean'
  BY <1>1, <1>4, <1>5 DEF SInv, SweptIsClean, SessionsTypeOK
<1>12. QED
  BY <1>7, <1>8, <1>9, <1>10, <1>11 DEF SInv

\* Every step of a self-service change keeps it.
LEMMA ChangingPreserves ==
    ASSUME IInv, SInv, ChangingPasswords
    PROVE  SInv'
<1>1. ASSUME NEW c \in Change, NEW s \in Session, ChangeAsked(c, s)
      PROVE  SInv'
  <2> DEFINE o == [user |-> session[s].user, keep |-> s,
                   version |-> password[session[s].user], phase |-> "asked"]
  <2>1. /\ change' = [change EXCEPT ![c] = o] /\ o.user \in Users /\ o.phase = "asked"
        /\ UNCHANGED <<accountVars, password, session, login>>
    BY <1>1 DEF ChangeAsked, Usable, Active
  <2>2. o \in Changing
    BY <2>1 DEF SInv, SessionsTypeOK, Users, Changing
  <2> HIDE DEF o
  <2>3. QED
    BY <2>1, <2>2 DEF SInv, SessionsTypeOK, OwnersExist, SessionsAreCurrent,
       LoginsAreCurrent, SweptIsClean, Current, Users, accountVars
<1>2. ASSUME NEW c \in Change, ChangeSwept(c)
      PROVE  SInv'
  <2> DEFINE o == [change[c] EXCEPT !.phase = "swept"]
  <2>1. /\ change' = [change EXCEPT ![c] = o] /\ change[c] # Nothing
        /\ Revoked(change[c].user, {change[c].keep})
        /\ UNCHANGED <<accountVars, password, login>>
    BY <1>2 DEF ChangeSwept
  <2>2. change[c] \in Changing
    BY <2>1 DEF SInv, SessionsTypeOK
  <2>3. o \in Changing /\ o.user = change[c].user /\ o.keep = change[c].keep
    BY <2>2 DEF Changing
  <2> HIDE DEF o
  <2>4. \A s \in Session : session'[s] # Nothing =>
          /\ session'[s] = session[s]
          /\ session[s].user # change[c].user \/ s = change[c].keep
    BY <2>1 DEF Revoked, SessionsOf
  <2>5. SessionsTypeOK'
    BY <2>1, <2>3 DEF SInv, SessionsTypeOK, Revoked, Users, accountVars
  <2>6. OwnersExist'
    BY <2>1, <2>3, <2>4 DEF SInv, OwnersExist, SessionsTypeOK, Users, accountVars
  <2>7. SessionsAreCurrent' /\ LoginsAreCurrent'
    BY <2>1, <2>4 DEF SInv, SessionsAreCurrent, LoginsAreCurrent, Current, accountVars
  <2>8. SweptIsClean'
    BY <2>1, <2>3, <2>4 DEF SInv, SweptIsClean, SessionsTypeOK
  <2>9. QED
    BY <2>5, <2>6, <2>7, <2>8 DEF SInv
<1>3. ASSUME NEW c \in Change, ChangeSet(c)
      PROVE  SInv'
  BY <1>3, ChangeSetPreserves
<1>4. ASSUME NEW c \in Change, ChangeLost(c)
      PROVE  SInv'
  BY <1>4 DEF ChangeLost, SInv, SessionsTypeOK, OwnersExist, SessionsAreCurrent,
     LoginsAreCurrent, SweptIsClean, Current, Users, accountVars
<1>5. QED
  BY <1>1, <1>2, <1>3, <1>4 DEF ChangingPasswords

\* Every operation on an account keeps it.
LEMMA AdministeringPreserves ==
    ASSUME IInv, SInv, Administering
    PROVE  SInv'
<1>1. ASSUME NEW u \in User, NEW n \in Number, SeedWithPassword(u, n)
      PROVE  SInv'
  BY <1>1, SeedKeeps, GrowthPreserves DEF SeedWithPassword
<1>2. ASSUME NEW r \in Request, NEW u \in User, CreateWithPassword(r, u)
      PROVE  SInv'
  BY <1>2, CreateKeeps, GrowthPreserves DEF CreateWithPassword
<1>3. ASSUME UNCHANGED account, UNCHANGED sessionVars
      PROVE  SInv'
  BY <1>3, QuietPreserves DEF Users
<1>4. ASSUME NEW r \in Request, NEW t \in User, ModifyHere(r, t)
      PROVE  SInv'
  BY <1>4, ModifyKeeps, QuietPreserves DEF ModifyHere
<1>5. ASSUME NEW r \in Request, NEW t \in User, ResetPassword(r, t)
      PROVE  SInv'
  BY <1>5, ClearedPreserves DEF ResetPassword, SetPassword, Users
<1>6. ASSUME NEW r \in Request, NEW t \in User, NEW flag \in BOOLEAN,
             SetDisabled(r, t, flag), flag = account[t].disabled \/ ~flag,
             UNCHANGED sessionVars
      PROVE  SInv'
  <2>1. /\ t \in Users /\ Users' = Users
        /\ account'[t].disabled = flag
        /\ \A v \in User \ {t} : account'[v] = account[v]
    BY <1>6, SetDisabledKeeps
  <2>2. SessionsTypeOK'
    BY <1>6, <2>1 DEF SInv, SessionsTypeOK, Users, sessionVars
  <2>3. OwnersExist' /\ SweptIsClean'
    BY <1>6, <2>1 DEF SInv, OwnersExist, SweptIsClean, sessionVars
  <2>4. SessionsAreCurrent' /\ LoginsAreCurrent'
    BY <1>6, <2>1 DEF SInv, OwnersExist, SessionsAreCurrent, LoginsAreCurrent, Current,
       sessionVars, Users
  <2>5. QED
    BY <2>2, <2>3, <2>4 DEF SInv
<1>7. ASSUME NEW r \in Request, NEW t \in User, Disable(r, t)
      PROVE  SInv'
  <2>1. SetDisabled(r, t, TRUE) /\ UNCHANGED <<password, change>>
    BY <1>7 DEF Disable
  <2>2. /\ t \in Users /\ Users' = Users
        /\ \A v \in Users \ {t} : account'[v].disabled = account[v].disabled
    BY <2>1, SetDisabledKeeps DEF Users
  <2>3. account[t].disabled \in BOOLEAN
    BY <2>2, AccountOfUser DEF IInv
  <2>4. CASE account[t].disabled = FALSE
    BY <1>7, <2>1, <2>2, <2>4, ClearedPreserves DEF Disable
  <2>5. CASE account[t].disabled = TRUE
    BY <1>6, <1>7, <2>1, <2>5 DEF Disable, sessionVars
  <2>6. QED
    BY <2>3, <2>4, <2>5
<1>8. ASSUME NEW r \in Request, NEW t \in User, Enable(r, t)
      PROVE  SInv'
  BY <1>6, <1>8 DEF Enable
<1>9. QED
  BY <1>1, <1>2, <1>3, <1>4, <1>5, <1>7, <1>8
  DEF Administering, UnderWay, SignedInGate, Gate, RefusedHere, Refused

\* The inductive invariant holds from the first sign-in on.
LEMMA SessionsInvariant == SessionsSpec => []SInv
<1>1. SessionsInit => SInv
  BY SessionsAssumption DEF SessionsInit, Init, SInv, SessionsTypeOK, OwnersExist,
     SessionsAreCurrent, LoginsAreCurrent, SweptIsClean
<1>2. IInv /\ SInv /\ [SessionsNext]_vars => SInv'
  <2>1. CASE UNCHANGED vars
    BY <2>1, QuietPreserves DEF vars, sessionVars, Users
  <2>2. CASE SessionsNext
    BY <2>2, SigningInPreserves, ChangingPreserves, AdministeringPreserves DEF SessionsNext
  <2>3. QED
    BY <2>1, <2>2
<1>3. QED
  BY <1>1, <1>2, AccountsInvariant, PTL DEF SessionsSpec

\* Every column and every request holds what it should, and a row has a
\* password exactly when it exists.
THEOREM SessionsTypeCorrect == SessionsSpec => []SessionsTypeOK
<1>1. SInv => SessionsTypeOK
  BY DEF SInv
<1>2. QED
  BY <1>1, SessionsInvariant, PTL

\* No session outlives the password it was opened with, or its account's being
\* disabled, unless its own sign-in was overtaken: with changes crossing each
\* other, resets in the middle of a change and changes that fail half way.
THEOREM SessionsStayCurrent == SessionsSpec => []SessionsAreCurrent
<1>1. SInv => SessionsAreCurrent
  BY DEF SInv
<1>2. QED
  BY <1>1, SessionsInvariant, PTL

\* With sessions in place there is still always an active star Editor.
THEOREM StarEditorWithSessions == SessionsSpec => []StarEditorSurvives
BY SessionsImplementAccounts, StarEditorAlways, PTL

-----------------------------------------------------------------------------
(***************************************************************************)
(* The ceiling of the sign-in throttle holds for any number of attempts    *)
(* under way and any LOGIN_MAX_FAILURES.                                   *)
(***************************************************************************)

\* How many attempts on n are under way is a number, at most all of them.
LEMMA TryingCounted ==
    ASSUME NEW n
    PROVE  /\ IsFiniteSet(TryingFor(n))
           /\ Cardinality(TryingFor(n)) \in Nat
           /\ Cardinality(Try) \in Nat
           /\ Cardinality(TryingFor(n)) <= Cardinality(Try)
<1>1. TryingFor(n) \subseteq Try
  BY DEF TryingFor
<1>2. QED
  BY <1>1, ThrottleAssumption, FS_Subset, FS_CardinalityType

\* The window counts, and attempts name a number or nothing.
THEOREM ThrottleTypeCorrect == ThrottleSpec => []ThrottleTypeOK
<1>1. ThrottleInit => ThrottleTypeOK
  BY DEF ThrottleInit, ThrottleTypeOK
<1>2. ThrottleTypeOK /\ [ThrottleNext]_throttleVars => ThrottleTypeOK'
  <2> SUFFICES ASSUME ThrottleTypeOK, [ThrottleNext]_throttleVars PROVE ThrottleTypeOK'
    OBVIOUS
  <2>1. ASSUME NEW a \in Try, NEW n \in Username, LetThrough(a, n) PROVE ThrottleTypeOK'
    BY <2>1 DEF LetThrough, ThrottleTypeOK
  <2>2. ASSUME NEW a \in Try, Failed(a) \/ Ended(a) PROVE ThrottleTypeOK'
    BY <2>2 DEF Failed, Ended, ThrottleTypeOK
  <2>3. ASSUME NEW n \in Username, TurnedAway(n) \/ AgesOut(n) PROVE ThrottleTypeOK'
    BY <2>3 DEF TurnedAway, AgesOut, ThrottleTypeOK, throttleVars
  <2>4. QED
    BY <2>1, <2>2, <2>3 DEF ThrottleNext, ThrottleTypeOK, throttleVars
<1>3. QED
  BY <1>1, <1>2, PTL DEF ThrottleSpec

\* An attempt that ends, whichever way, makes room for what it may have added.
LEMMA OneLessUnderWay ==
    ASSUME ThrottleTypeOK, NEW a \in Try, NEW n \in Username,
           trying[a] # NoUsername, trying' = [trying EXCEPT ![a] = NoUsername]
    PROVE  Cardinality(TryingFor(n)') =
             Cardinality(TryingFor(n)) - (IF trying[a] = n THEN 1 ELSE 0)
<1>1. TryingFor(n)' = TryingFor(n) \ {a}
  BY ThrottleAssumption DEF ThrottleTypeOK, TryingFor
<1>2. a \in TryingFor(n) <=> trying[a] = n
  BY DEF TryingFor
<1>3. Cardinality(TryingFor(n) \ {a}) =
        IF a \in TryingFor(n) THEN Cardinality(TryingFor(n)) - 1
                              ELSE Cardinality(TryingFor(n))
  BY TryingCounted, FS_RemoveElement
<1>4. QED
  BY <1>1, <1>2, <1>3, TryingCounted

\* Attempts let through before the earlier ones have failed are the only ones
\* above the ceiling: with any number of requests under way, the window of a
\* number holds at most LOGIN_MAX_FAILURES - 1 and one for each of them.
THEOREM CeilingHolds == ThrottleSpec => []Ceiling
<1>1. ThrottleInit => Ceiling
  <2> SUFFICES ASSUME ThrottleInit, NEW n \in Username
               PROVE  failures[n] + Cardinality(TryingFor(n))
                        <= MaxFailures - 1 + Cardinality(Try)
    BY DEF Ceiling
  <2>1. failures[n] = 0
    BY DEF ThrottleInit
  <2>2. QED
    BY <2>1, TryingCounted, ThrottleAssumption
<1>2. ThrottleTypeOK /\ ThrottleTypeOK' /\ Ceiling /\ [ThrottleNext]_throttleVars => Ceiling'
  <2> SUFFICES ASSUME ThrottleTypeOK, ThrottleTypeOK', Ceiling, [ThrottleNext]_throttleVars, NEW n \in Username
               PROVE  failures'[n] + Cardinality(TryingFor(n)')
                        <= MaxFailures - 1 + Cardinality(Try)
    BY DEF Ceiling
  <2> DEFINE goal == failures'[n] + Cardinality(TryingFor(n)')
                        <= MaxFailures - 1 + Cardinality(Try)
  <2>1. /\ failures[n] + Cardinality(TryingFor(n)) <= MaxFailures - 1 + Cardinality(Try)
        /\ failures[n] \in Nat /\ failures'[n] \in Nat
        /\ Cardinality(TryingFor(n)) \in Nat
        /\ Cardinality(Try) \in Nat /\ MaxFailures \in Nat \ {0}
    BY TryingCounted, ThrottleAssumption DEF Ceiling, ThrottleTypeOK
  <2>2. ASSUME trying' = trying PROVE Cardinality(TryingFor(n)') = Cardinality(TryingFor(n))
    BY <2>2 DEF TryingFor
  <2>3. ASSUME NEW a \in Try, NEW m \in Username, LetThrough(a, m) PROVE goal
    <3>1. CASE m = n
      <4>1. failures'[n] <= MaxFailures - 1
        BY <2>1, <2>3, <3>1 DEF LetThrough, Throttled
      <4>2. TryingFor(n)' \subseteq Try
        BY DEF TryingFor
      <4>3. /\ Cardinality(TryingFor(n)') \in Nat
            /\ Cardinality(TryingFor(n)') <= Cardinality(Try)
        BY <4>2, ThrottleAssumption, FS_Subset, FS_CardinalityType
      <4>4. QED
        BY <2>1, <4>1, <4>3
    <3>2. CASE m # n
      <4>1. TryingFor(n)' = TryingFor(n) /\ failures' = failures
        BY <2>3, <3>2, ThrottleAssumption DEF LetThrough, TryingFor, ThrottleTypeOK
      <4>2. QED
        BY <2>1, <4>1
    <3>3. QED
      BY <3>1, <3>2
  <2>4. ASSUME NEW a \in Try, Failed(a) PROVE goal
    <3>1. Cardinality(TryingFor(n)') =
            Cardinality(TryingFor(n)) - (IF trying[a] = n THEN 1 ELSE 0)
      BY <2>4, OneLessUnderWay DEF Failed
    <3>2. failures'[n] = failures[n] + (IF trying[a] = n THEN 1 ELSE 0)
      BY <2>1, <2>4 DEF Failed, ThrottleTypeOK
    <3>3. QED
      BY <2>1, <3>1, <3>2
  <2>5. ASSUME NEW a \in Try, Ended(a) PROVE goal
    <3>1. Cardinality(TryingFor(n)') =
            Cardinality(TryingFor(n)) - (IF trying[a] = n THEN 1 ELSE 0)
      BY <2>5, OneLessUnderWay DEF Ended
    <3>2. QED
      BY <2>1, <2>5, <3>1 DEF Ended
  <2>6. ASSUME NEW m \in Username, AgesOut(m) PROVE goal
    <3>1. failures'[n] <= failures[n] /\ trying' = trying
      BY <2>1, <2>6 DEF AgesOut, ThrottleTypeOK
    <3>2. QED
      BY <2>1, <2>2, <3>1
  <2>7. ASSUME UNCHANGED throttleVars PROVE goal
    BY <2>1, <2>2, <2>7 DEF throttleVars
  <2>8. QED
    BY <2>3, <2>4, <2>5, <2>6, <2>7 DEF ThrottleNext, TurnedAway
<1>3. QED
  BY <1>1, <1>2, ThrottleTypeCorrect, PTL DEF ThrottleSpec
=============================================================================
