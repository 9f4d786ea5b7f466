------------------------ MODULE AccountSecretsProofs ------------------------
(***************************************************************************)
(* TLAPS proofs of the safety properties of AccountSecrets, for any number *)
(* of accounts and vault keys.                                             *)
(***************************************************************************)
EXTENDS AccountSecrets, SequenceTheorems, TLAPS

(***************************************************************************)
(* The inductive invariant, in layers.                                     *)
(***************************************************************************)

Screens == {"off", "gate", "locked", "token", "intro", "create", "main", "next"}

Steps == ({"scrub"} \X Secrets) \union ({"clear", "persist"} \X Accounts)
           \union ({"save", "wipe", "sweep"} \X {NoOne})
           \union ({"go"} \X {"intro", "main", "next"})
           \union ({"bury"} \X SUBSET Accounts)

\* Of the steps that a handler still has to do: whether there is one of a kind, that
\* only accounts of S lose secrets, and the order.  Nothing but a wipe, a change of
\* screen and a sweep comes after the settings are saved; a sweep, its dead and a new
\* session come last.
Has(p, op) == \E i \in 1..Len(p) : p[i][1] = op
Hurts(p, S) == \A i \in 1..Len(p) : /\ p[i][1] = "scrub" => p[i][2][1] \in S
                                    /\ p[i][1] = "clear" => p[i][2] \in S
Ordered(p) ==
  \A i \in 1..Len(p) :
    /\ p[i][1] \in {"sweep", "bury", "persist"} => i = Len(p)
    /\ p[i][1] = "persist" => i = 1
    /\ p[i][1] = "save" =>
         \A j \in 1..Len(p) : i < j => p[j][1] \in {"wipe", "go", "sweep"}
Buries(p, a) == \E i \in 1..Len(p) : p[i][1] = "bury" /\ a \in p[i][2]

\* Who is signed in and has been neither given up nor asked to go, and who is about to be.
Excused == asked \union dropped
Coming == {a \in Accounts : Doing("persist") /\ Arg = a}
Known == (SignedIn(mem) \ Excused) \union Coming

\* Settings on disk fall behind those in memory, for as long as saving fails; but whoever
\* only they still name has been given up or asked to go.
Handlers ==
  /\ todo \in Seq(Steps) /\ Ordered(todo)
  /\ Hurts(todo, Excused)
  /\ \A a \in Accounts : Buries(todo, a) => a \in SignedIn(mem) \union Excused
  /\ SignedIn(disk) \ Excused \subseteq SignedIn(mem)
  /\ active \in SignedIn(mem) \union {NoOne}
  /\ screen \in {"locked", "token"} => (active \in SignedIn(mem) /\ Idle) \/ Has(todo, "go")
  /\ screen = "off" => Idle /\ mem = disk
  /\ \A a \in Coming : /\ mem.marker[a] = "none" /\ disk.marker[a] = "none"
                       /\ store.cache.full /\ Mine(a) \subseteq store.cache.held
                       /\ store.backend = "vault" => store.key # 0

\* No file, no secrets in it.
FileSound == store.file.key = 0 => store.file.held = {}

\* The copy that the active backend does not read.
Other(s) == IF s.backend = "keychain" THEN s.file.held ELSE s.item

Unflipped == causes \intersect {"flip", "password"} = {}

\* What the cache says of an account, unless it was filled with nothing.
Agrees(s, a) == s.cache.full => \/ s.cache.held = {}
                                \/ Mine(a) \intersect s.cache.held = Mine(a) \intersect Held(s)

Opened(s) == s.backend = "vault" /\ s.key # 0 => s.file.key \in {0, s.key}

\* The markers in memory name the backend that runs.  Those on disk may name the one that
\* ran before, as long as saving fails, but all name the same, and it is the one that runs
\* if any of them counts.
Marked ==
  /\ screen # "off" => \A a \in Accounts : mem.marker[a] \in {"none", store.backend}
  /\ \A a, b \in SignedIn(disk) : disk.marker[a] = disk.marker[b]
  /\ \A a \in SignedIn(disk) \ Excused : disk.marker[a] = store.backend

\* The secrets are nowhere else, and the cache knows all of them that are there, or
\* nothing.
OneCopy ==
  /\ Marked
  /\ \A a \in Known : /\ Mine(a) \intersect Other(store) = {}
                      /\ Agrees(store, a)
                      /\ Opened(store)
  /\ \A a \in Accounts \ Excused : Buries(todo, a) => ~(Mine(a) \subseteq Held(store))

\* Who counts has all secrets.
Kept == \A a \in Known : Mine(a) \subseteq Held(store)

Inv == TypeOK /\ Handlers /\ FileSound /\ (Unflipped => OneCopy) /\ (causes = {} => Kept)

-----------------------------------------------------------------------------
(* Handlers as sequences of steps.                                         *)

LEMMA Popped ==
  ASSUME NEW p \in Seq(Steps), p # <<>>
  PROVE  /\ Tail(p) \in Seq(Steps) /\ Len(Tail(p)) = Len(p) - 1
         /\ \A i \in 1..Len(Tail(p)) : i + 1 \in 1..Len(p) /\ Tail(p)[i] = p[i + 1]
         /\ 1 \in 1..Len(p) /\ Head(p) = p[1] /\ p[1] \in Steps
         /\ \A i \in 1..Len(p) : i # 1 => i - 1 \in 1..Len(Tail(p)) /\ p[i] = Tail(p)[i - 1]
  OBVIOUS

\* What is left when the first step is done.
LEMMA Rested ==
  ASSUME NEW p \in Seq(Steps), p # <<>>, Ordered(p), NEW S, Hurts(p, S)
  PROVE  /\ Tail(p) \in Seq(Steps) /\ Ordered(Tail(p)) /\ Hurts(Tail(p), S)
         /\ \A a : Buries(Tail(p), a) => Buries(p, a)
         /\ ~Has(Tail(p), "persist")
         /\ \A op : Has(Tail(p), op) => Has(p, op)
         /\ \A op : Has(p, op) => Has(Tail(p), op) \/ Head(p)[1] = op
         /\ Head(p)[1] \in {"sweep", "bury", "persist"} => Tail(p) = <<>>
         /\ Head(p)[1] = "save" => \A i \in 1..Len(Tail(p)) : Tail(p)[i][1] \in {"wipe", "go", "sweep"}
<1>1. Tail(p) \in Seq(Steps) /\ Ordered(Tail(p)) /\ Hurts(Tail(p), S)
  BY Popped DEF Ordered, Hurts
<1>2. \A a : Buries(Tail(p), a) => Buries(p, a)
  BY Popped DEF Buries
<1>3. \A op : Has(Tail(p), op) => Has(p, op)
  BY Popped DEF Has
<1>4. \A op : Has(p, op) => Has(Tail(p), op) \/ Head(p)[1] = op
  BY Popped DEF Has
<1>5. ~Has(Tail(p), "persist")
  <2> SUFFICES ASSUME NEW i \in 1..Len(Tail(p)), Tail(p)[i][1] = "persist" PROVE FALSE
    BY DEF Has
  <2>1. i + 1 \in 1..Len(p) /\ p[i + 1][1] = "persist"
    BY Popped
  <2> QED BY <2>1 DEF Ordered
<1>6. ASSUME Head(p)[1] \in {"sweep", "bury", "persist"} PROVE Tail(p) = <<>>
  <2>1. Len(p) = 1
    BY <1>6, Popped DEF Ordered
  <2> QED BY <2>1, Popped
<1>7. ASSUME Head(p)[1] = "save", NEW i \in 1..Len(Tail(p))
      PROVE  Tail(p)[i][1] \in {"wipe", "go", "sweep"}
  <2>1. p[1][1] = "save" /\ 1 < i + 1 /\ i + 1 \in 1..Len(p) /\ Tail(p)[i] = p[i + 1]
    BY <1>7, Popped
  <2> QED BY <2>1 DEF Ordered
<1> QED BY <1>1, <1>2, <1>3, <1>4, <1>5, <1>6, <1>7

\* Steps of a handler to which more can be added, that take the secrets of a only.
Open(p, a) ==
  /\ p \in Seq(Steps) /\ p # <<>> /\ Hurts(p, {a}) /\ Head(p)[1] # "persist"
  /\ Ordered(p) /\ ~Has(p, "bury") /\ ~Has(p, "sweep") /\ ~Has(p, "persist")

LEMMA Added ==
  ASSUME NEW p \in Seq(Steps), NEW x \in Steps
  PROVE  /\ p \o <<x>> \in Seq(Steps) /\ Len(p \o <<x>>) = Len(p) + 1
         /\ \A i \in 1..Len(p) : i \in 1..Len(p \o <<x>>) /\ (p \o <<x>>)[i] = p[i]
         /\ (p \o <<x>>)[Len(p) + 1] = x
         /\ p # <<>> => Head(p \o <<x>>) = Head(p)
         /\ \A op : Has(p \o <<x>>, op) <=> Has(p, op) \/ x[1] = op
<1>1. <<x>> \in Seq(Steps) /\ Len(<<x>>) = 1 /\ <<x>>[1] = x
  OBVIOUS
<1> DEFINE q == <<x>>
<1> HIDE DEF q
<1>2. /\ p \o q \in Seq(Steps) /\ Len(p \o q) = Len(p) + 1
      /\ \A i \in 1..Len(p) : i \in 1..Len(p \o q) /\ (p \o q)[i] = p[i]
      /\ (p \o q)[Len(p) + 1] = x
      /\ p # <<>> => Head(p \o q) = Head(p)
  BY <1>1, ConcatProperties DEF q
<1>3. \A i \in 1..Len(p \o q) : i \in 1..Len(p) \/ i = Len(p) + 1
  BY <1>2
<1>4. \A op : Has(p \o q, op) <=> Has(p, op) \/ x[1] = op
  BY <1>2, <1>3 DEF Has
<1> QED BY <1>2, <1>4 DEF q

LEMMA Continue ==
  ASSUME NEW p, NEW a, Open(p, a), NEW x \in Steps,
         x[1] \in {"clear", "save", "wipe", "go"}, x[1] = "clear" => x[2] = a,
         Has(p, "save") => x[1] \in {"wipe", "go"}
  PROVE  /\ Open(p \o <<x>>, a) /\ Head(p \o <<x>>) = Head(p)
         /\ \A op : Has(p \o <<x>>, op) <=> Has(p, op) \/ x[1] = op
<1> DEFINE q == p \o <<x>>
<1>1. /\ p \in Seq(Steps) /\ q \in Seq(Steps) /\ Len(q) = Len(p) + 1 /\ q[Len(p) + 1] = x
      /\ \A i \in 1..Len(p) : i \in 1..Len(q) /\ q[i] = p[i]
      /\ p # <<>> => Head(q) = Head(p)
      /\ \A op : Has(q, op) <=> Has(p, op) \/ x[1] = op
  BY Added DEF Open
<1> HIDE DEF q
<1>2. \A i \in 1..Len(q) : i \in 1..Len(p) \/ i = Len(p) + 1
  BY <1>1
<1>3. Hurts(q, {a})
  BY <1>1, <1>2 DEF Open, Hurts
<1>4. ~Has(q, "bury") /\ ~Has(q, "sweep") /\ ~Has(q, "persist") /\ q # <<>>
  BY <1>1 DEF Open
<1>5. Ordered(q)
  <2> SUFFICES ASSUME NEW i \in 1..Len(q)
               PROVE  q[i][1] = "save" => \A j \in 1..Len(q) : i < j => q[j][1] \in {"wipe", "go", "sweep"}
    BY <1>4 DEF Ordered, Has
  <2> SUFFICES ASSUME q[i][1] = "save", NEW j \in 1..Len(q), i < j
               PROVE  q[j][1] \in {"wipe", "go", "sweep"}
    OBVIOUS
  <2>1. i \in 1..Len(p) /\ p[i][1] = "save"
    BY <1>1, <1>2
  <2>2. CASE j \in 1..Len(p)
    BY <1>1, <2>1, <2>2 DEF Open, Ordered
  <2>3. CASE j = Len(p) + 1
    BY <1>1, <2>1, <2>3 DEF Has
  <2> QED BY <1>2, <2>2, <2>3
<1> QED BY <1>1, <1>3, <1>4, <1>5 DEF Open, q

\* The whole of a handler, with a last step of any kind but a new session.
Plan(p, a, dead) ==
  /\ p \in Seq(Steps) /\ p # <<>> /\ Hurts(p, {a}) /\ Head(p)[1] # "persist"
  /\ Ordered(p) /\ \A b : Buries(p, b) => b \in dead

LEMMA Close ==
  ASSUME NEW p, NEW a, Open(p, a), NEW x \in Steps,
         x[1] \in {"sweep", "bury"}, Has(p, "save") => x[1] = "sweep",
         NEW dead, x[1] = "bury" => x[2] = dead
  PROVE  /\ Plan(p \o <<x>>, a, dead)
         /\ \A op : Has(p \o <<x>>, op) <=> Has(p, op) \/ x[1] = op
<1> DEFINE q == p \o <<x>>
<1>1. /\ p \in Seq(Steps) /\ q \in Seq(Steps) /\ Len(q) = Len(p) + 1 /\ q[Len(p) + 1] = x
      /\ \A i \in 1..Len(p) : i \in 1..Len(q) /\ q[i] = p[i]
      /\ p # <<>> => Head(q) = Head(p)
      /\ \A op : Has(q, op) <=> Has(p, op) \/ x[1] = op
  BY Added DEF Open
<1> HIDE DEF q
<1>2. \A i \in 1..Len(q) : i \in 1..Len(p) \/ i = Len(p) + 1
  BY <1>1
<1>3. Hurts(q, {a}) /\ q # <<>>
  BY <1>1, <1>2 DEF Open, Hurts
<1>4. \A i \in 1..Len(p) : q[i][1] \notin {"sweep", "bury", "persist"}
  BY <1>1 DEF Open, Has
<1>5. Ordered(q)
  <2> SUFFICES ASSUME NEW i \in 1..Len(q)
               PROVE  /\ q[i][1] \in {"sweep", "bury", "persist"} => i = Len(q)
                      /\ q[i][1] # "persist"
                      /\ q[i][1] = "save" =>
                           \A j \in 1..Len(q) : i < j => q[j][1] \in {"wipe", "go", "sweep"}
    BY DEF Ordered
  <2>1. q[i][1] \in {"sweep", "bury", "persist"} => i = Len(q)
    BY <1>1, <1>2, <1>4
  <2>2. q[i][1] # "persist"
    BY <1>1, <1>2, <1>4
  <2>3. ASSUME q[i][1] = "save", NEW j \in 1..Len(q), i < j
        PROVE  q[j][1] \in {"wipe", "go", "sweep"}
    <3>1. i \in 1..Len(p) /\ p[i][1] = "save"
      BY <1>1, <1>2, <2>3
    <3>2. CASE j \in 1..Len(p)
      BY <1>1, <2>3, <3>1, <3>2 DEF Open, Ordered
    <3>3. CASE j = Len(p) + 1
      BY <1>1, <3>1, <3>3 DEF Has
    <3> QED BY <1>2, <3>2, <3>3
  <2> QED BY <2>1, <2>2, <2>3
<1>6. \A b : Buries(q, b) => b \in dead
  BY <1>1, <1>2, <1>4 DEF Buries
<1> QED BY <1>1, <1>3, <1>5, <1>6 DEF Open, Plan, q

LEMMA OpenPlan ==
  ASSUME NEW p, NEW a, Open(p, a)
  PROVE  Plan(p, a, {})
  BY DEF Open, Plan, Has, Buries

LEMMA Singles ==
  /\ Save \in Seq(Steps) /\ \A a : Open(Save, a)
  /\ \A op : Has(Save, op) <=> op = "save"
  /\ \A s \in {"intro", "main", "next"} :
       /\ \A a : Open(Go(s), a)
       /\ \A op : Has(Go(s), op) <=> op = "go"
       /\ Step("go", s) \in Steps
  /\ Step("save", NoOne) \in Steps /\ Step("wipe", NoOne) \in Steps /\ Step("sweep", NoOne) \in Steps
  /\ \A a \in Accounts : Step("clear", a) \in Steps
  /\ \A U \in SUBSET Accounts : Step("bury", U) \in Steps
<1>1. Step("save", NoOne) \in Steps /\ Step("wipe", NoOne) \in Steps /\ Step("sweep", NoOne) \in Steps
  BY DEF Step, Steps
<1>2. \A a \in Accounts : Step("clear", a) \in Steps
  BY DEF Step, Steps
<1>3. \A U \in SUBSET Accounts : Step("bury", U) \in Steps
  BY DEF Step, Steps
<1>4. ASSUME NEW x \in Steps, x[1] \in {"save", "go"}, NEW a
      PROVE  Open(<<x>>, a) /\ <<x>> \in Seq(Steps) /\ \A op : Has(<<x>>, op) <=> op = x[1]
  <2>1. <<x>> \in Seq(Steps) /\ Len(<<x>>) = 1 /\ <<x>>[1] = x /\ Head(<<x>>) = x /\ <<x>> # <<>>
    OBVIOUS
  <2> DEFINE q == <<x>>
  <2> HIDE DEF q
  <2>2. \A i \in 1..Len(q) : i = 1
    BY <2>1 DEF q
  <2> QED BY <1>4, <2>1, <2>2 DEF q, Open, Hurts, Has, Ordered
<1>5. Step("save", NoOne)[1] = "save"
  BY DEF Step
<1>6. ASSUME NEW s \in {"intro", "main", "next"}
      PROVE  Step("go", s) \in Steps /\ Step("go", s)[1] = "go"
  BY DEF Step, Steps
<1> QED BY <1>1, <1>2, <1>3, <1>4, <1>5, <1>6 DEF Save, Go

\* The steps that every account leaves by.
LEMMA Leaving ==
  ASSUME NEW a \in Accounts
  PROVE  /\ Open(Scrub(a) \o Clear(a), a)
         /\ \A op : Has(Scrub(a) \o Clear(a), op) <=> op \in {"scrub", "clear"}
<1>1. /\ Scrub(a) \in Seq(Steps) /\ Len(Scrub(a)) = 2 /\ Scrub(a) # <<>>
      /\ Scrub(a)[1] = <<"scrub", <<a, "session">>>> /\ Scrub(a)[2] = <<"scrub", <<a, "local">>>>
      /\ Head(Scrub(a)) = <<"scrub", <<a, "session">>>>
  BY DEF Scrub, Step, Steps, Secrets, Kinds
<1>2. \A i \in 1..Len(Scrub(a)) : i = 1 \/ i = 2
  BY <1>1
<1>3. Open(Scrub(a), a) /\ \A op : Has(Scrub(a), op) <=> op = "scrub"
  BY <1>1, <1>2 DEF Open, Hurts, Has, Ordered
<1>4. Step("clear", a)[1] = "clear" /\ Step("clear", a)[2] = a
  BY DEF Step
<1> QED BY <1>3, <1>4, Singles, Continue DEF Clear

-----------------------------------------------------------------------------
(* The handlers.                                                           *)

Does(p, ops) == \A op : Has(p, op) <=> op \in ops

LEMMA Firsts ==
  /\ Step("save", NoOne)[1] = "save" /\ Step("wipe", NoOne)[1] = "wipe"
  /\ Step("sweep", NoOne)[1] = "sweep"
  /\ \A s : Step("go", s)[1] = "go"
  /\ \A U : Step("bury", U)[1] = "bury" /\ Step("bury", U)[2] = U
  BY DEF Step

LEMMA GoOn ==
  ASSUME NEW p, NEW a, Open(p, a), NEW s \in {"intro", "main", "next"}
  PROVE  /\ Open(p \o Go(s), a)
         /\ \A op : Has(p \o Go(s), op) <=> Has(p, op) \/ op = "go"
<1> DEFINE x == Step("go", s)
<1>1. x \in Steps /\ x[1] = "go"
  BY DEF Step, Steps
<1> HIDE DEF x
<1>2. Open(p \o <<x>>, a) /\ \A op : Has(p \o <<x>>, op) <=> Has(p, op) \/ x[1] = op
  BY <1>1, Continue
<1> QED BY <1>1, <1>2 DEF Go, x

LEMMA WipeOn ==
  ASSUME NEW p, NEW a, Open(p, a)
  PROVE  /\ Open(p \o WipeIfNone, a)
         /\ \A op : Has(p \o WipeIfNone, op) <=> Has(p, op) \/ op = "wipe"
<1> DEFINE x == Step("wipe", NoOne)
<1>1. x \in Steps /\ x[1] = "wipe"
  BY DEF Step, Steps
<1> HIDE DEF x
<1>2. Open(p \o <<x>>, a) /\ \A op : Has(p \o <<x>>, op) <=> Has(p, op) \/ x[1] = op
  BY <1>1, Continue
<1> QED BY <1>1, <1>2 DEF WipeIfNone, x

LEMMA SaveOn ==
  ASSUME NEW p, NEW a, Open(p, a), ~Has(p, "save")
  PROVE  /\ Open(p \o Save, a)
         /\ \A op : Has(p \o Save, op) <=> Has(p, op) \/ op = "save"
<1> DEFINE x == Step("save", NoOne)
<1>1. x \in Steps /\ x[1] = "save"
  BY DEF Step, Steps
<1> HIDE DEF x
<1>2. Open(p \o <<x>>, a) /\ \A op : Has(p \o <<x>>, op) <=> Has(p, op) \/ x[1] = op
  BY <1>1, Continue
<1> QED BY <1>1, <1>2 DEF Save, x

LEMMA SweepOn ==
  ASSUME NEW p, NEW a, Open(p, a)
  PROVE  /\ Plan(p \o Sweep, a, {})
         /\ \A op : Has(p \o Sweep, op) <=> Has(p, op) \/ op = "sweep"
<1> DEFINE x == Step("sweep", NoOne)
<1>1. x \in Steps /\ x[1] = "sweep"
  BY DEF Step, Steps
<1> HIDE DEF x
<1>2. Plan(p \o <<x>>, a, {}) /\ \A op : Has(p \o <<x>>, op) <=> Has(p, op) \/ x[1] = op
  BY <1>1, Close
<1> QED BY <1>1, <1>2 DEF Sweep, x

LEMMA BuryOn ==
  ASSUME NEW p, NEW a, Open(p, a), ~Has(p, "save"), NEW U \in SUBSET Accounts
  PROVE  /\ Plan(p \o Bury(U), a, U)
         /\ \A op : Has(p \o Bury(U), op) <=> Has(p, op) \/ op = "bury"
<1> DEFINE x == Step("bury", U)
<1>1. x \in Steps /\ x[1] = "bury" /\ x[2] = U
  BY DEF Step, Steps
<1> HIDE DEF x
<1>2. Plan(p \o <<x>>, a, U) /\ \A op : Has(p \o <<x>>, op) <=> Has(p, op) \/ x[1] = op
  BY <1>1, Close
<1> QED BY <1>1, <1>2 DEF Bury, x

LEMMA DropPlan ==
  ASSUME NEW a \in Accounts
  PROVE  /\ Plan(SignOutHere(a), a, {})
         /\ Does(SignOutHere(a), {"scrub", "clear", "wipe", "save", "go"})
         /\ Plan(Drop(a) \o Go("intro") \o Sweep, a, {})
         /\ Does(Drop(a) \o Go("intro") \o Sweep,
                 {"scrub", "clear", "wipe", "save", "go", "sweep"})
<1> DEFINE p == Scrub(a) \o Clear(a)
<1>1. Open(p, a) /\ Does(p, {"scrub", "clear"})
  BY Leaving DEF Does
<1> HIDE DEF p
<1>2. Open(p \o WipeIfNone, a) /\ Does(p \o WipeIfNone, {"scrub", "clear", "wipe"})
  BY <1>1, WipeOn DEF Does
<1> DEFINE q == p \o WipeIfNone
<1> HIDE DEF q
<1>3. Open(q \o Save, a) /\ Does(q \o Save, {"scrub", "clear", "wipe", "save"})
  BY <1>2, SaveOn DEF Does, q
<1> DEFINE r == q \o Save
<1> HIDE DEF r
<1>4. Open(r \o Go("intro"), a) /\ Does(r \o Go("intro"), {"scrub", "clear", "wipe", "save", "go"})
  BY <1>3, GoOn DEF Does, r
<1> DEFINE t == r \o Go("intro")
<1> HIDE DEF t
<1>5. Plan(t \o Sweep, a, {}) /\ Does(t \o Sweep, {"scrub", "clear", "wipe", "save", "go", "sweep"})
  BY <1>4, SweepOn DEF Does, t
<1> QED BY <1>4, <1>5, OpenPlan DEF Drop, SignOutHere, p, q, r, t

LEMMA LeavePlans ==
  ASSUME NEW a \in Accounts
  PROVE  LET p == Scrub(a) \o Clear(a) \o Save
         IN  /\ Plan(p, a, {}) /\ Does(p, {"scrub", "clear", "save"})
             /\ Plan(p \o Go("intro"), a, {})
             /\ Does(p \o Go("intro"), {"scrub", "clear", "save", "go"})
             /\ Plan(p \o Go("main") \o Sweep, a, {})
             /\ Does(p \o Go("main") \o Sweep, {"scrub", "clear", "save", "go", "sweep"})
             /\ \A s \in {"intro", "next"} :
                  /\ Plan(p \o WipeIfNone \o Go(s), a, {})
                  /\ Does(p \o WipeIfNone \o Go(s), {"scrub", "clear", "save", "wipe", "go"})
<1> DEFINE p == Scrub(a) \o Clear(a) \o Save
<1>1. Open(p, a) /\ Does(p, {"scrub", "clear", "save"})
  <2> DEFINE q == Scrub(a) \o Clear(a)
  <2>1. Open(q, a) /\ Does(q, {"scrub", "clear"})
    BY Leaving DEF Does
  <2> HIDE DEF q
  <2>2. Open(q \o Save, a) /\ Does(q \o Save, {"scrub", "clear", "save"})
    BY <2>1, SaveOn DEF Does
  <2> QED BY <2>2 DEF q
<1> HIDE DEF p
<1>2. ASSUME NEW s \in {"intro", "main", "next"}
      PROVE  Open(p \o Go(s), a) /\ Does(p \o Go(s), {"scrub", "clear", "save", "go"})
  BY <1>1, GoOn DEF Does
<1>3. /\ Plan(p \o Go("main") \o Sweep, a, {})
      /\ Does(p \o Go("main") \o Sweep, {"scrub", "clear", "save", "go", "sweep"})
  <2> DEFINE q == p \o Go("main")
  <2>1. Open(q, a) /\ Does(q, {"scrub", "clear", "save", "go"})
    BY <1>2
  <2> HIDE DEF q
  <2>2. /\ Plan(q \o Sweep, a, {})
        /\ Does(q \o Sweep, {"scrub", "clear", "save", "go", "sweep"})
    BY <2>1, SweepOn DEF Does
  <2> QED BY <2>2 DEF q
<1>4. Open(p \o WipeIfNone, a) /\ Does(p \o WipeIfNone, {"scrub", "clear", "save", "wipe"})
  BY <1>1, WipeOn DEF Does
<1>5. ASSUME NEW s \in {"intro", "next"}
      PROVE  /\ Open(p \o WipeIfNone \o Go(s), a)
             /\ Does(p \o WipeIfNone \o Go(s), {"scrub", "clear", "save", "wipe", "go"})
  <2> DEFINE q == p \o WipeIfNone
  <2> HIDE DEF q
  <2>1. /\ Open(q \o Go(s), a)
        /\ Does(q \o Go(s), {"scrub", "clear", "save", "wipe", "go"})
    BY <1>4, GoOn DEF Does, q
  <2> QED BY <2>1 DEF q
<1> QED BY <1>1, <1>2, <1>3, <1>5, OpenPlan DEF p

\* One step alone.
LEMMA Alone ==
  ASSUME NEW x \in Steps, x[1] \in {"bury", "persist", "sweep"}
  PROVE  /\ <<x>> \in Seq(Steps) /\ Ordered(<<x>>) /\ \A S : Hurts(<<x>>, S)
         /\ Does(<<x>>, {x[1]}) /\ Head(<<x>>) = x /\ <<x>> # <<>>
         /\ \A a : Buries(<<x>>, a) <=> x[1] = "bury" /\ a \in x[2]
<1>1. <<x>> \in Seq(Steps) /\ Len(<<x>>) = 1 /\ <<x>>[1] = x /\ Head(<<x>>) = x /\ <<x>> # <<>>
  OBVIOUS
<1> DEFINE q == <<x>>
<1> HIDE DEF q
<1>2. \A i \in 1..Len(q) : i = 1
  BY <1>1 DEF q
<1>3. Ordered(q) /\ (\A S : Hurts(q, S)) /\ Does(q, {x[1]})
  BY <1>1, <1>2 DEF q, Ordered, Hurts, Does, Has
<1>4. \A a : Buries(q, a) <=> x[1] = "bury" /\ a \in x[2]
  BY <1>1, <1>2 DEF q, Buries
<1> QED BY <1>1, <1>3, <1>4 DEF q

LEMMA SavePlans ==
  ASSUME NEW a
  PROVE  /\ Plan(Save, a, {}) /\ Does(Save, {"save"})
         /\ Plan(Sweep, a, {}) /\ Does(Sweep, {"sweep"})
         /\ Plan(Go("main") \o Sweep, a, {}) /\ Does(Go("main") \o Sweep, {"go", "sweep"})
         /\ Plan(<<>> \o Save \o Go("main") \o Sweep, a, {})
         /\ Does(<<>> \o Save \o Go("main") \o Sweep, {"save", "go", "sweep"})
<1>1. Open(Save, a) /\ Does(Save, {"save"}) /\ <<>> \o Save = Save
  BY Singles, ConcatEmptySeq DEF Does
<1>2. Open(Go("main"), a) /\ Does(Go("main"), {"go"})
  BY Singles DEF Does
<1>3. Plan(Go("main") \o Sweep, a, {}) /\ Does(Go("main") \o Sweep, {"go", "sweep"})
  <2> DEFINE q == Go("main")
  <2> HIDE DEF q
  <2>1. Plan(q \o Sweep, a, {}) /\ Does(q \o Sweep, {"go", "sweep"})
    BY <1>2, SweepOn DEF Does, q
  <2> QED BY <2>1 DEF q
<1>4. Plan(Sweep, a, {}) /\ Does(Sweep, {"sweep"})
  <2> DEFINE x == Step("sweep", NoOne)
  <2>1. x \in Steps /\ x[1] = "sweep"
    BY Singles, Firsts
  <2> HIDE DEF x
  <2>2. Plan(<<x>>, a, {}) /\ Does(<<x>>, {"sweep"})
    BY <2>1, Alone DEF Plan
  <2> QED BY <2>2 DEF Sweep, x
<1> DEFINE r == Save
<1> HIDE DEF r
<1>5. Open(r \o Go("main"), a) /\ Does(r \o Go("main"), {"save", "go"})
  BY <1>1, GoOn DEF Does, r
<1> DEFINE q == r \o Go("main")
<1> HIDE DEF q
<1>6. Plan(q \o Sweep, a, {}) /\ Does(q \o Sweep, {"save", "go", "sweep"})
  BY <1>5, SweepOn DEF Does, q
<1> QED BY <1>1, <1>3, <1>6, <1>4, OpenPlan DEF q, r

LEMMA BuryPlans ==
  ASSUME NEW a \in Accounts, NEW U \in SUBSET Accounts
  PROVE  /\ Plan(Scrub(a) \o Clear(a) \o Save \o <<>>, a, U)
         /\ Does(Scrub(a) \o Clear(a) \o Save \o <<>>, {"scrub", "clear", "save"})
         /\ Plan(Scrub(a) \o Clear(a) \o Bury(U) \o <<>>, a, U)
         /\ Does(Scrub(a) \o Clear(a) \o Bury(U) \o <<>>, {"scrub", "clear", "bury"})
<1> DEFINE q == Scrub(a) \o Clear(a)
<1>1. Open(q, a) /\ Does(q, {"scrub", "clear"})
  BY Leaving DEF Does
<1> HIDE DEF q
<1>2. /\ Plan(q \o Bury(U), a, U)
      /\ Does(q \o Bury(U), {"scrub", "clear", "bury"})
  BY <1>1, BuryOn DEF Does
<1>3. Scrub(a) \o Clear(a) \o Save \o <<>> = Scrub(a) \o Clear(a) \o Save
  BY LeavePlans, ConcatEmptySeq DEF Plan
<1>4. q \o Bury(U) \o <<>> = q \o Bury(U)
  BY <1>2, ConcatEmptySeq DEF Plan
<1>5. Plan(Scrub(a) \o Clear(a) \o Save, a, U)
  BY LeavePlans DEF Plan
<1> QED BY <1>2, <1>3, <1>4, <1>5, LeavePlans DEF q

-----------------------------------------------------------------------------
(* What carries the invariant over a step.                                 *)

LEMMA SignedInDef ==
  \A s \in Settings : SignedIn(s) \subseteq Accounts /\ \A a \in Accounts : s.marker[a] # "none" <=> a \in SignedIn(s)
  BY DEF SignedIn, Settings

LEMMA MineSecrets ==
  ASSUME NEW a \in Accounts
  PROVE  Mine(a) \subseteq Secrets /\ Mine(a) # {}
         /\ \A x \in Mine(a) : x[1] = a
<1>1. Mine(a) \subseteq Secrets /\ \A x \in Mine(a) : x[1] = a
  BY DEF Mine, Secrets
<1>2. <<a, "session">> \in Mine(a)
  BY DEF Mine, Kinds
<1> QED BY <1>1, <1>2

LEMMA NoComing ==
  ASSUME NEW p \in Seq(Steps), ~Has(p, "persist")
  PROVE  p = <<>> \/ Head(p)[1] # "persist"
<1> SUFFICES ASSUME p # <<>> PROVE Head(p)[1] # "persist"
  OBVIOUS
<1>1. 1 \in 1..Len(p) /\ Head(p) = p[1]
  BY Popped
<1> QED BY <1>1 DEF Has

LEMMA NothingLeft ==
  /\ <<>> \in Seq(Steps) /\ Ordered(<<>>) /\ \A S : Hurts(<<>>, S)
  /\ \A op : ~Has(<<>>, op)
  /\ \A a : ~Buries(<<>>, a)
  BY DEF Ordered, Hurts, Has, Buries

LEMMA AtIdle ==
  ASSUME Inv, Idle
  PROVE  Coming = {} /\ (screen \in {"locked", "token"} => active \in SignedIn(mem))
         /\ Known = SignedIn(mem) \ Excused /\ \A a : ~Buries(todo, a)
  BY NothingLeft DEF Inv, Handlers, Idle, Coming, Doing, Known

\* Nobody's handler runs after the step.
LEMMA HandlersIdle ==
  ASSUME Inv, todo' = <<>>, mem' \in {mem, disk}, disk' = disk, Excused \subseteq Excused',
         active' \in SignedIn(mem') \union {NoOne},
         screen' \in {"locked", "token"} => active' \in SignedIn(mem'),
         screen' = "off" => mem' = disk
  PROVE  Handlers' /\ Coming' = {} /\ Known' \subseteq Known /\ \A a : ~Buries(todo', a)
<1>1. Coming' = {}
  BY DEF Coming, Doing
<1>2. SignedIn(disk)' = SignedIn(disk) /\ SignedIn(mem)' = SignedIn(mem')
      /\ SignedIn(mem') \in {SignedIn(mem), SignedIn(disk)}
  BY DEF SignedIn
<1>3. Known' \subseteq Known /\ SignedIn(disk)' \ Excused' \subseteq SignedIn(mem)'
  BY <1>1, <1>2 DEF Known, Inv, Handlers
<1>4. \A a : ~Buries(todo', a)
  BY NothingLeft
<1>5. todo' \in Seq(Steps) /\ Ordered(todo') /\ Hurts(todo', Excused')
  BY NothingLeft
<1>6. (Idle)'
  BY DEF Idle
<1> QED BY <1>1, <1>3, <1>4, <1>2, <1>5, <1>6 DEF Handlers

\* A handler begins: its steps are those of a plan.
LEMMA HandlersBegin ==
  ASSUME Inv, NEW a, NEW ops, Plan(todo', a, {}), Does(todo', ops),
         a \in Excused' \/ ops \intersect {"scrub", "clear"} = {},
         "persist" \notin ops, disk' = disk, Excused \subseteq Excused',
         SignedIn(mem) \subseteq SignedIn(mem'), active' \in SignedIn(mem') \union {NoOne},
         screen' \in {"locked", "token"} => "go" \in ops, screen' # "off"
  PROVE  Handlers' /\ Coming' = {} /\ \A b : ~Buries(todo', b)
<1>1. todo' \in Seq(Steps) /\ Ordered(todo') /\ todo' # <<>> /\ \A b : ~Buries(todo', b)
  BY DEF Plan
<1>2. Coming' = {}
  <2>1. Head(todo')[1] # "persist"
    BY DEF Plan
  <2> QED BY <2>1 DEF Coming, Doing
<1>3. Hurts(todo', Excused')
  <2>1. CASE a \in Excused'
    BY <2>1 DEF Plan, Hurts
  <2>2. CASE ops \intersect {"scrub", "clear"} = {}
    <3>1. ~Has(todo', "scrub") /\ ~Has(todo', "clear")
      BY <2>2 DEF Does
    <3> QED BY <3>1 DEF Has, Hurts
  <2> QED BY <2>1, <2>2
<1>4. screen' \in {"locked", "token"} => Has(todo', "go")
  BY DEF Does
<1>5. SignedIn(disk)' \ Excused' \subseteq SignedIn(mem)'
  BY DEF SignedIn, Inv, Handlers
<1> QED BY <1>1, <1>2, <1>3, <1>4, <1>5 DEF Handlers, SignedIn

\* The copies stay; the cache may have been filled or forgotten, the vault unlocked.
Untouched(s, t) ==
  /\ t \in Stores
  /\ t.item = s.item /\ t.file = s.file /\ t.backend = s.backend
  /\ t.key \in {s.key, 0, s.file.key}
  /\ t.cache \in {s.cache, Cold, Warm({}), Warm(Held(s))}

LEMMA StoreStays ==
  ASSUME Inv, Untouched(store, store'), causes' = causes,
         Unflipped => Marked', Known' \subseteq Known,
         \A a \in Accounts \ Excused' : Buries(todo', a) =>
           (a \notin Excused /\ Buries(todo, a)) \/ (Unflipped => ~(Mine(a) \subseteq Held(store)))
  PROVE  store' \in Stores /\ FileSound' /\ (Unflipped => OneCopy)' /\ (causes = {} => Kept)'
<1>1. Held(store') = Held(store) /\ Other(store') = Other(store)
  BY DEF Untouched, Held, Other
<1>2. FileSound'
  BY DEF Untouched, Inv, FileSound
<1>3. ASSUME Unflipped' PROVE OneCopy'
  <2>1. Unflipped /\ OneCopy
    BY <1>3 DEF Unflipped, Inv
  <2>2. Marked'
    BY <2>1
  <2>3. ASSUME NEW a \in Known'
        PROVE  /\ Mine(a) \intersect Other(store') = {}
               /\ Agrees(store', a)
               /\ Opened(store')
    <3>1. Mine(a) \intersect Other(store) = {} /\ Agrees(store, a) /\ Opened(store)
      BY <2>1, <2>3 DEF OneCopy
    <3>2. Agrees(store', a)
      <4>1. CASE store'.cache = store.cache
        BY <1>1, <3>1, <4>1 DEF Agrees
      <4>2. CASE store'.cache \in {Cold, Warm({}), Warm(Held(store))}
        BY <1>1, <4>2 DEF Agrees, Cold, Warm
      <4> QED BY <4>1, <4>2 DEF Untouched
    <3>3. Opened(store')
      BY <3>1 DEF Opened, Untouched
    <3> QED BY <1>1, <3>1, <3>2, <3>3
  <2>4. \A a \in Accounts \ Excused' : Buries(todo', a) => ~(Mine(a) \subseteq Held(store'))
    BY <1>1, <2>1 DEF OneCopy
  <2> QED BY <2>2, <2>3, <2>4 DEF OneCopy, Mine
<1>4. ASSUME causes' = {} PROVE Kept'
  <2>1. Kept
    BY <1>4 DEF Inv
  <2> QED BY <1>1, <2>1 DEF Kept, Mine
<1>5. store' \in Stores
  BY DEF Untouched
<1> QED BY <1>2, <1>3, <1>4, <1>5

\* Nothing is saved, no new marker is set.
LEMMA MarkedStays ==
  ASSUME Inv, disk' = disk, store'.backend = store.backend, Excused \subseteq Excused',
         \A a \in Accounts : mem'.marker[a] \in {"none", mem.marker[a]}, screen # "off"
  PROVE  Unflipped => Marked'
  BY DEF Inv, OneCopy, Marked, SignedIn

LEMMA MarkedDies ==
  ASSUME Inv, disk' = disk, store'.backend = store.backend, Excused' = Excused, screen' = "off"
  PROVE  Unflipped => Marked'
  BY DEF Inv, OneCopy, Marked, SignedIn

LEMMA LookTouches ==
  ASSUME Inv, NEW m \in Moods
  PROVE  /\ Untouched(store, Looked(m)) /\ Untouched(store, store) /\ Untouched(store, Forgotten(store))
         /\ Seen(m) \subseteq Secrets /\ Held(store) \subseteq Secrets
<1>1. store \in Stores
  BY DEF Inv, TypeOK
<1>2. Held(store) \subseteq Secrets /\ Seen(m) \subseteq Secrets
  BY <1>1 DEF Stores, Held, Seen
<1>3. Untouched(store, store)
  BY <1>1 DEF Untouched
<1>4. Untouched(store, Forgotten(store))
  BY <1>1 DEF Untouched, Forgotten, Cold, Stores
<1>5. Untouched(store, Looked(m))
  <2>1. CASE ~CanLook(m)
    BY <1>3, <2>1 DEF Looked
  <2>2. CASE CanLook(m)
    <3>1. Looked(m) = [store EXCEPT !.cache = Warm(Seen(m))]
      BY <2>2 DEF Looked, Cached
    <3>2. Warm(Seen(m)) \in {store.cache, Warm({}), Warm(Held(store))}
      BY <1>1 DEF Seen, Warm, Stores
    <3>3. Looked(m) \in Stores
      <4>1. Warm(Seen(m)) \in [full : BOOLEAN, held : SUBSET Secrets]
        BY <1>2 DEF Warm
      <4> QED BY <1>1, <3>1, <4>1 DEF Stores
    <3> QED BY <1>1, <3>1, <3>2, <3>3 DEF Untouched, Stores
  <2> QED BY <2>1, <2>2
<1> QED BY <1>2, <1>3, <1>4, <1>5

\* A bundle that can be seen is empty or holds, of every account, what the store holds.
LEMMA Visible ==
  ASSUME Inv, Unflipped, NEW m \in Moods, NEW a \in Known
  PROVE  Seen(m) = {} \/ Mine(a) \intersect Seen(m) = Mine(a) \intersect Held(store)
<1>1. Agrees(store, a)
  BY DEF Inv, OneCopy
<1> QED BY <1>1 DEF Agrees, Seen

\* A signed-in account that has all its secrets somewhere has them in the active copy.
LEMMA WholeIsHeld ==
  ASSUME Inv, Unflipped, NEW a \in Known
  PROVE  Whole(a) <=> Mine(a) \subseteq Held(store)
<1>1. Mine(a) \intersect Other(store) = {} /\ a \in Accounts
  BY SignedInDef DEF Inv, TypeOK, OneCopy, Known, Coming
<1>2. store.backend \in {"keychain", "vault"}
  BY DEF Inv, TypeOK, Stores
<1> QED BY <1>1, <1>2, MineSecrets DEF Whole, Held, Other

\* No reading of the store takes such an account for incomplete, or for absent where
\* another one is seen complete.
LEMMA Earned ==
  ASSUME Inv, Unflipped, NEW m \in Moods, NEW a \in SignedIn(mem) \ Excused, Whole(a)
  PROVE  /\ Class(m, a) # "Incomplete"
         /\ Class(m, a) = "AllAbsent" => \A b \in SignedIn(mem) : Class(m, b) # "Complete"
         /\ State(m) # "VaultAbsent"
<1>1. a \in Known /\ a \in Accounts
  BY SignedInDef DEF Inv, TypeOK, Known
<1>2. Mine(a) \subseteq Held(store) /\ Mine(a) # {}
  BY <1>1, WholeIsHeld, MineSecrets
<1>3. Seen(m) = {} \/ Mine(a) \subseteq Seen(m)
  BY <1>1, <1>2, Visible
<1>4. Class(m, a) # "Incomplete"
  BY <1>2, <1>3 DEF Class
<1>5. Class(m, a) = "AllAbsent" => \A b \in SignedIn(mem) : Class(m, b) # "Complete"
  <2> SUFFICES ASSUME Class(m, a) = "AllAbsent", NEW b \in SignedIn(mem), Class(m, b) = "Complete"
               PROVE  FALSE
    OBVIOUS
  <2>1. Mine(b) # {} /\ Mine(b) \subseteq Seen(m)
    BY MineSecrets, SignedInDef DEF Inv, TypeOK, Class
  <2> QED BY <1>2, <1>3, <2>1 DEF Class
<1>6. State(m) # "VaultAbsent"
  <2> SUFFICES ASSUME store.backend # "keychain", store.file.key = 0 PROVE FALSE
    BY DEF State
  <2>1. Held(store) = {}
    BY DEF Inv, FileSound, Held
  <2> QED BY <1>2, <2>1
<1> QED BY <1>4, <1>5, <1>6

-----------------------------------------------------------------------------
(* Start-up, and everything that leaves the copies alone.                  *)

\* The parts of TypeOK that concern the screens and the accounts given up.
Shown(scr, emb, ask, drp) ==
  /\ scr \in Screens /\ emb \in BOOLEAN /\ ask \subseteq Accounts /\ drp \subseteq Accounts

LEMMA SettingsSame ==
  ASSUME mem' \in Settings, mem'.marker = mem.marker, disk' = disk
  PROVE  SignedIn(mem') = SignedIn(mem) /\ SignedIn(disk') = SignedIn(disk)
  BY DEF SignedIn

LEMMA CalmIdle ==
  ASSUME Inv, Idle, mem' = mem, disk' = disk, causes' = causes, Untouched(store, store'),
         todo' = <<>>, Excused \subseteq Excused',
         Shown(screen, embedded, asked, dropped)',
         active' \in SignedIn(mem) \union {NoOne},
         screen' \in {"locked", "token"} => active' \in SignedIn(mem),
         screen # "off", screen' # "off"
  PROVE  Inv'
<1>1. mem \in Settings /\ SignedIn(mem) \subseteq Accounts
  BY SignedInDef DEF Inv, TypeOK
<1>2. Handlers' /\ Coming' = {} /\ Known' \subseteq Known /\ \A a : ~Buries(todo', a)
  BY HandlersIdle
<1>3. Unflipped => Marked'
  BY MarkedStays DEF Untouched
<1>4. store' \in Stores /\ FileSound' /\ (Unflipped => OneCopy)' /\ (causes = {} => Kept)'
  BY <1>2, <1>3, StoreStays
<1>5. TypeOK'
  BY <1>1, <1>4 DEF Inv, TypeOK, Shown, Screens
<1> QED BY <1>2, <1>4, <1>5 DEF Inv

LEMMA CalmBegin ==
  ASSUME Inv, Idle, mem' \in Settings, mem'.marker = mem.marker, disk' = disk, causes' = causes,
         Untouched(store, store'),
         NEW a, NEW ops, Plan(todo', a, {}), Does(todo', ops),
         a \in Excused' \/ ops \intersect {"scrub", "clear"} = {},
         "persist" \notin ops,
         Excused \subseteq Excused', Shown(screen, embedded, asked, dropped)',
         active' \in SignedIn(mem) \union {NoOne},
         screen' \in {"locked", "token"} => "go" \in ops, screen # "off", screen' # "off"
  PROVE  Inv'
<1>1. SignedIn(mem) \subseteq Accounts /\ SignedIn(mem') = SignedIn(mem)
  BY SignedInDef, SettingsSame DEF Inv, TypeOK
<1>2. Handlers' /\ Coming' = {} /\ \A b : ~Buries(todo', b)
  BY <1>1, HandlersBegin
<1>3. Known' \subseteq Known
  BY <1>1, <1>2 DEF Known, SignedIn
<1>4. Unflipped => Marked'
  BY MarkedStays DEF Untouched
<1>5. store' \in Stores /\ FileSound' /\ (Unflipped => OneCopy)' /\ (causes = {} => Kept)'
  BY <1>2, <1>3, <1>4, StoreStays
<1>6. TypeOK'
  BY <1>1, <1>5 DEF Inv, TypeOK, Shown, Screens
<1> QED BY <1>2, <1>5, <1>6 DEF Inv

LEMMA Showing ==
  ASSUME Inv
  PROVE  /\ Shown(screen, embedded, asked, dropped)
         /\ SignedIn(mem) \subseteq Accounts /\ SignedIn(disk) \subseteq Accounts
         /\ mem \in Settings /\ disk \in Settings
  BY SignedInDef DEF Inv, TypeOK, Shown, Screens

LEMMA GateKeeps ==
  ASSUME Inv, NEW m \in Moods, Gate(m)
  PROVE  Inv'
<1>1. Idle /\ todo = <<>> /\ screen = "gate" /\ active \in SignedIn(mem) \union {NoOne}
  BY DEF Gate, Idle, Inv, Handlers
<1>2. mem' = mem /\ disk' = disk /\ causes' = causes /\ active' = active /\ asked' = asked /\ embedded' = FALSE
  BY DEF Gate
<1>3. Untouched(store, store')
  BY LookTouches DEF Gate
<1>4. CASE todo' = todo /\ dropped' = dropped /\ active # NoOne /\ screen' \in {"locked", "token"}
  <2>1. Shown(screen, embedded, asked, dropped)' /\ Excused' = Excused
    BY <1>2, <1>4, Showing DEF Shown, Screens, Excused
  <2> QED BY <1>1, <1>2, <1>3, <1>4, <2>1, CalmIdle
<1>5. CASE todo' = Sweep /\ dropped' = dropped /\ active = NoOne /\ screen' = "intro"
  <2>1. Shown(screen, embedded, asked, dropped)' /\ Excused' = Excused
    BY <1>2, <1>5, Showing DEF Shown, Screens, Excused
  <2>2. Plan(todo', active, {}) /\ Does(todo', {"sweep"})
    BY <1>5, SavePlans
  <2> QED BY <1>1, <1>2, <1>3, <1>5, <2>1, <2>2, CalmBegin, Showing
<1>6. CASE todo' = Drop(active) \o Go("intro") \o Sweep /\ dropped' = dropped \union {active}
           /\ active # NoOne /\ screen' = screen
  <2>1. active \in Accounts
    BY <1>1, <1>6, Showing
  <2>2. /\ Plan(todo', active, {})
        /\ Does(todo', {"scrub", "clear", "wipe", "save", "go", "sweep"})
    BY <1>6, <2>1, DropPlan
  <2>3. active \in Excused' /\ Excused \subseteq Excused' /\ Shown(screen, embedded, asked, dropped)'
    BY <1>2, <1>6, <2>1, Showing DEF Excused, Shown
  <2>4. screen' # "off"
    BY <1>6 DEF Gate
  <2> QED BY <1>1, <1>2, <1>3, <2>2, <2>3, <2>4, CalmBegin, Showing
<1> QED BY <1>4, <1>6, <1>5 DEF Gate

LEMMA LockedKeeps ==
  ASSUME Inv, NEW m \in Moods, UnlockVault(m) \/ ResetVault(m) \/ Recover(m)
  PROVE  Inv'
<1>1. Idle /\ todo = <<>> /\ screen = "locked" /\ active \in SignedIn(mem) /\ active \in Accounts
  BY AtIdle, Showing DEF UnlockVault, ResetVault, Recover, Idle
<1>2. mem' = mem /\ disk' = disk /\ causes' = causes /\ active' = active /\ embedded' = embedded
  BY DEF UnlockVault, ResetVault, Recover
<1>3. Untouched(store, store')
  <2>1. CASE UnlockVault(m)
    <3>1. store \in Stores /\ store' = [store EXCEPT !.key = store.file.key, !.cache = Warm(store.file.held)]
      BY <2>1 DEF UnlockVault, Unlocked, Inv, TypeOK
    <3>2. store.backend = "vault" /\ Held(store) = store.file.held
      BY <2>1, <3>1 DEF UnlockVault, State, Stores, Held
    <3>3. store.file.key \in 0..MaxKey /\ Warm(store.file.held) \in [full : BOOLEAN, held : SUBSET Secrets]
      BY <3>1 DEF Stores, Warm
    <3>4. store' \in Stores
      BY <3>1, <3>3 DEF Stores
    <3> QED BY <3>1, <3>2, <3>4 DEF Untouched, Stores
  <2>2. CASE ResetVault(m) \/ Recover(m)
    BY <2>2, LookTouches DEF ResetVault, Recover
  <2> QED BY <2>1, <2>2
<1>4. CASE todo' = todo /\ UNCHANGED <<asked, dropped>> /\ screen' = "token"
  BY <1>1, <1>2, <1>3, <1>4, CalmIdle, Showing DEF Shown, Screens, Excused
<1>5. CASE /\ todo' = Drop(active) \o Go("intro") \o Sweep /\ screen' = screen /\ screen # "off"
           /\ \/ asked' = asked \union {active} /\ dropped' = dropped
              \/ dropped' = dropped \union {active} /\ asked' = asked
  <2>1. /\ Plan(todo', active, {})
        /\ Does(todo', {"scrub", "clear", "wipe", "save", "go", "sweep"})
    BY <1>1, <1>5, DropPlan
  <2>2. active \in Excused' /\ Excused \subseteq Excused' /\ Shown(screen, embedded, asked, dropped)'
    BY <1>1, <1>2, <1>5, Showing DEF Excused, Shown
  <2> QED BY <1>1, <1>2, <1>3, <1>5, <2>1, <2>2, CalmBegin, Showing
<1>6. UnlockVault(m) => todo' = todo /\ UNCHANGED <<asked, dropped>> /\ screen' = "token"
  BY DEF UnlockVault
<1>7. ResetVault(m) => /\ todo' = Drop(active) \o Go("intro") \o Sweep /\ screen' = screen /\ screen # "off"
                       /\ asked' = asked \union {active} /\ dropped' = dropped
  BY DEF ResetVault
<1>8. Recover(m) => \/ todo' = todo /\ UNCHANGED <<asked, dropped>> /\ screen' = "token"
                    \/ /\ todo' = Drop(active) \o Go("intro") \o Sweep /\ screen' = screen /\ screen # "off"
                       /\ dropped' = dropped \union {active} /\ asked' = asked
  BY DEF Recover
<1> QED BY <1>4, <1>5, <1>6, <1>7, <1>8

LEMMA TokenKeeps ==
  ASSUME Inv, NEW m \in Moods, ReadToken(m) \/ TryAgain(m) \/ GiveUpToken(m)
  PROVE  Inv'
<1>1. Idle /\ todo = <<>> /\ active \in SignedIn(mem) /\ active \in Accounts
      /\ screen = "token"
  BY AtIdle, Showing DEF ReadToken, TryAgain, GiveUpToken, Idle
<1>2. mem' = mem /\ disk' = disk /\ causes' = causes /\ active' = active /\ embedded' = embedded
      /\ screen' = screen
  BY DEF ReadToken, TryAgain, GiveUpToken
<1>3. Untouched(store, store')
  BY LookTouches DEF ReadToken, TryAgain, GiveUpToken
<1>4. CASE todo' = todo /\ UNCHANGED <<asked, dropped>>
  BY <1>1, <1>2, <1>3, <1>4, CalmIdle, Showing DEF Shown, Screens, Excused
<1>5. CASE todo' = Go("main") \o Sweep /\ UNCHANGED <<asked, dropped>>
  <2>1. Plan(todo', active, {}) /\ Does(todo', {"go", "sweep"})
    BY <1>5, SavePlans
  <2> QED BY <1>1, <1>2, <1>3, <1>5, <2>1, CalmBegin, Showing DEF Shown, Excused
<1>6. CASE /\ todo' = SignOutHere(active)
           /\ \/ asked' = asked \union {active} /\ dropped' = dropped
              \/ dropped' = dropped \union {active} /\ asked' = asked
  <2>1. /\ Plan(todo', active, {})
        /\ Does(todo', {"scrub", "clear", "wipe", "save", "go"})
    BY <1>1, <1>6, DropPlan
  <2>2. active \in Excused' /\ Excused \subseteq Excused' /\ Shown(screen, embedded, asked, dropped)'
    BY <1>1, <1>2, <1>6, Showing DEF Excused, Shown
  <2> QED BY <1>1, <1>2, <1>3, <2>1, <2>2, CalmBegin, Showing
<1> QED BY <1>4, <1>5, <1>6 DEF ReadToken, TryAgain, GiveUpToken

LEMMA FormKeeps ==
  ASSUME Inv, NEW m \in Moods, CleanUp(m) \/ NeedPassword(m) \/ AddAccount(m) \/ UseVault(m)
  PROVE  Inv'
<1>1. Idle /\ todo = <<>> /\ active \in SignedIn(mem) \union {NoOne} /\ screen # "off"
  BY AtIdle DEF CleanUp, NeedPassword, AddAccount, UseVault, Idle, Inv, Handlers
<1>2. disk' = disk /\ causes' = causes /\ active' = active /\ asked' = asked /\ dropped' = dropped
      /\ screen' \in {"intro", "create"}
      /\ embedded' \in BOOLEAN
  BY Showing DEF CleanUp, NeedPassword, AddAccount, UseVault, Shown
<1>3. Untouched(store, store')
  BY LookTouches DEF CleanUp, NeedPassword, AddAccount, UseVault
<1>4. Shown(screen, embedded, asked, dropped)' /\ Excused' = Excused
  BY <1>2, Showing DEF Shown, Screens, Excused
<1>5. CASE mem' = mem /\ todo' = todo
  BY <1>1, <1>2, <1>3, <1>4, <1>5, CalmIdle
<1>6. CASE mem' = [mem EXCEPT !.preferred = "vault"] /\ todo' = Save
  <2>1. mem' \in Settings /\ mem'.marker = mem.marker
    BY <1>6, Showing DEF Settings
  <2>2. Plan(todo', NoOne, {}) /\ Does(todo', {"save"})
    BY <1>6, SavePlans
  <2> QED BY <1>1, <1>2, <1>3, <1>4, <2>1, <2>2, CalmBegin
<1> QED BY <1>5, <1>6 DEF CleanUp, NeedPassword, AddAccount, UseVault, Prefer

LEMMA ScreenKeeps ==
  ASSUME Inv, CloseForm \/ SwitchAccount \/ ShowNext
  PROVE  Inv'
<1>1. Idle /\ todo = <<>> /\ active \in SignedIn(mem) \union {NoOne} /\ screen # "off"
  BY AtIdle DEF CloseForm, SwitchAccount, ShowNext, Idle, Inv, Handlers
<1>2. mem' = mem /\ disk' = disk /\ causes' = causes /\ asked' = asked /\ dropped' = dropped
      /\ todo' = todo /\ store' = store /\ screen' \in {"main", "intro"} /\ embedded' \in BOOLEAN
      /\ active' \in SignedIn(mem) \union {NoOne}
  BY <1>1, Showing DEF CloseForm, SwitchAccount, ShowNext, Shown
<1>3. Untouched(store, store')
  BY <1>2, LookTouches DEF Moods
<1>4. Shown(screen, embedded, asked, dropped)' /\ Excused' = Excused
  BY <1>2, Showing DEF Shown, Screens, Excused
<1> QED BY <1>1, <1>2, <1>3, <1>4, CalmIdle

LEMMA SignOutKeeps ==
  ASSUME Inv, SignOut \/ GiveUpRestore \/ (\E a \in Accounts : SignOutOther(a))
  PROVE  Inv'
<1>1. Idle /\ todo = <<>> /\ active \in SignedIn(mem) \union {NoOne} /\ screen = "main"
  BY AtIdle DEF SignOut, GiveUpRestore, SignOutOther, Idle, Inv, Handlers
<1>2. mem' = mem /\ disk' = disk /\ causes' = causes /\ dropped' = dropped
      /\ store' = store /\ screen' = screen /\ embedded' = embedded /\ active' = active
  BY DEF SignOut, GiveUpRestore, SignOutOther
<1>3. Untouched(store, store')
  BY <1>2, LookTouches DEF Moods
<1>4. ASSUME NEW a \in SignedIn(mem), asked' = asked \union {a},
             NEW ops, Plan(todo', a, {}), Does(todo', ops), "save" \in ops, "persist" \notin ops
      PROVE  Inv'
  <2>1. Shown(screen, embedded, asked, dropped)' /\ Excused \subseteq Excused' /\ a \in Excused'
    BY <1>2, <1>4, Showing DEF Shown, Screens, Excused
  <2> QED BY <1>1, <1>2, <1>3, <1>4, <2>1, Showing, CalmBegin
<1>5. CASE SignOut
  <2>1. active \in SignedIn(mem) /\ active \in Accounts
    BY <1>1, <1>5, Showing DEF SignOut
  <2>2. PICK s \in {"intro", "next"} :
          todo' = Scrub(active) \o Clear(active) \o Save \o WipeIfNone \o Go(s)
    BY <1>5 DEF SignOut
  <2>3. Plan(todo', active, {}) /\ Does(todo', {"scrub", "clear", "save", "wipe", "go"})
    BY <2>1, <2>2, LeavePlans
  <2> QED BY <1>4, <1>5, <2>1, <2>3 DEF SignOut
<1>6. CASE GiveUpRestore
  <2>1. active \in SignedIn(mem) /\ active \in Accounts
    BY <1>1, <1>6, Showing DEF GiveUpRestore
  <2>2. Plan(todo', active, {}) /\ Does(todo', {"scrub", "clear", "save", "go"})
    BY <1>6, <2>1, LeavePlans DEF GiveUpRestore
  <2> QED BY <1>4, <1>6, <2>1, <2>2 DEF GiveUpRestore
<1>7. ASSUME NEW a \in Accounts, SignOutOther(a) PROVE Inv'
  <2>1. Plan(todo', a, {}) /\ Does(todo', {"scrub", "clear", "save"})
    BY <1>7, LeavePlans DEF SignOutOther
  <2> QED BY <1>4, <1>7, <2>1 DEF SignOutOther
<1> QED BY <1>5, <1>6, <1>7

LEMMA ReadKeeps ==
  ASSUME Inv, NEW m \in Moods, BackgroundRead(m)
  PROVE  Inv'
<1>1. /\ store' = Looked(m)
      /\ UNCHANGED <<mem, disk, active, screen, embedded, todo, asked, dropped, causes>>
  BY DEF BackgroundRead
<1>2. Untouched(store, store')
  BY <1>1, LookTouches
<1>3. Coming' = Coming /\ Excused' = Excused /\ Known' = Known
  BY <1>1 DEF Coming, Doing, Arg, Excused, Known
<1>4. Unflipped => Marked'
  BY <1>1, <1>2, <1>3, MarkedStays DEF Untouched, BackgroundRead
<1>5. store' \in Stores /\ FileSound' /\ (Unflipped => OneCopy)' /\ (causes = {} => Kept)'
  BY <1>1, <1>2, <1>3, <1>4, StoreStays
<1>6. \A a \in Coming' : /\ store'.cache.full /\ Mine(a) \subseteq store'.cache.held
                         /\ store'.backend = "vault" => store'.key # 0
  <2> SUFFICES ASSUME NEW a \in Coming
               PROVE  /\ store'.cache.full /\ Mine(a) \subseteq store'.cache.held
                      /\ store'.backend = "vault" => store'.key # 0
    BY <1>3
  <2>1. /\ store.cache.full /\ Mine(a) \subseteq store.cache.held
        /\ store.backend = "vault" => store.key # 0
    BY DEF Inv, Handlers
  <2>2. store \in Stores /\ store' = [store EXCEPT !.cache = Warm(store.cache.held)]
    BY <1>1, <2>1 DEF Looked, CanLook, Seen, Cached, Inv, TypeOK
  <2> QED BY <2>1, <2>2 DEF Warm, Stores
<1>7. Handlers'
  BY <1>1, <1>3, <1>6 DEF Inv, Handlers, Idle
<1>8. TypeOK'
  BY <1>1, <1>5 DEF Inv, TypeOK
<1> QED BY <1>5, <1>7, <1>8 DEF Inv

LEMMA DieKeeps ==
  ASSUME Inv, Die
  PROVE  Inv'
<1>1. /\ todo' = <<>> /\ mem' = disk /\ disk' = disk /\ active' = NoOne /\ screen' = "off"
      /\ store' = Forgotten(store) /\ embedded' = FALSE
      /\ asked' = asked /\ dropped' = dropped /\ causes' = causes
  BY DEF Die
<1>2. Untouched(store, store') /\ Excused' = Excused
  BY <1>1, LookTouches DEF Moods, Excused
<1>3. Handlers' /\ Coming' = {} /\ Known' \subseteq Known /\ \A a : ~Buries(todo', a)
  BY <1>1, <1>2, HandlersIdle
<1>4. Unflipped => Marked'
  BY <1>1, <1>2, MarkedDies DEF Untouched
<1>5. store' \in Stores /\ FileSound' /\ (Unflipped => OneCopy)' /\ (causes = {} => Kept)'
  BY <1>1, <1>2, <1>3, <1>4, StoreStays
<1>6. TypeOK'
  BY <1>1, <1>5 DEF Inv, TypeOK
<1> QED BY <1>3, <1>5, <1>6 DEF Inv

LEMMA StartsThere ==
  ASSUME Inv, Unflipped
  PROVE  /\ \A a \in Accounts : disk.marker[a] \in {"none", StartBackend(disk)}
         /\ SignedIn(disk) \ Excused # {} => StartBackend(disk) = store.backend
<1>1. \A a, b \in SignedIn(disk) : disk.marker[a] = disk.marker[b]
  BY DEF Inv, OneCopy, Marked
<1>2. disk \in Settings
  BY Showing
<1>3. ASSUME NEW a \in Accounts, disk.marker[a] # "none" PROVE disk.marker[a] = StartBackend(disk)
  <2>1. \A b \in Accounts : disk.marker[b] # "none" => disk.marker[b] = disk.marker[a]
    BY <1>1, <1>3 DEF SignedIn
  <2>2. disk.marker[a] \in {"keychain", "vault"} /\ a \in SignedIn(disk)
    BY <1>2, <1>3 DEF Settings, SignedIn
  <2> QED BY <1>3, <2>1, <2>2 DEF StartBackend
<1>4. ASSUME NEW a \in SignedIn(disk) \ Excused PROVE StartBackend(disk) = store.backend
  <2>1. a \in Accounts /\ disk.marker[a] # "none" /\ disk.marker[a] = store.backend
    BY <1>4 DEF SignedIn, Inv, OneCopy, Marked
  <2> QED BY <1>3, <2>1
<1> QED BY <1>3, <1>4

LEMMA LaunchKeeps ==
  ASSUME Inv, Launch
  PROVE  Inv'
<1>1. /\ todo' = todo /\ mem' = disk /\ disk' = disk /\ screen' = "gate"
      /\ store' = Restarted(store, StartBackend(disk)) /\ embedded' = embedded
      /\ asked' = asked /\ dropped' = dropped /\ causes' = causes
      /\ active' \in SignedIn(disk) \union {NoOne}
  BY DEF Launch
<1>2. todo = <<>> /\ Idle /\ mem = disk /\ Excused' = Excused /\ SignedIn(mem') = SignedIn(disk)
  BY <1>1 DEF Launch, Inv, Handlers, Idle, Excused
<1>3. Handlers' /\ Coming' = {} /\ Known' \subseteq Known /\ \A a : ~Buries(todo', a)
  BY <1>1, <1>2, HandlersIdle
<1>4. store \in Stores /\ store' = [store EXCEPT !.backend = StartBackend(disk), !.key = 0, !.cache = Cold]
  BY <1>1 DEF Restarted, Inv, TypeOK
<1>5. Cold \in [full : BOOLEAN, held : SUBSET Secrets] /\ StartBackend(disk) \in {"keychain", "vault"}
      /\ 0 \in 0..MaxKey
  BY AccountsAssumption DEF Cold, StartBackend
<1>6. store' \in Stores
  BY <1>4, <1>5 DEF Stores
<1>7. FileSound'
  BY <1>4 DEF Inv, FileSound, Stores
<1>8. ASSUME Unflipped' PROVE OneCopy'
  <2>1. Unflipped /\ OneCopy /\ store'.backend = StartBackend(disk)
    BY <1>1, <1>4, <1>8 DEF Unflipped, Inv, Stores
  <2>2. Marked'
    BY <1>1, <1>2, <2>1, StartsThere DEF Marked, OneCopy, SignedIn
  <2>3. ASSUME NEW a \in Known'
        PROVE  /\ Mine(a) \intersect Other(store') = {}
               /\ Agrees(store', a) /\ Opened(store')
    <3>1. a \in Known /\ a \in SignedIn(disk) \ Excused
      BY <1>2, <1>3, <2>3, AtIdle DEF Known
    <3>2. StartBackend(disk) = store.backend
      BY <2>1, <3>1, StartsThere
    <3>3. store'.key = 0 /\ ~store'.cache.full /\ Other(store') = Other(store)
      BY <1>4, <3>2 DEF Stores, Other, Cold
    <3> QED BY <2>1, <3>1, <3>3 DEF OneCopy, Agrees, Opened
  <2> QED BY <1>3, <2>2, <2>3 DEF OneCopy, Mine
<1>9. ASSUME causes' = {}, NEW a \in Known' PROVE Mine(a) \subseteq Held(store')
  <2>1. a \in Known /\ a \in SignedIn(disk) \ Excused /\ Unflipped /\ Kept
    BY <1>1, <1>2, <1>3, <1>9, AtIdle DEF Known, Unflipped, Inv
  <2>2. Held(store') = Held(store)
    BY <1>4, <2>1, StartsThere DEF Stores, Held
  <2> QED BY <2>1, <2>2 DEF Kept
<1>10. Kept' \/ causes' # {}
  BY <1>9 DEF Kept, Mine
<1> QED BY <1>1, <1>3, <1>6, <1>7, <1>8, <1>10, Showing DEF Inv, TypeOK, Shown

-----------------------------------------------------------------------------
(* The key storage, and new sessions.                                      *)

\* The backend changes while nobody is signed in, or the change is recorded.
LEMMA FlipKeeps ==
  ASSUME Inv, Idle, store' \in Stores, FileSound', causes \subseteq causes',
         causes' \subseteq {"flip", "password", "withheld"}, Unflipped' => SignedIn(mem) = {},
         mem' \in Settings, mem'.marker = mem.marker, disk' = disk,
         (todo' = todo /\ mem' = mem) \/ todo' = Save,
         active' = active, asked' = asked, dropped' = dropped, embedded' = embedded,
         screen # "off", screen' \in {"intro", "create"}
  PROVE  Inv'
<1>1. todo = <<>> /\ active \in SignedIn(mem) \union {NoOne} /\ Excused' = Excused
      /\ SignedIn(mem') = SignedIn(mem) /\ SignedIn(disk)' = SignedIn(disk)
      /\ SignedIn(disk) \ Excused \subseteq SignedIn(mem)
  BY SettingsSame DEF Idle, Inv, Handlers, Excused
<1>2. Handlers' /\ Coming' = {} /\ \A b : ~Buries(todo', b)
  <2>1. CASE todo' = todo /\ mem' = mem
    BY <1>1, <2>1, HandlersIdle
  <2>2. CASE todo' = Save
    <3>1. Plan(todo', NoOne, {}) /\ Does(todo', {"save"})
      BY <2>2, SavePlans
    <3> QED BY <1>1, <3>1, HandlersBegin
  <2> QED BY <2>1, <2>2
<1>3. TypeOK'
  BY Showing DEF Inv, TypeOK, Shown
<1>4. ASSUME Unflipped', SignedIn(mem) = {} PROVE OneCopy' /\ Kept'
  <2>1. Known' = {} /\ SignedIn(mem)' = {} /\ SignedIn(disk)' \ Excused' = {}
    BY <1>1, <1>2, <1>4 DEF Known, SignedIn
  <2>2. Marked
    BY <1>4 DEF Unflipped, Inv, OneCopy
  <2>3. Marked'
    BY <2>1, <2>2 DEF Marked, SignedIn
  <2> QED BY <1>2, <2>1, <2>3 DEF OneCopy, Kept
<1>5. causes' = {} => Unflipped'
  BY DEF Unflipped
<1> QED BY <1>2, <1>3, <1>4, <1>5 DEF Inv

LEMMA UseKeychainKeeps ==
  ASSUME Inv, UseKeychain
  PROVE  Inv'
<1>1. /\ Idle /\ screen' = "intro" /\ screen # "off"
      /\ UNCHANGED <<disk, active, embedded, asked, dropped>>
      /\ store \in Stores /\ causes \subseteq {"flip", "password", "withheld"} /\ mem \in Settings
  BY DEF UseKeychain, Inv, TypeOK
<1>2. /\ mem' \in Settings /\ mem'.marker = mem.marker
      /\ (todo' = todo /\ mem' = mem) \/ todo' = Save
  BY <1>1 DEF UseKeychain, Prefer, Settings
<1>3. CASE store' = store /\ causes' = causes
  <2>1. todo = <<>> /\ active \in SignedIn(mem) \union {NoOne} /\ screen' # "off"
        /\ screen' \notin {"locked", "token"}
    BY <1>1 DEF Idle, Inv, Handlers
  <2>2. Untouched(store, store')
    BY <1>3, LookTouches DEF Moods
  <2>3. Shown(screen, embedded, asked, dropped)' /\ Excused' = Excused
    BY <1>1, Showing DEF Shown, Screens, Excused
  <2>4. CASE todo' = todo /\ mem' = mem
    BY <1>1, <1>3, <2>1, <2>2, <2>3, <2>4, CalmIdle
  <2>5. CASE todo' = Save
    <3>1. Plan(todo', NoOne, {}) /\ Does(todo', {"save"})
      BY <2>5, SavePlans
    <3> QED BY <1>1, <1>2, <1>3, <2>1, <2>2, <2>3, <3>1, CalmBegin
  <2> QED BY <1>2, <2>4, <2>5
<1>4. ASSUME NEW kept \in BOOLEAN, store' = SwitchedToKeychain(store, kept), store.backend # "keychain",
             Moves(store), causes' = causes \union (IF InVault # {} THEN {"flip"} ELSE {})
      PROVE  Inv'
  <2>1. Moved(store) \subseteq Secrets
    BY <1>1 DEF Stores, Moved, Bundle, Held
  <2>2. /\ store'.backend = "keychain" /\ store'.key = 0
        /\ store'.item \in {store.item, Moved(store)} /\ store'.file \in {store.file, NoFile}
        /\ store'.cache = Warm(Moved(store)) /\ store' \in Stores
    <3>1. ToKeychainCopy(store, Moved(store)) = [store EXCEPT !.item = IF Moved(store) = {} THEN @ ELSE Moved(store)]
      BY <1>1 DEF ToKeychainCopy, Stores
    <3> DEFINE s == ToKeychainCopy(store, Moved(store))
    <3>2. s \in Stores /\ s.item \in {store.item, Moved(store)} /\ s.file = store.file
      BY <1>1, <2>1, <3>1 DEF Stores
    <3> HIDE DEF s
    <3>3. store' = [[s EXCEPT !.backend = "keychain", !.key = 0]
                      EXCEPT !.file = IF kept THEN @ ELSE NoFile, !.cache = Warm(Moved(store))]
      BY <1>4 DEF SwitchedToKeychain, ToKeychain, s
    <3>4. NoFile \in [key : 0..MaxKey, held : SUBSET Secrets] /\ 0 \in 0..MaxKey
          /\ Warm(Moved(store)) \in [full : BOOLEAN, held : SUBSET Secrets]
      BY <2>1, AccountsAssumption DEF NoFile, Warm
    <3>5. store' = [s EXCEPT !.backend = "keychain", !.key = 0, !.cache = Warm(Moved(store)),
                             !.file = IF kept THEN s.file ELSE NoFile]
      BY <3>2, <3>3 DEF Stores
    <3> QED BY <3>2, <3>4, <3>5 DEF Stores
  <2>3. FileSound'
    BY <2>2 DEF Inv, FileSound, NoFile
  <2>4. ASSUME Unflipped' PROVE SignedIn(mem) = {}
    <3>1. Unflipped /\ InVault = {}
      BY <1>4, <2>4 DEF Unflipped
    <3>2. \A a \in Accounts : mem.marker[a] \in {"none", "vault"}
      BY <1>1, <1>4, <3>1 DEF Inv, OneCopy, Marked, Stores
    <3> QED BY <3>1, <3>2 DEF InVault, SignedIn
  <2>5. causes \subseteq causes' /\ causes' \subseteq {"flip", "password", "withheld"}
    BY <1>1, <1>4
  <2> QED BY <1>1, <1>2, <2>2, <2>3, <2>4, <2>5, FlipKeeps
<1> QED BY <1>3, <1>4 DEF UseKeychain

LEMMA CreatePasswordKeeps ==
  ASSUME Inv, CreatePassword
  PROVE  Inv'
<1>1. /\ Idle /\ screen = "create" /\ UNCHANGED <<disk, active, embedded, asked, dropped>>
      /\ store \in Stores /\ causes \subseteq {"flip", "password", "withheld"} /\ mem \in Settings
      /\ causes' = causes \union (IF SignedIn(mem) # {} THEN {"password"} ELSE {})
  BY DEF CreatePassword, Inv, TypeOK
<1>2. /\ mem' \in Settings /\ mem'.marker = mem.marker /\ screen' \in {"intro", "create"}
      /\ (todo' = todo /\ mem' = mem) \/ todo' = Save
  BY <1>1 DEF CreatePassword, Prefer, Settings
<1>3. PICK k \in NewKey : store' = Passphrased(store, k) \/ store' = Flipped(store, k)
  BY DEF CreatePassword
<1>4. k \in 0..MaxKey /\ k # 0
  BY <1>3, AccountsAssumption DEF NewKey
<1>5. /\ Flipped(store, k) \in Stores /\ Flipped(store, k).backend = "vault"
      /\ Flipped(store, k).key = k /\ Flipped(store, k).file = store.file
  BY <1>1, <1>4 DEF Flipped, Stores
<1>6. store' \in Stores /\ FileSound'
  <2>1. CASE store' = Flipped(store, k)
    BY <1>5, <2>1 DEF Inv, FileSound
  <2>2. CASE store' = Saved(Flipped(store, k), store.cache.held)
    <3>1. store' = [Flipped(store, k) EXCEPT !.file = Sealed(k, store.cache.held)]
      BY <1>5, <2>2 DEF Saved
    <3>2. Sealed(k, store.cache.held) \in [key : 0..MaxKey, held : SUBSET Secrets]
      BY <1>1, <1>4 DEF Sealed, Stores
    <3> HIDE <1>3
    <3>3. store'.file = Sealed(k, store.cache.held) /\ store' \in Stores
      BY <1>5, <3>1, <3>2 DEF Stores
    <3> QED BY <1>4, <3>3 DEF FileSound, Sealed
  <2> QED BY <1>3, <2>1, <2>2 DEF Passphrased
<1>7. Unflipped' => SignedIn(mem) = {}
  BY <1>1 DEF Unflipped
<1>8. causes \subseteq causes' /\ causes' \subseteq {"flip", "password", "withheld"}
  BY <1>1
<1> QED BY <1>1, <1>2, <1>6, <1>7, <1>8, FlipKeeps

\* A bundle goes to the active copy, and to the cache.
LEMMA WrittenIs ==
  ASSUME Inv, NEW m \in Moods, NEW b \in SUBSET Secrets, Saves(store),
         store' = Written(Looked(m), b)
  PROVE  /\ store' \in Stores /\ store'.backend = store.backend /\ store'.key = store.key
         /\ store'.cache = Warm(b) /\ Held(store') = b /\ Other(store') = Other(store)
         /\ FileSound'
         /\ store.backend = "vault" => store'.file.key = store.key
<1>1. store \in Stores
  BY DEF Inv, TypeOK
<1> DEFINE s == Looked(m)
<1>2. s \in Stores /\ s.item = store.item /\ s.file = store.file /\ s.backend = store.backend /\ s.key = store.key
  BY <1>1, LookTouches DEF Untouched, Looked, Cached, Stores
<1> HIDE DEF s
<1>3. store' = [Saved(s, b) EXCEPT !.cache = Warm(b)]
  BY DEF Written, Cached, s
<1>4. Warm(b) \in [full : BOOLEAN, held : SUBSET Secrets]
  BY DEF Warm
<1>5. CASE store.backend = "keychain"
  <2>1. store' = [s EXCEPT !.item = b, !.cache = Warm(b)]
    BY <1>2, <1>3, <1>5 DEF Saved, Stores
  <2> HIDE <1>3
  <2>2. /\ store' \in Stores /\ store'.backend = "keychain" /\ store'.key = store.key
        /\ store'.cache = Warm(b) /\ store'.item = b /\ store'.file = store.file
    BY <1>2, <1>4, <1>5, <2>1 DEF Stores
  <2> QED BY <1>5, <2>2 DEF Held, Other, Inv, FileSound
<1>6. CASE store.backend # "keychain"
  <2>1. store.backend = "vault" /\ store.key # 0
    BY <1>1, <1>6 DEF Saves, Stores
  <2>2. store' = [s EXCEPT !.file = Sealed(store.key, b), !.cache = Warm(b)]
    BY <1>2, <1>3, <2>1 DEF Saved, Stores
  <2>3. Sealed(store.key, b) \in [key : 0..MaxKey, held : SUBSET Secrets]
    BY <1>1 DEF Sealed, Stores
  <2>4. /\ store' \in Stores /\ store'.backend = "vault" /\ store'.key = store.key
        /\ store'.cache = Warm(b) /\ store'.item = store.item
        /\ store'.file = Sealed(store.key, b)
    BY <1>2, <1>4, <2>1, <2>2, <2>3 DEF Stores
  <2> QED BY <2>1, <2>4 DEF Held, Other, FileSound, Sealed
<1> QED BY <1>5, <1>6

LEMMA CommitKeeps ==
  ASSUME Inv, NEW m \in Moods, Commit(m)
  PROVE  Inv'
<1>1. PICK a \in Accounts : /\ Unused(a)
                            /\ store' = Written(Looked(m), Seen(m) \union Mine(a))
                            /\ todo' = <<Step("persist", a)>>
                            /\ asked' = asked \ {a} /\ dropped' = dropped \ {a}
  BY DEF Commit
<1>2. /\ Idle /\ Ready(m) /\ CanLook(m) /\ screen = "intro"
      /\ UNCHANGED <<mem, disk, active, screen, embedded>>
      /\ causes' = causes \union (IF Held(store) \subseteq Seen(m) THEN {} ELSE {"withheld"})
  BY DEF Commit
<1>3. store \in Stores /\ active \in SignedIn(mem) \union {NoOne}
  BY DEF Inv, TypeOK, Handlers
<1>4. store.backend = "vault" => store.key # 0
  BY <1>2 DEF Ready, State
<1>5. (Seen(m) \union Mine(a)) \in SUBSET Secrets /\ Saves(store)
  BY <1>4, LookTouches, MineSecrets DEF Saves
<1>6. /\ store' \in Stores /\ store'.backend = store.backend /\ store'.key = store.key
      /\ store'.cache = Warm(Seen(m) \union Mine(a)) /\ Held(store') = Seen(m) \union Mine(a)
      /\ Other(store') = Other(store) /\ FileSound'
      /\ store.backend = "vault" => store'.file.key = store.key
  BY <1>1, <1>5, WrittenIs
<1>7. /\ todo' \in Seq(Steps) /\ Ordered(todo') /\ (\A S : Hurts(todo', S))
      /\ Does(todo', {"persist"}) /\ (\A b : ~Buries(todo', b)) /\ todo' # <<>>
      /\ Head(todo') = Step("persist", a)
  <2> DEFINE x == Step("persist", a)
  <2>1. x \in Steps /\ x[1] = "persist"
    BY DEF Step, Steps
  <2> HIDE DEF x
  <2>2. todo' = <<x>>
    BY <1>1 DEF x
  <2> QED BY <2>1, <2>2, Alone DEF x
<1>8. Coming' = {a}
  BY <1>7 DEF Coming, Doing, Arg, Step
<1>9. Handlers'
  <2>1. Excused' = Excused \ {a} /\ a \notin SignedIn(disk)
    BY <1>1 DEF Excused, Unused, SignedIn
  <2>2. mem'.marker[a] = "none" /\ disk'.marker[a] = "none"
    BY <1>1, <1>2 DEF Unused
  <2>3. store'.cache.full /\ Mine(a) \subseteq store'.cache.held
    BY <1>6 DEF Warm
  <2>4. store'.backend = "vault" => store'.key # 0
    BY <1>4, <1>6
  <2>5. SignedIn(mem)' = SignedIn(mem) /\ SignedIn(disk)' = SignedIn(disk)
    BY <1>2 DEF SignedIn
  <2> QED BY <1>2, <1>3, <1>7, <1>8, <2>1, <2>2, <2>3, <2>4, <2>5 DEF Inv, Handlers
<1>10. ASSUME Unflipped' PROVE OneCopy'
  <2>1. Unflipped /\ OneCopy
    BY <1>2, <1>10 DEF Unflipped, Inv
  <2>2. Known' = Known \union {a} /\ Excused' = Excused \ {a}
    BY <1>1, <1>2, <1>8, AtIdle DEF Known, SignedIn, Excused, Unused
  <2>3. Mine(a) \intersect Other(store) = {}
    BY <1>1 DEF Unused, Other
  <2>4. \A b : Agrees(store', b)
    BY <1>6 DEF Agrees, Warm
  <2>5. Opened(store')
    BY <1>6 DEF Opened
  <2>6. Marked'
    BY <1>1, <1>2, <1>6, <2>1, <2>2 DEF Marked, OneCopy, SignedIn, Unused
  <2> QED BY <1>6, <1>7, <2>1, <2>2, <2>3, <2>4, <2>5, <2>6 DEF OneCopy, Mine
<1>11. ASSUME causes' = {} PROVE Kept'
  <2>1. Known' = Known \union {a}
    BY <1>1, <1>2, <1>8, AtIdle DEF Known, SignedIn, Excused, Unused
  <2>2. Kept /\ Held(store) \subseteq Held(store') /\ Mine(a) \subseteq Held(store')
    BY <1>2, <1>6, <1>11 DEF Inv
  <2> QED BY <2>2, <2>1 DEF Kept, Mine
<1>12. TypeOK'
  BY <1>1, <1>2, <1>6 DEF Inv, TypeOK
<1> QED BY <1>6, <1>9, <1>10, <1>11, <1>12 DEF Inv


-----------------------------------------------------------------------------
(* The steps of the handlers.                                              *)

\* A step is done, and only those remain that came after it.
LEMMA Popping ==
  ASSUME Inv, ~Idle, todo' = Rest
  PROVE  /\ todo' \in Seq(Steps) /\ Ordered(todo') /\ Hurts(todo', Excused)
         /\ \A a : Buries(todo', a) => Buries(todo, a)
         /\ \A op : Has(todo', op) => Has(todo, op)
         /\ \A op : Has(todo, op) => Has(todo', op) \/ Doing(op)
         /\ Coming' = {} /\ Head(todo) \in Steps /\ screen # "off"
         /\ screen \in {"locked", "token"} => Has(todo, "go")
<1>1. todo \in Seq(Steps) /\ todo # <<>> /\ Ordered(todo) /\ Hurts(todo, Excused)
  BY DEF Inv, Handlers, Idle
<1>2. /\ todo' \in Seq(Steps) /\ Ordered(todo') /\ Hurts(todo', Excused)
      /\ \A a : Buries(todo', a) => Buries(todo, a)
      /\ \A op : Has(todo', op) => Has(todo, op)
      /\ \A op : Has(todo, op) => Has(todo', op) \/ Head(todo)[1] = op
      /\ ~Has(todo', "persist")
  BY <1>1, Rested DEF Rest
<1>3. todo' = <<>> \/ Head(todo')[1] # "persist"
  BY <1>2, NoComing
<1>4. Coming' = {}
  BY <1>3 DEF Coming, Doing
<1>5. Head(todo) \in Steps
  BY <1>1, Popped
<1>6. screen # "off" /\ (screen \in {"locked", "token"} => Has(todo, "go"))
  BY DEF Inv, Handlers
<1> QED BY <1>1, <1>2, <1>4, <1>5, <1>6 DEF Doing

\* The last step of a handler is being done.
LEMMA LastStep ==
  ASSUME Inv, Doing("sweep") \/ Doing("bury") \/ Doing("persist")
  PROVE  Rest = <<>> /\ screen \notin {"off", "locked", "token"}
<1>1. todo \in Seq(Steps) /\ todo # <<>> /\ Ordered(todo) /\ Hurts(todo, Excused)
  BY DEF Inv, Handlers, Doing
<1>2. /\ Rest = <<>>
      /\ \A op : Has(todo, op) => Has(Rest, op) \/ Head(todo)[1] = op
  BY <1>1, Rested DEF Rest, Doing
<1>3. \A op : Has(todo, op) => Head(todo)[1] = op
  BY <1>2, NothingLeft
<1>4. ~Has(todo, "go")
  BY <1>1, <1>3 DEF Doing
<1> QED BY <1>1, <1>2, <1>4 DEF Inv, Handlers, Idle

\* Secrets may go, but nothing else changes.
LEMMA StoreStep ==
  ASSUME Inv, Doing("scrub") \/ Doing("wipe"), todo' = Rest,
         UNCHANGED <<mem, disk, active, screen, embedded, asked, dropped, causes>>
  PROVE  /\ Handlers' /\ Coming' = {} /\ Coming = {} /\ Known' \subseteq Known
         /\ Excused' = Excused /\ \A a : Buries(todo', a) => Buries(todo, a)
         /\ screen # "off"
<1>1. ~Idle /\ ~Doing("go") /\ ~Doing("save") /\ ~Doing("bury") /\ ~Doing("persist")
  BY DEF Doing, Idle
<1>2. /\ todo' \in Seq(Steps) /\ Ordered(todo') /\ Hurts(todo', Excused)
      /\ \A a : Buries(todo', a) => Buries(todo, a)
      /\ \A op : Has(todo', op) => Has(todo, op)
      /\ \A op : Has(todo, op) => Has(todo', op) \/ Doing(op)
      /\ Coming' = {} /\ screen # "off"
      /\ screen \in {"locked", "token"} => Has(todo, "go")
  BY <1>1, Popping
<1>3. Excused' = Excused /\ SignedIn(mem)' = SignedIn(mem) /\ SignedIn(disk)' = SignedIn(disk)
  BY DEF Excused, SignedIn
<1>4. Coming = {} /\ Known' \subseteq Known
  BY <1>1, <1>2, <1>3 DEF Coming, Known
<1> QED BY <1>1, <1>2, <1>3, <1>4 DEF Inv, Handlers

LEMMA ScrubKeeps ==
  ASSUME Inv, NEW m \in Moods, DoScrub(m)
  PROVE  Inv'
<1>1. /\ Doing("scrub") /\ todo' = Rest
      /\ UNCHANGED <<mem, disk, active, screen, embedded, asked, dropped, causes>>
  BY DEF DoScrub
<1>2. /\ Handlers' /\ Coming' = {} /\ Coming = {} /\ Known' \subseteq Known
      /\ Excused' = Excused /\ (\A a : Buries(todo', a) => Buries(todo, a)) /\ screen # "off"
  BY <1>1, StoreStep
<1>3. CASE store' = Looked(m)
  <2>1. Untouched(store, store')
    BY <1>3, LookTouches
  <2>2. Unflipped => Marked'
    BY <1>1, <1>2, <2>1, MarkedStays DEF Untouched
  <2>3. store' \in Stores /\ FileSound' /\ (Unflipped => OneCopy)' /\ (causes = {} => Kept)'
    BY <1>1, <1>2, <2>1, <2>2, StoreStays
  <2> QED BY <1>1, <1>2, <2>3 DEF Inv, TypeOK
<1>4. CASE Arg \in Seen(m) /\ Saves(store) /\ store' = Written(Looked(m), Seen(m) \ {Arg})
  <2> DEFINE b == Seen(m) \ {Arg}
  <2>1. b \in SUBSET Secrets
    BY LookTouches
  <2>2. /\ store' \in Stores /\ store'.backend = store.backend /\ store'.key = store.key
        /\ store'.cache = Warm(b) /\ Held(store') = b /\ Other(store') = Other(store)
        /\ FileSound'
        /\ store.backend = "vault" => store'.file.key = store.key
    <3> HIDE DEF b
    <3>1. store' = Written(Looked(m), b)
      BY <1>4 DEF b
    <3> QED BY <1>4, <2>1, <3>1, WrittenIs
  <2>3. Arg[1] \in Excused
    <3>1. todo \in Seq(Steps) /\ todo # <<>> /\ Hurts(todo, Excused)
      BY <1>1 DEF Inv, Handlers, Doing
    <3>2. 1 \in 1..Len(todo) /\ Head(todo) = todo[1]
      BY <3>1, Popped
    <3> QED BY <1>1, <3>1, <3>2 DEF Hurts, Doing, Arg
  <2>4. ASSUME Unflipped, NEW a \in Known
        PROVE  Mine(a) \intersect Seen(m) = Mine(a) \intersect Held(store)
    BY <1>4, <2>4, Visible
  <2>5. ASSUME Unflipped' PROVE OneCopy'
    <3>1. Unflipped /\ OneCopy
      BY <1>1, <2>5 DEF Unflipped, Inv
    <3>2. \A a \in Known' : /\ Mine(a) \intersect Other(store') = {}
                            /\ Agrees(store', a) /\ Opened(store')
      BY <1>2, <2>2, <3>1 DEF OneCopy, Agrees, Opened, Warm
    <3>3. ASSUME NEW a \in Accounts \ Excused, Buries(todo', a) PROVE ~(Mine(a) \subseteq Held(store'))
      <4>1. a \in Known /\ ~(Mine(a) \subseteq Held(store))
        BY <1>2, <3>1, <3>3 DEF Inv, Handlers, OneCopy, Known
      <4> QED BY <2>2, <2>4, <3>1, <4>1
    <3>4. Marked'
      BY <1>1, <1>2, <2>2, <3>1, MarkedStays
    <3> QED BY <1>2, <3>2, <3>3, <3>4 DEF OneCopy, Mine
  <2>6. ASSUME causes' = {} PROVE Kept'
    <3>1. Unflipped /\ Kept
      BY <1>1, <2>6 DEF Unflipped, Inv
    <3>2. ASSUME NEW a \in Known PROVE Mine(a) \subseteq Held(store')
      <4>1. a \in Accounts /\ a \notin Excused /\ Mine(a) \subseteq Held(store)
        BY <1>2, <3>1, <3>2, Showing DEF Kept, Known
      <4>2. Arg \notin Mine(a)
        BY <2>3, <4>1, MineSecrets
      <4> QED BY <2>2, <2>4, <3>1, <3>2, <4>1, <4>2
    <3> QED BY <1>2, <3>2 DEF Kept, Mine
  <2> QED BY <1>1, <1>2, <2>2, <2>5, <2>6 DEF Inv, TypeOK
<1> QED BY <1>3, <1>4 DEF DoScrub

LEMMA WipeKeeps ==
  ASSUME Inv, NEW m \in Moods, DoWipe(m)
  PROVE  Inv'
<1>1. /\ Doing("wipe") /\ todo' = Rest
      /\ UNCHANGED <<mem, disk, active, screen, embedded, asked, dropped, causes>>
  BY DEF DoWipe
<1>2. /\ Handlers' /\ Coming' = {} /\ Coming = {} /\ Known' \subseteq Known
      /\ Excused' = Excused /\ (\A a : Buries(todo', a) => Buries(todo, a)) /\ screen # "off"
  BY <1>1, StoreStep
<1>3. CASE store' = store
  <2>1. Untouched(store, store')
    BY <1>3, LookTouches
  <2>2. Unflipped => Marked'
    BY <1>1, <1>2, <2>1, MarkedStays DEF Untouched
  <2>3. store' \in Stores /\ FileSound' /\ (Unflipped => OneCopy)' /\ (causes = {} => Kept)'
    BY <1>1, <1>2, <2>1, <2>2, StoreStays
  <2> QED BY <1>1, <1>2, <2>3 DEF Inv, TypeOK
<1>4. ASSUME SignedIn(mem) = {}, NEW kept \in BOOLEAN, store' = Erased(store, kept) PROVE Inv'
  <2>1. store \in Stores
    BY DEF Inv, TypeOK
  <2>2. /\ Warm({}) \in [full : BOOLEAN, held : SUBSET Secrets]
        /\ NoFile \in [key : 0..MaxKey, held : SUBSET Secrets] /\ 0 \in 0..MaxKey
    BY AccountsAssumption DEF Warm, NoFile
  <2>3. /\ store' \in Stores /\ store'.backend = store.backend
        /\ store'.key \in {0, store.key} /\ (store.backend = "vault" => store'.key = 0)
        /\ store'.cache = Warm({}) /\ Held(store') = {} /\ Other(store') \subseteq Other(store)
        /\ store'.file \in {store.file, NoFile}
    <3>1. CASE store.backend = "keychain"
      <4>1. store' = [store EXCEPT !.item = {}, !.file = IF kept THEN store.file ELSE NoFile,
                                   !.cache = Warm({})]
        BY <1>4, <2>1, <3>1 DEF Erased, Stores
      <4>2. /\ store' \in Stores /\ store'.backend = "keychain" /\ store'.key = store.key
            /\ store'.item = {} /\ store'.cache = Warm({}) /\ store'.file \in {store.file, NoFile}
        BY <2>1, <2>2, <3>1, <4>1 DEF Stores
      <4> QED BY <3>1, <4>2 DEF Held, Other, NoFile
    <3>2. CASE store.backend # "keychain"
      <4>1. store' = [store EXCEPT !.file = NoFile, !.key = 0, !.item = IF kept THEN store.item ELSE {},
                                   !.cache = Warm({})]
        BY <1>4, <2>1, <3>2 DEF Erased, Stores
      <4>2. /\ store' \in Stores /\ store'.backend = store.backend /\ store'.key = 0
            /\ store'.item \in {store.item, {}} /\ store'.cache = Warm({}) /\ store'.file = NoFile
        BY <2>1, <2>2, <3>2, <4>1 DEF Stores
      <4> QED BY <3>2, <4>2 DEF Held, Other, NoFile
    <3> QED BY <3>1, <3>2
  <2>4. FileSound'
    BY <2>3 DEF Inv, FileSound, NoFile
  <2>5. ASSUME Unflipped' PROVE OneCopy'
    <3>1. Unflipped /\ OneCopy
      BY <1>1, <2>5 DEF Unflipped, Inv
    <3>2. \A a \in Known' : /\ Mine(a) \intersect Other(store') = {}
                            /\ Agrees(store', a) /\ Opened(store')
      BY <1>2, <2>3, <3>1 DEF OneCopy, Agrees, Opened, Warm
    <3>3. \A a \in Accounts : ~(Mine(a) \subseteq Held(store'))
      BY <2>3, MineSecrets
    <3>4. Marked'
      BY <1>1, <1>2, <2>3, <3>1, MarkedStays
    <3> QED BY <3>2, <3>3, <3>4 DEF OneCopy, Mine
  <2>6. Kept'
    BY <1>1, <1>2, <1>4 DEF Kept, Known, SignedIn
  <2> QED BY <1>1, <1>2, <2>3, <2>4, <2>5, <2>6 DEF Inv, TypeOK
<1> QED BY <1>3, <1>4 DEF DoWipe

LEMMA ClearKeeps ==
  ASSUME Inv, DoClear
  PROVE  Inv'
<1>1. /\ Doing("clear") /\ todo' = Rest /\ ~Idle
      /\ mem' = [mem EXCEPT !.marker[Arg] = "none"]
      /\ active' = IF active = Arg THEN NoOne ELSE active
      /\ UNCHANGED <<store, disk, screen, embedded, asked, dropped, causes>>
  BY DEF DoClear, Doing, Idle
<1>2. /\ todo' \in Seq(Steps) /\ Ordered(todo') /\ Hurts(todo', Excused)
      /\ \A a : Buries(todo', a) => Buries(todo, a)
      /\ \A op : Has(todo', op) => Has(todo, op)
      /\ \A op : Has(todo, op) => Has(todo', op) \/ Doing(op)
      /\ Coming' = {} /\ screen # "off"
      /\ screen \in {"locked", "token"} => Has(todo, "go")
  BY <1>1, Popping
<1>3. Arg \in Accounts /\ Arg \in Excused /\ Has(todo, "clear") /\ Coming = {}
  <2>1. todo \in Seq(Steps) /\ todo # <<>> /\ Hurts(todo, Excused)
    BY <1>1 DEF Inv, Handlers, Doing
  <2>2. 1 \in 1..Len(todo) /\ Head(todo) = todo[1] /\ todo[1] \in Steps
    BY <2>1, Popped
  <2>3. Arg \in Accounts
    BY <1>1, <2>2 DEF Doing, Arg, Steps
  <2> QED BY <1>1, <2>1, <2>2, <2>3 DEF Doing, Arg, Hurts, Has, Coming
<1>4. /\ mem' \in Settings /\ \A a \in Accounts : mem'.marker[a] = IF a = Arg THEN "none" ELSE mem.marker[a]
      /\ mem \in Settings
  BY <1>1, Showing DEF Settings
<1>5. SignedIn(mem') = SignedIn(mem) \ {Arg} /\ SignedIn(disk)' = SignedIn(disk) /\ Excused' = Excused
  BY <1>1, <1>4 DEF SignedIn, Excused
<1>6. ~Doing("save") /\ ~Doing("bury") /\ ~Doing("go")
  BY <1>1 DEF Doing
<1>7. Handlers'
  BY <1>1, <1>2, <1>3, <1>5, <1>6 DEF Inv, Handlers
<1>8. Untouched(store, store')
  BY <1>1, LookTouches DEF Moods
<1>9. Known' \subseteq Known
  BY <1>2, <1>5 DEF Known
<1>10. Unflipped => Marked'
  BY <1>1, <1>2, <1>4, <1>5, MarkedStays
<1>11. store' \in Stores /\ FileSound' /\ (Unflipped => OneCopy)' /\ (causes = {} => Kept)'
  BY <1>1, <1>2, <1>5, <1>8, <1>9, <1>10, StoreStays
<1> QED BY <1>1, <1>4, <1>7, <1>11 DEF Inv, TypeOK

LEMMA SaveKeeps ==
  ASSUME Inv, DoSave
  PROVE  Inv'
<1>1. /\ Doing("save") /\ todo' = Rest /\ ~Idle
      /\ \/ UNCHANGED <<disk, asked, dropped>>
         \/ /\ disk' = mem
            /\ asked' = asked \intersect SignedIn(mem) /\ dropped' = dropped \intersect SignedIn(mem)
      /\ UNCHANGED <<store, mem, active, screen, embedded, causes>>
  BY DEF DoSave, Doing, Idle
<1>2. /\ todo' \in Seq(Steps) /\ Ordered(todo')
      /\ \A op : Has(todo, op) => Has(todo', op) \/ Doing(op)
      /\ Coming' = {} /\ screen # "off"
      /\ screen \in {"locked", "token"} => Has(todo, "go")
  BY <1>1, Popping
<1>3. \A i \in 1..Len(todo') : todo'[i][1] \in {"wipe", "go", "sweep"}
  <2>1. todo \in Seq(Steps) /\ todo # <<>> /\ Ordered(todo) /\ Hurts(todo, Excused)
    BY <1>1 DEF Inv, Handlers, Doing
  <2>2. Head(todo)[1] = "save"
    BY <1>1 DEF Doing
  <2>3. \A i \in 1..Len(Tail(todo)) : Tail(todo)[i][1] \in {"wipe", "go", "sweep"}
    BY <2>1, <2>2, Rested
  <2> QED BY <1>1, <2>3 DEF Rest
<1>4. Hurts(todo', Excused') /\ \A a : ~Buries(todo', a)
  BY <1>3 DEF Hurts, Buries
<1>5. /\ SignedIn(mem)' = SignedIn(mem)
      /\ \/ SignedIn(disk)' = SignedIn(disk) /\ Excused' = Excused
         \/ SignedIn(disk)' = SignedIn(mem) /\ Excused' = Excused \intersect SignedIn(mem)
  BY <1>1 DEF SignedIn, Excused
<1>6. ~Doing("go")
  BY <1>1 DEF Doing
<1>7. Handlers'
  BY <1>1, <1>2, <1>4, <1>5, <1>6 DEF Inv, Handlers
<1>8. Untouched(store, store')
  BY <1>1, LookTouches DEF Moods
<1>9. Known' \subseteq Known
  BY <1>2, <1>5 DEF Known
<1>10. ASSUME Unflipped PROVE Marked'
  <2>1. Marked
    BY <1>10 DEF Inv, OneCopy
  <2>2. CASE disk' = disk /\ Excused' = Excused
    BY <1>1, <2>1, <2>2 DEF Marked, SignedIn
  <2>3. CASE disk' = mem
    <3>1. \A a \in SignedIn(mem) : a \in Accounts /\ mem.marker[a] = store.backend
      BY <1>2, <2>1 DEF Marked, SignedIn
    <3> QED BY <1>1, <1>2, <2>1, <2>3, <3>1 DEF Marked, SignedIn
  <2> QED BY <1>1, <2>2, <2>3 DEF Excused
<1>11. store' \in Stores /\ FileSound' /\ (Unflipped => OneCopy)' /\ (causes = {} => Kept)'
  BY <1>1, <1>4, <1>8, <1>9, <1>10, StoreStays
<1> QED BY <1>1, <1>7, <1>11 DEF Inv, TypeOK

LEMMA GoKeeps ==
  ASSUME Inv, DoGo
  PROVE  Inv'
<1>1. /\ Doing("go") /\ todo' = Rest /\ ~Idle /\ screen' = Arg /\ embedded' = FALSE
      /\ UNCHANGED <<store, mem, disk, active, asked, dropped, causes>>
  BY DEF DoGo, Doing, Idle
<1>2. /\ todo' \in Seq(Steps) /\ Ordered(todo') /\ Hurts(todo', Excused)
      /\ \A a : Buries(todo', a) => Buries(todo, a)
      /\ \A op : Has(todo', op) => Has(todo, op)
      /\ \A op : Has(todo, op) => Has(todo', op) \/ Doing(op)
      /\ Coming' = {} /\ Head(todo) \in Steps
  BY <1>1, Popping
<1>3. screen' \in {"intro", "main", "next"}
  BY <1>1, <1>2 DEF Doing, Arg, Steps
<1>4. ~Doing("save") /\ ~Doing("bury") /\ Coming = {}
  BY <1>1 DEF Doing, Coming
<1>5. Excused' = Excused /\ SignedIn(mem)' = SignedIn(mem) /\ SignedIn(disk)' = SignedIn(disk)
  BY <1>1 DEF Excused, SignedIn
<1>6. Handlers'
  BY <1>1, <1>2, <1>3, <1>4, <1>5 DEF Inv, Handlers
<1>7. Untouched(store, store')
  BY <1>1, LookTouches DEF Moods
<1>8. Known' \subseteq Known
  BY <1>2, <1>5 DEF Known
<1>9. Unflipped => Marked'
  BY <1>1, <1>5, Popping, MarkedStays
<1>10. store' \in Stores /\ FileSound' /\ (Unflipped => OneCopy)' /\ (causes = {} => Kept)'
  BY <1>1, <1>2, <1>5, <1>7, <1>8, <1>9, StoreStays
<1> QED BY <1>1, <1>3, <1>6, <1>10 DEF Inv, TypeOK

\* Whoever the sweep takes for dead has lost secrets.
LEMMA Dead ==
  ASSUME Inv, NEW m \in Moods
  PROVE  /\ Undead(m) \subseteq SignedIn(mem) /\ Undead(m) \in SUBSET Accounts
         /\ Unflipped => \A a \in Undead(m) \ Excused : ~(Mine(a) \subseteq Held(store))
<1>1. Undead(m) \subseteq SignedIn(mem) /\ Undead(m) \in SUBSET Accounts
  BY Showing DEF Undead
<1>2. ASSUME Unflipped, NEW a \in Undead(m) \ Excused PROVE ~(Mine(a) \subseteq Held(store))
  <2>1. a \in SignedIn(mem) \ Excused /\ a \in Known
    BY <1>1, <1>2 DEF Known
  <2>2. ~Whole(a)
    BY <1>2, <2>1, Earned DEF Undead
  <2> QED BY <1>2, <2>1, <2>2, WholeIsHeld
<1> QED BY <1>1, <1>2

LEMMA SweepKeeps ==
  ASSUME Inv, NEW m \in Moods, DoSweep(m)
  PROVE  Inv'
<1>1. /\ Doing("sweep")
      /\ UNCHANGED <<mem, disk, active, screen, embedded, asked, dropped, causes>>
  BY DEF DoSweep
<1>2. Rest = <<>> /\ screen \notin {"off", "locked", "token"}
  BY <1>1, LastStep
<1>3. Untouched(store, store')
  BY LookTouches DEF DoSweep
<1>4. /\ active \in SignedIn(mem) \union {NoOne} /\ Excused' = Excused /\ Coming = {}
      /\ SignedIn(mem)' = SignedIn(mem) /\ SignedIn(disk)' = SignedIn(disk)
  BY <1>1 DEF Inv, Handlers, Excused, SignedIn, Coming, Doing
<1>5. \/ todo' = <<>>
      \/ todo' = Bury(Undead(m))
  <2>1. Undead(m) \in SUBSET Accounts
    BY Dead
  <2>2. Bury(Undead(m)) \in Seq(Steps)
    BY <2>1, Singles DEF Bury
  <2>3. Bury(Undead(m)) \o <<>> = Bury(Undead(m)) /\ <<>> \o <<>> = <<>>
    BY <2>2, ConcatEmptySeq
  <2> QED BY <1>2, <2>3 DEF DoSweep
<1>6. /\ Handlers' /\ Coming' = {}
      /\ \A a : Buries(todo', a) => a \in Undead(m)
  <2>1. CASE todo' = <<>>
    BY <1>1, <1>2, <1>4, <2>1, HandlersIdle
  <2>2. CASE todo' = Bury(Undead(m))
    <3> DEFINE x == Step("bury", Undead(m))
    <3>1. x \in Steps /\ x[1] = "bury" /\ x[2] = Undead(m)
      BY Dead, Singles, Firsts
    <3>2. todo' = <<x>>
      BY <2>2 DEF Bury
    <3> HIDE DEF x
    <3>3. /\ todo' \in Seq(Steps) /\ Ordered(todo') /\ (\A S : Hurts(todo', S))
          /\ Does(todo', {"bury"}) /\ Head(todo') = x
          /\ \A a : Buries(todo', a) <=> a \in Undead(m)
      BY <3>1, <3>2, Alone
    <3>4. Coming' = {}
      BY <3>1, <3>3 DEF Coming, Doing
    <3> QED BY <1>1, <1>2, <1>4, <3>3, <3>4, Dead DEF Inv, Handlers
  <2> QED BY <1>5, <2>1, <2>2
<1>7. Known' \subseteq Known
  BY <1>4, <1>6 DEF Known
<1>8. Unflipped => Marked'
  BY <1>1, <1>2, <1>3, <1>4, MarkedStays DEF Untouched
<1>9. store' \in Stores /\ FileSound' /\ (Unflipped => OneCopy)' /\ (causes = {} => Kept)'
  BY <1>1, <1>3, <1>4, <1>6, <1>7, <1>8, Dead, StoreStays
<1> QED BY <1>1, <1>6, <1>9 DEF Inv, TypeOK

LEMMA BuryKeeps ==
  ASSUME Inv, DoBury
  PROVE  Inv'
<1>1. /\ Doing("bury") /\ todo \in Seq(Steps) /\ todo # <<>>
      /\ UNCHANGED <<store, mem, disk, active, screen, embedded, asked, causes>>
  BY DEF DoBury, Doing, Inv, Handlers
<1>2. Rest = <<>> /\ screen \notin {"off", "locked", "token"}
  BY <1>1, LastStep
<1>3. 1 \in 1..Len(todo) /\ Head(todo) = todo[1] /\ todo[1] \in Steps
  BY <1>1, Popped
<1>4. Arg \in SUBSET Accounts /\ \A b \in Arg : Buries(todo, b)
  <2>1. Arg \in SUBSET Accounts
    BY <1>1, <1>3 DEF Doing, Arg, Steps
  <2> QED BY <1>1, <1>3, <2>1 DEF Doing, Arg, Buries
<1>5. PICK a \in Arg :
        /\ todo' = Scrub(a) \o Clear(a)
                     \o (IF Arg = {a} THEN Save ELSE Bury(Arg \ {a})) \o Rest
        /\ dropped' = dropped \union {a}
  BY DEF DoBury
<1> DEFINE U == Arg \ {a}
<1>6. PICK ops \in {{"scrub", "clear", "save"}, {"scrub", "clear", "bury"}} :
        Plan(todo', a, U) /\ Does(todo', ops)
  <2>1. a \in Accounts /\ U \in SUBSET Accounts
    BY <1>4, <1>5
  <2> HIDE DEF U
  <2>2. CASE Arg = {a}
    <3>1. todo' = Scrub(a) \o Clear(a) \o Save \o <<>>
      BY <1>2, <1>5, <2>2
    <3> QED BY <2>1, <3>1, BuryPlans
  <2>3. CASE Arg # {a}
    <3>1. todo' = Scrub(a) \o Clear(a) \o Bury(U) \o <<>>
      BY <1>2, <1>5, <2>3 DEF U
    <3> QED BY <2>1, <3>1, BuryPlans
  <2> QED BY <2>2, <2>3
<1>7. /\ Excused' = Excused \union {a} /\ dropped' \subseteq Accounts /\ Coming = {}
      /\ SignedIn(mem)' = SignedIn(mem) /\ SignedIn(disk)' = SignedIn(disk)
  BY <1>1, <1>4, <1>5, Showing DEF Excused, SignedIn, Shown, Coming, Doing
<1>8. /\ todo' \in Seq(Steps) /\ Ordered(todo') /\ Hurts(todo', Excused') /\ Coming' = {}
      /\ \A b : Buries(todo', b) => Buries(todo, b)
  BY <1>4, <1>6, <1>7 DEF Plan, Hurts, Coming, Doing
<1>9. Unflipped => Marked'
  BY <1>1, <1>2, <1>7, MarkedStays
<1>10. Handlers'
  BY <1>1, <1>2, <1>7, <1>8 DEF Inv, Handlers
<1>11. Untouched(store, store') /\ Known' \subseteq Known
  BY <1>1, <1>7, <1>8, LookTouches DEF Moods, Known
<1>12. store' \in Stores /\ FileSound' /\ (Unflipped => OneCopy)' /\ (causes = {} => Kept)'
  BY <1>1, <1>7, <1>8, <1>9, <1>11, StoreStays
<1> QED BY <1>1, <1>7, <1>10, <1>12 DEF Inv, TypeOK

\* The session is remembered under the backend that keeps its secrets; they are all
\* there, so that it never goes back.
LEMMA PersistKeeps ==
  ASSUME Inv, NEW m \in Moods, DoPersist(m)
  PROVE  Inv'
<1> DEFINE a == Arg
<1>1. /\ Doing("persist") /\ todo \in Seq(Steps) /\ todo # <<>>
      /\ UNCHANGED <<disk, screen, embedded, dropped, causes>> /\ store \in Stores
  BY DEF DoPersist, Doing, Inv, Handlers, TypeOK
<1>2. screen \notin {"off", "locked", "token"}
  BY <1>1, LastStep
<1>3. a \in Accounts /\ a \in Coming /\ Coming = {a}
  <2>1. 1 \in 1..Len(todo) /\ Head(todo) = todo[1] /\ todo[1] \in Steps
    BY <1>1, Popped
  <2>2. a \in Accounts
    BY <1>1, <2>1 DEF Doing, Arg, Steps
  <2> QED BY <1>1, <2>2 DEF Coming
<1>4. /\ store.cache.full /\ Mine(a) \subseteq store.cache.held /\ mem.marker[a] = "none"
      /\ store.backend = "vault" => store.key # 0
  BY <1>3 DEF Inv, Handlers
<1> HIDE DEF a
<1>5. Class(m, a) = "Complete"
  BY <1>4 DEF Class, CanLook, Seen
<1>6. (IF State(m) \in {"VaultLocked", "VaultUnlocked"} THEN "vault" ELSE "keychain") = store.backend
  BY <1>1, <1>4 DEF State, Stores
<1>7. /\ mem' = [mem EXCEPT !.marker[a] = store.backend] /\ active' = a
      /\ \E twin \in {NoOne} \union SignedIn(mem) :
           /\ todo' = (IF twin = NoOne THEN <<>> ELSE Scrub(twin) \o Clear(twin))
                        \o Save \o Go("main") \o Sweep
           /\ asked' = asked \union ({twin} \ {NoOne})
  BY <1>5, <1>6 DEF DoPersist, a
<1>8. /\ mem \in Settings /\ mem' \in Settings /\ store.backend \in {"keychain", "vault"}
      /\ \A b \in Accounts : mem'.marker[b] = IF b = a THEN store.backend ELSE mem.marker[b]
  BY <1>1, <1>3, <1>7, Showing DEF Settings, Stores
<1>9. SignedIn(mem') = SignedIn(mem) \union {a} /\ SignedIn(disk)' = SignedIn(disk)
  BY <1>1, <1>2, <1>3, <1>8 DEF SignedIn
<1>10. /\ Handlers' /\ Coming' = {} /\ (\A b : ~Buries(todo', b)) /\ Excused \subseteq Excused'
       /\ asked' \subseteq Accounts
  <2>1. PICK twin \in {NoOne} \union SignedIn(mem) :
           /\ todo' = (IF twin = NoOne THEN <<>> ELSE Scrub(twin) \o Clear(twin))
                        \o Save \o Go("main") \o Sweep
           /\ asked' = asked \union ({twin} \ {NoOne})
    BY <1>7
  <2>2. Excused \subseteq Excused' /\ asked' \subseteq Accounts
    BY <1>1, <2>1, Showing DEF Excused, Shown
  <2>3. CASE twin = NoOne
    <3>1. Plan(todo', twin, {}) /\ Does(todo', {"save", "go", "sweep"})
      BY <2>1, <2>3, SavePlans
    <3> QED BY <1>1, <1>2, <1>7, <1>9, <2>2, <3>1, HandlersBegin
  <2>4. CASE twin # NoOne
    <3>1. twin \in Accounts /\ twin \in Excused'
      BY <2>1, <2>4, Showing DEF Excused
    <3>2. Plan(todo', twin, {}) /\ Does(todo', {"scrub", "clear", "save", "go", "sweep"})
      BY <2>1, <2>4, <3>1, LeavePlans
    <3> QED BY <1>1, <1>2, <1>7, <1>9, <2>2, <3>1, <3>2, HandlersBegin
  <2> QED BY <2>2, <2>3, <2>4
<1>11. Untouched(store, store')
  BY LookTouches DEF DoPersist
<1>12. /\ Held(store') = Held(store) /\ Other(store') = Other(store)
       /\ store'.backend = store.backend /\ store'.cache = store.cache
  <2>1. store' = store \/ store' = [store EXCEPT !.cache = Warm(store.cache.held)]
    BY <1>4 DEF DoPersist, Looked, CanLook, Seen, Cached
  <2> QED BY <1>1, <1>4, <1>11, <2>1 DEF Untouched, Held, Other, Warm, Stores
<1>13. Known' \subseteq Known
  BY <1>3, <1>9, <1>10 DEF Known, SignedIn
<1>14. ASSUME Unflipped' PROVE OneCopy'
  <2>1. Unflipped /\ OneCopy
    BY <1>1, <1>14 DEF Unflipped, Inv
  <2>2. \A b \in Known' : Agrees(store', b) /\ Opened(store')
    BY <1>11, <1>12, <1>13, <2>1 DEF OneCopy, Agrees, Opened, Untouched
  <2>3. Marked'
    BY <1>1, <1>2, <1>8, <1>10, <1>12, <2>1 DEF Marked, OneCopy, SignedIn
  <2> QED BY <1>10, <1>12, <1>13, <2>1, <2>2, <2>3 DEF OneCopy, Mine
<1>15. ASSUME causes' = {} PROVE Kept'
  <2>1. Kept
    BY <1>1, <1>15 DEF Inv
  <2> QED BY <1>12, <1>13, <2>1 DEF Kept, Mine
<1>16. store' \in Stores /\ FileSound'
  BY <1>11 DEF Untouched, Inv, FileSound
<1> QED BY <1>1, <1>7, <1>8, <1>3, <1>10, <1>14, <1>15, <1>16 DEF Inv, TypeOK

-----------------------------------------------------------------------------
(* The theorems.                                                           *)

LEMMA InitInv == Init => Inv
<1> SUFFICES ASSUME Init PROVE Inv
  OBVIOUS
<1>1. /\ Nothing \in Settings /\ SignedIn(Nothing) = {} /\ Fresh \in Stores /\ FileSound
  BY AccountsAssumption DEF Init, Nothing, Settings, SignedIn, Fresh, Stores, Cold, NoFile, FileSound
<1>2. TypeOK
  BY <1>1 DEF Init, TypeOK
<1>3. Handlers /\ Coming = {} /\ (\A a : ~Buries(todo, a)) /\ Known = {}
  BY <1>1, NothingLeft DEF Init, Handlers, Coming, Doing, Known, Idle, Excused
<1>4. OneCopy /\ Kept
  BY <1>1, <1>3 DEF Init, OneCopy, Marked, Kept, Nothing
<1> QED BY <1>1, <1>2, <1>3, <1>4 DEF Inv

LEMMA StutterKeeps == Inv /\ UNCHANGED vars => Inv'
<1> SUFFICES ASSUME Inv, UNCHANGED vars PROVE Inv'
  OBVIOUS
<1>1. TypeOK' /\ FileSound'
  BY DEF Inv, vars, TypeOK, FileSound
<1>2. Coming' = Coming /\ Excused' = Excused /\ Known' = Known /\ (Unflipped' <=> Unflipped)
  BY DEF vars, Coming, Doing, Arg, Excused, Known, Unflipped
<1>3. Handlers'
  BY <1>2 DEF Inv, vars, Handlers, Idle
<1>4. OneCopy => OneCopy'
  BY <1>2 DEF vars, OneCopy, Marked
<1>5. Kept => Kept'
  BY <1>2 DEF vars, Kept
<1> QED BY <1>1, <1>2, <1>3, <1>4, <1>5 DEF Inv, vars

LEMMA NextInv == Inv /\ [Next]_vars => Inv'
<1> SUFFICES ASSUME Inv, [Next]_vars PROVE Inv'
  OBVIOUS
<1>1. ASSUME Launch \/ Die PROVE Inv'
  BY <1>1, LaunchKeeps, DieKeeps
<1>2. ASSUME UseKeychain \/ CreatePassword PROVE Inv'
  BY <1>2, UseKeychainKeeps, CreatePasswordKeeps
<1>3. ASSUME CloseForm \/ SwitchAccount \/ ShowNext PROVE Inv'
  BY <1>3, ScreenKeeps
<1>4. ASSUME SignOut \/ GiveUpRestore \/ (\E a \in Accounts : SignOutOther(a)) PROVE Inv'
  BY <1>4, SignOutKeeps
<1>5. ASSUME NEW m \in Moods,
             \/ Gate(m) \/ UnlockVault(m) \/ ResetVault(m) \/ Recover(m)
             \/ ReadToken(m) \/ TryAgain(m) \/ GiveUpToken(m)
      PROVE  Inv'
  BY <1>5, GateKeeps, LockedKeeps, TokenKeeps
<1>6. ASSUME NEW m \in Moods,
             \/ CleanUp(m) \/ UseVault(m) \/ NeedPassword(m) \/ Commit(m)
             \/ AddAccount(m) \/ BackgroundRead(m)
      PROVE  Inv'
  BY <1>6, FormKeeps, CommitKeeps, ReadKeeps
<1>7. ASSUME NEW m \in Moods, DoCalls(m) PROVE Inv'
  BY <1>7, ScrubKeeps, WipeKeeps, SweepKeeps, PersistKeeps DEF DoCalls
<1>8. ASSUME DoMove PROVE Inv'
  BY <1>8, ClearKeeps, SaveKeeps, GoKeeps, BuryKeeps DEF DoMove
<1>9. CASE UNCHANGED vars
  BY <1>9, StutterKeeps
<1> QED BY <1>1, <1>2, <1>3, <1>4, <1>5, <1>6, <1>7, <1>8, <1>9 DEF Next

THEOREM Invariance == Spec => []Inv
<1>1. Init => Inv
  BY InitInv
<1>2. Inv /\ [Next]_vars => Inv'
  BY NextInv
<1> QED BY <1>1, <1>2, PTL DEF Spec

\* The shapes of the store, the settings and the screens are kept by every handler of
\* app_controller.cpp and of the sign-in form.
THEOREM TypeCorrect == Spec => []TypeOK
<1>1. Inv => TypeOK
  BY DEF Inv
<1> QED BY <1>1, Invariance, PTL

\* Wherever the program is killed, the next start (wantVault, and the gate of the
\* constructor of AppController) reads all secrets of every saved session that nobody
\* asked to sign out and that was not given up, as long as no master password was set and
\* no backend changed under a signed-in account, and no bundle was withheld at a sign-in.
THEOREM SavedSessionsAreFound == Spec => []SessionsAreFound
<1>1. Inv => SessionsAreFound
  <2> SUFFICES ASSUME Inv, causes = {}, NEW a \in SignedIn(disk) \ Excused
               PROVE  Mine(a) \subseteq StartCopy
    BY DEF SessionsAreFound, Excused
  <2>1. Unflipped /\ Kept
    BY DEF Unflipped, Inv
  <2>2. Mine(a) \subseteq Held(store)
    BY <2>1 DEF Kept, Known, Inv, Handlers
  <2>3. StartBackend(disk) = store.backend /\ store.backend \in {"keychain", "vault"}
    BY <2>1, StartsThere DEF Inv, TypeOK, Stores
  <2> QED BY <2>2, <2>3 DEF StartCopy, Held
<1> QED BY <1>1, Invariance, PTL

\* A master password that set_passphrase put over a vault sealed by another one locks out
\* no signed-in account, unless it was set beside one.
THEOREM NobodyIsLockedOut == Spec => []UnreadableVaultLocksOutNobody
<1>1. Inv => UnreadableVaultLocksOutNobody
  <2> SUFFICES ASSUME Inv, store.backend = "vault", store.key # 0, ~Readable(store),
                      causes = {}, NEW a \in SignedIn(disk) \ Excused
               PROVE  FALSE
    BY DEF UnreadableVaultLocksOutNobody, Excused
  <2>1. Unflipped /\ a \in Known
    BY DEF Unflipped, Known, Inv, Handlers
  <2>2. Opened(store)
    BY <2>1 DEF Inv, OneCopy
  <2> QED BY <2>2 DEF Opened, Readable, Opens
<1> QED BY <1>1, Invariance, PTL

\* Whom the program gives up by itself.
LEMMA DropEarned ==
  ASSUME Inv, Unflipped, [Next]_vars, NEW a \in dropped' \ Excused
  PROVE  ~Whole(a)
<1>1. ASSUME NEW m \in Moods, Gate(m) \/ Recover(m) PROVE ~Whole(a)
  <2>1. Idle /\ a = active /\ (Class(m, active) = "Incomplete" \/ State(m) = "VaultAbsent")
    BY <1>1 DEF Gate, Recover, Excused
  <2>2. active \in SignedIn(mem)
    BY <1>1, <2>1, AtIdle DEF Gate, Recover, Inv, Handlers, Excused
  <2> QED BY <2>1, <2>2, Earned
<1>2. ASSUME NEW m \in Moods, ReadToken(m) PROVE ~Whole(a)
  <2>1. /\ Idle /\ a = active /\ screen = "token"
        /\ Class(m, active) \in {"Complete", "Incomplete"}
        /\ <<active, "session">> \notin Seen(m)
    BY <1>2 DEF ReadToken, Excused
  <2>2. active \in SignedIn(mem)
    BY <2>1, AtIdle
  <2>3. Class(m, active) # "Complete"
    <3>1. <<active, "session">> \in Mine(active)
      BY DEF Mine, Kinds
    <3> QED BY <2>1, <3>1 DEF Class
  <2> QED BY <2>1, <2>2, <2>3, Earned
<1>3. ASSUME DoBury PROVE ~Whole(a)
  <2>1. Doing("bury") /\ a \in Arg /\ todo \in Seq(Steps) /\ todo # <<>>
    BY <1>3 DEF DoBury, Doing, Inv, Handlers, Excused
  <2>2. 1 \in 1..Len(todo) /\ Head(todo) = todo[1] /\ todo[1] \in Steps
    BY <2>1, Popped
  <2>3. Buries(todo, a) /\ a \in Accounts
    BY <2>1, <2>2 DEF Doing, Arg, Buries, Steps
  <2>4. a \in Known /\ ~(Mine(a) \subseteq Held(store))
    BY <2>3 DEF Inv, Handlers, OneCopy, Known, Excused
  <2> QED BY <2>4, WholeIsHeld
<1>4. CASE dropped' \subseteq dropped
  BY <1>4 DEF Excused
<1>5. ASSUME Launch \/ Die \/ UseKeychain \/ CreatePassword \/ CloseForm \/ SwitchAccount \/ SignOut
             \/ ShowNext \/ GiveUpRestore \/ (\E b \in Accounts : SignOutOther(b))
             \/ DoClear \/ DoSave \/ DoGo \/ UNCHANGED vars
      PROVE  dropped' \subseteq dropped
  BY <1>5 DEF Launch, Die, UseKeychain, CreatePassword, CloseForm, SwitchAccount, SignOut, ShowNext,
     GiveUpRestore, SignOutOther, DoClear, DoSave, DoGo, vars
<1>6. ASSUME NEW m \in Moods,
             \/ UnlockVault(m) \/ ResetVault(m) \/ TryAgain(m) \/ GiveUpToken(m)
             \/ CleanUp(m) \/ UseVault(m) \/ NeedPassword(m) \/ Commit(m)
             \/ AddAccount(m) \/ BackgroundRead(m) \/ DoCalls(m)
      PROVE  dropped' \subseteq dropped
  BY <1>6 DEF UnlockVault, ResetVault, TryAgain, GiveUpToken, CleanUp, UseVault, NeedPassword, Commit,
     AddAccount, BackgroundRead, DoCalls, DoScrub, DoWipe, DoSweep, DoPersist
<1> QED BY <1>1, <1>2, <1>3, <1>4, <1>5, <1>6 DEF Next, DoMove

\* dropInsecureSession, the absent token and sweepUndeadAccounts never sign out an account
\* that has all its secrets in one of the copies, whatever the keychain answers, before
\* a flip of the backend or a new password.
THEOREM DropsJustified == Spec => DropsAreEarned
<1>1. Inv /\ [Next]_vars =>
        [\A a \in dropped' \ (dropped \union asked) :
           ~Whole(a) \/ causes \intersect {"flip", "password"} # {}]_vars
  BY DropEarned DEF Unflipped, Excused
<1> QED BY <1>1, Invariance, PTL DEF Spec, DropsAreEarned
=============================================================================
