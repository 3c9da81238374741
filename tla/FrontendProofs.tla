---------------------------- MODULE FrontendProofs ----------------------------
(***************************************************************************)
(* Theorems about the frontend: its 23 pages, the override files, the      *)
(* session and the bell, for any keys a page can list or open, any names   *)
(* of files, and any number of requests in flight.                         *)
(*                                                                         *)
(* The pages are described in PageOps' vocabulary, and first it is proved  *)
(* of each description that its parts fit together (PagesFit): which       *)
(* handlers share a busy signal, what a handler changes, blanks and        *)
(* reloads.  All that follows holds for whatever page fits.  The invariant *)
(* of a page (PageInv) says that its signals and requests are typed, that  *)
(* the signal of an exclusive change is up as long as its one request or   *)
(* the reloads it awaits are in flight, that a signal that is up has a     *)
(* request behind it, and that of every field on the screen the user is    *)
(* told, or it is being put right.                                         *)
(* Each action of Page is then followed in three steps: what it does to    *)
(* the requests, to the signals, and to each part of the invariant.        *)
(***************************************************************************)
EXTENDS MCFrontend, TLAPS, FiniteSetTheorems, SequenceTheorems, FunctionTheorems

\* What is left of the requests once one is over, and the others in order.
LEMMA Removal ==
    ASSUME NEW S, NEW s \in Seq(S), NEW i \in DOMAIN s
    PROVE  /\ RemoveAt(s, i) \in Seq(S)
           /\ Len(RemoveAt(s, i)) = Len(s) - 1
           /\ \A j \in DOMAIN RemoveAt(s, i) :
                RemoveAt(s, i)[j] = s[IF j < i THEN j ELSE j + 1]
<1> DEFINE n == Len(s)
           a == SubSeq(s, 1, i - 1)
           b == SubSeq(s, i + 1, n)
<1>1. n \in Nat /\ DOMAIN s = 1 .. n /\ i \in 1 .. n /\ \A j \in 1 .. n : s[j] \in S
  BY LenProperties, ElementOfSeq
<1> HIDE DEF n
<1>2. /\ a \in Seq(S) /\ Len(a) = i - 1
      /\ \A j \in 1 .. i - 1 : a[j] = s[j]
  <2>1. \A j \in 1 .. i - 1 : s[j] \in S
    BY <1>1
  <2>2. /\ a \in Seq(S)
        /\ Len(a) = IF 1 <= i - 1 THEN (i - 1) - 1 + 1 ELSE 0
        /\ \A j \in 1 .. (i - 1) - 1 + 1 : a[j] = s[1 + j - 1]
    BY <1>1, <2>1, SubSeqProperties
  <2> HIDE DEF a
  <2> QED BY <1>1, <2>2
<1>3. /\ b \in Seq(S) /\ Len(b) = n - i
      /\ \A j \in 1 .. n - i : b[j] = s[i + j]
  <2>1. \A j \in i + 1 .. n : s[j] \in S
    BY <1>1
  <2>2. /\ b \in Seq(S)
        /\ Len(b) = IF i + 1 <= n THEN n - (i + 1) + 1 ELSE 0
        /\ \A j \in 1 .. n - (i + 1) + 1 : b[j] = s[(i + 1) + j - 1]
    BY <1>1, <2>1, SubSeqProperties
  <2>3. n - (i + 1) + 1 = n - i /\ \A j \in 1 .. n - i : (i + 1) + j - 1 = i + j
    BY <1>1
  <2>4. Len(b) = n - i
    <3> HIDE DEF b
    <3> QED BY <1>1, <2>2
  <2> HIDE DEF b
  <2> QED BY <2>2, <2>3, <2>4
<1>4. RemoveAt(s, i) = a \o b
  BY DEF RemoveAt, n
<1> HIDE DEF a, b
<1>5. /\ a \o b \in Seq(S) /\ Len(a \o b) = Len(a) + Len(b)
      /\ \A j \in 1 .. Len(a) + Len(b) :
           (a \o b)[j] = IF j <= Len(a) THEN a[j] ELSE b[j - Len(a)]
  BY <1>2, <1>3, ConcatProperties
<1>6. Len(a \o b) = n - 1 /\ DOMAIN (a \o b) = 1 .. n - 1
  BY <1>1, <1>2, <1>3, <1>5, LenProperties
<1>7. ASSUME NEW j \in 1 .. n - 1
      PROVE  (a \o b)[j] = s[IF j < i THEN j ELSE j + 1]
  <2>1. CASE j < i
    <3>1. j \in 1 .. i - 1 /\ j \in 1 .. Len(a) + Len(b) /\ j <= Len(a)
      BY <1>1, <1>2, <1>3, <2>1
    <3>2. (a \o b)[j] = a[j]
      BY <1>5, <3>1
    <3> QED BY <1>2, <2>1, <3>1, <3>2
  <2>2. CASE ~(j < i)
    <3>0. j \in 1 .. Len(a) + Len(b) /\ ~(j <= Len(a))
      BY <1>1, <1>2, <1>3, <2>2
    <3>1. (a \o b)[j] = b[j - (i - 1)]
      BY <1>2, <1>5, <3>0
    <3>2. b[j - (i - 1)] = s[i + (j - (i - 1))]
      BY <1>1, <1>3, <2>2
    <3>3. i + (j - (i - 1)) = j + 1
      BY <1>1
    <3> QED BY <2>2, <3>1, <3>2, <3>3
  <2> QED BY <2>1, <2>2
<1> QED BY <1>4, <1>5, <1>6, <1>7 DEF n

\* So a request is left exactly when it is another than the one that is over.
LEMMA Remaining ==
    ASSUME NEW S, NEW s \in Seq(S), NEW i \in DOMAIN s
    PROVE  /\ \A j \in DOMAIN RemoveAt(s, i) : \E k \in DOMAIN s \ {i} : RemoveAt(s, i)[j] = s[k]
           /\ \A k \in DOMAIN s \ {i} : \E j \in DOMAIN RemoveAt(s, i) : RemoveAt(s, i)[j] = s[k]
<1> DEFINE r == RemoveAt(s, i)
<1>1. /\ r \in Seq(S) /\ Len(r) = Len(s) - 1
      /\ \A j \in DOMAIN r : r[j] = s[IF j < i THEN j ELSE j + 1]
  BY Removal
<1> HIDE DEF r
<1>2. /\ Len(s) \in Nat /\ DOMAIN s = 1 .. Len(s)
      /\ DOMAIN r = 1 .. Len(s) - 1
  BY <1>1, LenProperties
<1>3. ASSUME NEW j \in DOMAIN r
      PROVE  \E k \in DOMAIN s \ {i} : r[j] = s[k]
  <2>1. (IF j < i THEN j ELSE j + 1) \in DOMAIN s \ {i}
    BY <1>2
  <2> QED BY <1>1, <2>1
<1>4. ASSUME NEW k \in DOMAIN s \ {i}
      PROVE  \E j \in DOMAIN r : r[j] = s[k]
  <2> DEFINE j == IF k < i THEN k ELSE k - 1
  <2>1. j \in DOMAIN r /\ (IF j < i THEN j ELSE j + 1) = k
    BY <1>2
  <2> QED BY <1>1, <2>1
<1> QED BY <1>3, <1>4 DEF r

\* Two requests left are two that were there.
LEMMA RemainingApart ==
    ASSUME NEW S, NEW s \in Seq(S), NEW i \in DOMAIN s,
           NEW j \in DOMAIN RemoveAt(s, i), NEW k \in DOMAIN RemoveAt(s, i), j # k
    PROVE  \E jj \in DOMAIN s \ {i}, kk \in DOMAIN s \ {i} :
             jj # kk /\ RemoveAt(s, i)[j] = s[jj] /\ RemoveAt(s, i)[k] = s[kk]
<1> DEFINE r == RemoveAt(s, i)
           At(x) == IF x < i THEN x ELSE x + 1
<1>1. /\ r \in Seq(S) /\ Len(r) = Len(s) - 1
      /\ \A x \in DOMAIN r : r[x] = s[At(x)]
  BY Removal
<1> HIDE DEF r
<1>2. /\ Len(s) \in Nat /\ DOMAIN s = 1 .. Len(s)
      /\ DOMAIN r = 1 .. Len(s) - 1
  BY <1>1, LenProperties
<1>3. j \in DOMAIN r /\ k \in DOMAIN r
  BY DEF r
<1>4. At(j) \in DOMAIN s \ {i} /\ At(k) \in DOMAIN s \ {i} /\ At(j) # At(k)
  BY <1>2, <1>3
<1>5. r[j] = s[At(j)] /\ r[k] = s[At(k)]
  BY <1>1, <1>3
<1> HIDE DEF At
<1> QED BY <1>4, <1>5 DEF r

\* A list of a finite set has each of its elements once.
LEMMA Listing ==
    ASSUME NEW S, IsFiniteSet(S)
    PROVE  /\ SetToSeq(S) \in Seq(S)
           /\ Len(SetToSeq(S)) = Cardinality(S)
           /\ \A x \in S : \E i \in DOMAIN SetToSeq(S) : SetToSeq(S)[i] = x
           /\ \A i, j \in DOMAIN SetToSeq(S) : SetToSeq(S)[i] = SetToSeq(S)[j] => i = j
<1> DEFINE n == Cardinality(S)
           s == SetToSeq(S)
<1>1. n \in Nat /\ ExistsBijection(1 .. n, S)
  BY FS_CardinalityType
<1>2. PICK g \in Bijection(1 .. n, S) : TRUE
  BY <1>1 DEF ExistsBijection
<1>3. g \in [1 .. n -> S] /\ IsInjective(g)
  BY <1>2, Fun_BijectionProperties DEF Injection
<1>4. s \in [1 .. n -> S] /\ IsInjective(s)
  BY <1>3 DEF SetToSeq
<1> HIDE DEF s, n
<1>5. IsFiniteSet(1 .. n) /\ Cardinality(1 .. n) = n
  BY <1>1, FS_Interval
<1>6. s \in Surjection(1 .. n, S)
  BY <1>4, <1>5, FS_Injection DEF Injection, n
<1>7. \A x \in S : \E i \in 1 .. n : s[i] = x
  BY <1>6 DEF Surjection
<1>8. s \in Seq(S) /\ Len(s) = n /\ DOMAIN s = 1 .. n
  <2>1. s \in Seq(S)
    BY <1>1, <1>4, SeqDef
  <2> QED BY <1>1, <1>4, <2>1, LenProperties
<1>9. \A i, j \in DOMAIN s : s[i] = s[j] => i = j
  BY <1>4 DEF IsInjective
<1> QED BY <1>7, <1>8, <1>9 DEF s, n

\* The loads of a set are sent once each, and are told apart by their handlers.
LEMMA Sending ==
    ASSUME NEW os, IsFiniteSet(os), NEW key, NEW by
    PROVE  /\ Calls(os, key, by) \in Seq({Call(o, key, none, by) : o \in os})
           /\ os # {} => Calls(os, key, by) # <<>>
           /\ \A i \in DOMAIN Calls(os, key, by) :
                \E o \in os : Calls(os, key, by)[i] = Call(o, key, none, by)
           /\ \A o \in os : \E i \in DOMAIN Calls(os, key, by) :
                Calls(os, key, by)[i] = Call(o, key, none, by)
           /\ \A i, j \in DOMAIN Calls(os, key, by) :
                Calls(os, key, by)[i].op = Calls(os, key, by)[j].op => i = j
<1> DEFINE S == {Call(o, key, none, by) : o \in os}
           s == Calls(os, key, by)
           f == [o \in os |-> Call(o, key, none, by)]
<1>1. \A o : Call(o, key, none, by).op = o
  BY DEF Call
<1>2. f \in Surjection(os, S)
  BY DEF Surjection
<1>3. IsFiniteSet(S)
  BY <1>2, FS_Surjection
<1>4. s = SetToSeq(S)
  BY DEF Calls
<1>5. /\ s \in Seq(S)
      /\ \A x \in S : \E i \in DOMAIN s : s[i] = x
      /\ \A i, j \in DOMAIN s : s[i] = s[j] => i = j
  BY <1>3, <1>4, Listing
<1> HIDE DEF s
<1>6. DOMAIN s = 1 .. Len(s) /\ \A i \in DOMAIN s : s[i] \in S
  BY <1>5, LenProperties, ElementOfSeq
<1>7. \A i \in DOMAIN s : \E o \in os : s[i] = Call(o, key, none, by)
  BY <1>6
<1>8. \A o \in os : \E i \in DOMAIN s : s[i] = Call(o, key, none, by)
  BY <1>5
<1>9. \A i, j \in DOMAIN s : s[i].op = s[j].op => i = j
  BY <1>1, <1>5, <1>7
<1>10. os # {} => s # <<>>
  BY <1>8
<1> QED BY <1>5, <1>7, <1>8, <1>9, <1>10 DEF s

IsPage == \E name \in DOMAIN Pages : page = Running(name)

Reloaded(o) == UNION {Op(l).shows : l \in Op(o).reloads}
Opens == page.keys \cup {page.opens}
Loads == page.first \cup page.choice.runs \cup UNION {Op(o).reloads : o \in Ops}
Gap(o, f) == <<page.name, o, f>> \in KnownGaps

\* A change whose button is disabled, while it runs, for every row.
Exclusive(o) == Op(o).byUser /\ Op(o).anyRow /\ Op(o).changes # {}

\* What a handler sets, empties and reloads fits together.
FieldsFit(o) ==
  LET op == Op(o)
  IN /\ op.blanks \cup op.loses \subseteq op.shows
     /\ op.reloads \subseteq Ops
     /\ op.rowKey => op.rowsOf # none /\ op.rowsOf \in Fields
     /\ ~op.asks => op.reloads # {}
     /\ op.closes => page.opens = none
     /\ op.checks => op.error # none

\* The busy signal of such a change is held by no load and no button of one row.
FlagFits(o) ==
  Exclusive(o) => /\ Op(o).flag # none
                  /\ \A p \in Ops : Op(p).flag = Op(o).flag =>
                       Op(p).byUser /\ (Op(p).rowed => Op(p).anyRow) /\ p \notin Loads

HandlerFits(o) == FieldsFit(o) /\ FlagFits(o)

\* A load asks, changes nothing and awaits nothing.
LoadFits(l) ==
  LET op == Op(l)
  IN l \in Ops /\ op.asks /\ op.changes = {} /\ op.reloads = {}

ChoiceFits ==
  /\ IsFiniteSet(Loads)
  /\ page.opens \in Anywhere /\ page.keys \subseteq Keys \cup Tabs
  /\ page.keyed \subseteq Fields /\ page.choice.leaves \subseteq page.keyed
  /\ page.choice.same = "close" => page.opens = none

Fits == /\ \A o \in Ops : HandlerFits(o)
        /\ \A l \in Loads : LoadFits(l)
        /\ ChoiceFits

Tabbed == DOMAIN page.tab

\* With key `k` open the field is on the screen.
SeenAt(k, f) == /\ f \in Tabbed => page.tab[f] = k
                /\ f \in page.keyed => k # none

\* What an answer of the handler sets, its reloads included.
Targets(o) == Op(o).shows \cup Reloaded(o)

\* Wherever the field is on the screen, so is the control of the handler.
Covers(o, f) == Op(o).form = none /\ \A k \in Opens : SeenAt(k, f) => k \in Op(o).at

\* What a handler changes it sets, or fails with a banner, or the change is a known gap.
Mends(o) ==
  \A f \in Op(o).changes :
    \/ Gap(o, f)
    \/ f \in Targets(o) /\ Op(o).error # none /\ (Op(o).everyKey => f \notin page.keyed)

\* Its failure has a banner, and that of some handler that has to do with the field is
\* shown where the fields are that it would have set; or the field is one that it changes
\* and does not empty; or it only reloads it, and its banner says nothing of it.
Announces(o) ==
  Op(o).asks => \A f \in Targets(o) :
    /\ Op(o).error # none
    /\ \/ o \in page.about[f] /\ f \in Op(o).changes \ (Op(o).loses \cup Tabbed)
       \/ \E p \in page.about[f] : Op(p).error = Op(o).error /\ Covers(p, f)
       \/ f \notin Op(o).shows /\ ~Speaks(o, f)

\* The banners about a field that is always on the screen are so too.
StaysUp(o) ==
  \A f \in Fields \ (Tabbed \cup page.keyed) : o \in page.about[f] => page.keys \subseteq Op(o).at

\* Whoever empties fields does so for the open key.
BlanksOpen(o) == /\ Op(o).rowKey => Op(o).blanks = {}
                 /\ ~Op(o).asks => Op(o).blanks = {}

\* A handler of a page of tabs belongs to the tab of its fields and is in no form, and
\* takes the banners of no other tab down.
InTab(o) ==
  Tabbed = {} \/ /\ ~Op(o).heals /\ ~Op(o).closes /\ Op(o).asks
                 /\ Op(o).form = none /\ Op(o).mayShut = {}
                 /\ \A f \in Targets(o) : Op(o).at = {page.tab[f]}
                 /\ \A f \in Fields : \A p \in page.about[f] : Op(p).error \in Op(o).clears =>
                      /\ Op(o).at \subseteq {page.tab[f]}
                      /\ o \in Loads => f \in Op(o).shows

HandlerTells(o) == Mends(o) /\ Announces(o) /\ StaysUp(o) /\ BlanksOpen(o) /\ InTab(o)

\* What is on the screen is read: by the constructor, or with the key it is held by.
ChoiceTells ==
  /\ \A f \in page.keyed : ~page.choice.lazy /\ \A k \in page.keys : \E l \in page.choice.runs :
       f \in Op(l).shows /\ k \in Op(l).at
  /\ \A f \in Fields \ Tabbed : SeenAt(page.opens, f) => \E l \in page.first : f \in Op(l).shows
  /\ page.choice.same = "close" => Tabbed = {}

\* The fields of a page of tabs are read by the constructor, or with their tab.
TabsTell ==
  Tabbed = {} \/ /\ Tabbed = Fields /\ page.keyed = {} /\ page.choice.clears = {}
                 /\ page.opens \in page.keys /\ \A l \in page.first : page.opens \in Op(l).at
                 /\ \A f \in Fields :
                      /\ page.tab[f] \in page.keys
                      /\ \/ \E l \in page.first : f \in Op(l).shows
                         \/ /\ page.tab[f] # page.opens
                            /\ \E l \in page.choice.runs : f \in Op(l).shows /\ page.tab[f] \in Op(l).at

Tells == (\A o \in Ops : HandlerTells(o)) /\ ChoiceTells /\ TabsTell

\* What a running page derives from its description.
LEMMA Described ==
    IsPage =>
      /\ page.name \in DOMAIN Pages
      /\ Fields = UNION {Op(o).shows \cup Op(o).changes : o \in Ops}
      /\ Flags = {Op(o).flag : o \in Ops} \ {none}
      /\ Banners = {Op(o).error : o \in Ops} \ {none}
      /\ page.forms = {Op(o).form : o \in Ops} \ {none}
      /\ \A f \in Fields :
           page.about[f] = {o \in Ops : f \in Op(o).changes \cup Op(o).shows /\ ~Gap(o, f)}
BY DEF IsPage, Running, Fields, Flags, Banners, Op, Ops, Gap

\* Two pages have gaps.
LEMMA NoGaps ==
    ASSUME page.name \notin {"users", "dkim"}
    PROVE  \A o : \A f : ~Gap(o, f)
BY DEF Gap, KnownGaps

-----------------------------------------------------------------------------
(* The descriptions of the pages fit.                                        *)

\* What a description, or the page it describes, says of keys.
Plan(p, first, keyed, runs) ==
  /\ p.first = first /\ p.keyed = keyed /\ p.choice.runs = runs
  /\ p.opens \in Anywhere /\ p.keys \subseteq Keys \cup Tabs
  /\ p.choice.leaves \subseteq keyed
  /\ p.choice.same = "close" => p.opens = none

\* No tabs, and nothing is kept of what was read before: a field that is not held per
\* key is on the screen whichever is open.
Untabbed(p, opens) ==
  DOMAIN p.tab = {} /\ p.choice.lazy = FALSE /\ p.keys \subseteq Keys /\ p.opens \in opens

\* A load.
Reader(op, flag, fields) ==
  /\ op.asks = TRUE /\ op.flag = flag /\ op.shows = fields
  /\ op.changes = {} /\ op.reloads = {} /\ op.form = none
  /\ op.rowKey = FALSE /\ op.checks = FALSE /\ op.closes = FALSE /\ op.rowed = FALSE
  /\ op.blanks \subseteq fields /\ op.loses \subseteq fields

\* A handler the user starts.
Writer(op, flag, loads) ==
  /\ op.byUser = TRUE /\ op.flag = flag /\ op.reloads = loads
  /\ op.blanks = {} /\ op.loses = {} /\ (op.checks = TRUE => op.error # none)
  /\ op.asks = FALSE => loads # {}

\* ... that is not for the key of its row, and closes no panel; its button is disabled,
\* while it runs, for every row, or for its own.
Plain(op) == op.rowKey = FALSE /\ op.closes = FALSE
Whole(op, flag, loads) == Writer(op, flag, loads) /\ op.anyRow = TRUE /\ Plain(op)
Single(op, flag, loads) == Writer(op, flag, loads) /\ op.anyRow = FALSE /\ Plain(op)

\* Its control is always on the screen, and its failure has a banner.
Loud(op, error) == op.at = Anywhere /\ op.error = error /\ error # none /\ op.everyKey = FALSE

\* The same for a control of the panel of the open key.
Paneled(op, error) == op.at = Keys /\ op.error = error /\ error # none /\ op.everyKey = FALSE

Alters(op, changes, shows) == op.changes = changes /\ op.shows = shows

\* The same for a control of a tab, which takes down its own banner only.
InItsTab(op, tab, error) ==
  /\ op.at = {tab} /\ op.error = error /\ error # none /\ op.clears = {error}
  /\ op.asks = TRUE /\ op.heals = FALSE /\ op.everyKey = FALSE
  /\ op.form = none /\ op.mayShut = {}

\* What a handler sets it changes, or it is on the screen only with its banner, or with
\* the same banner of the load that sets it, or its banner says nothing of it.
Spoken(o) ==
  /\ Keys \subseteq Op(o).at
  /\ Op(o).asks => \A f \in Targets(o) :
       /\ Op(o).error # none
       /\ \/ f \in Op(o).changes \ Op(o).loses /\ ~Gap(o, f)
          \/ /\ f \in Op(o).shows /\ ~Gap(o, f) /\ Op(o).form = none
             /\ Op(o).at = Anywhere \/ f \in page.keyed
          \/ \E l \in Op(o).reloads \cap Ops :
               /\ f \in Op(l).shows /\ ~Gap(l, f)
               /\ Op(l).error = Op(o).error /\ Op(l).form = none /\ Op(l).at = Anywhere
          \/ f \notin Op(o).shows /\ ~Speaks(o, f)

\* A page with nothing to choose.
LEMMA PageOfPlan ==
    ASSUME NEW h
    PROVE  Plan(PageOf(h), {"load"}, {}, {}) /\ Untabbed(PageOf(h), {none})
<1>1. /\ PageOf(h).first = {"load"} /\ PageOf(h).keyed = {} /\ PageOf(h).opens = none
      /\ PageOf(h).keys = {} /\ PageOf(h).choice = Choice /\ DOMAIN PageOf(h).tab = {}
  BY DEF PageOf
<1>2. Choice.runs = {} /\ Choice.leaves = {} /\ Choice.same = "ignore" /\ Choice.lazy = FALSE
  BY DEF Choice
<1> QED BY <1>1, <1>2 DEF Plan, Untabbed, Anywhere

\* A page with one scope open at a time.
LEMMA ScopedPlan ==
    ASSUME NEW h, NEW field
    PROVE  Plan(ScopedPage(h, field), {"load"}, {field}, {"load"}) /\ Untabbed(ScopedPage(h, field), Keys)
<1> DEFINE p == ScopedPage(h, field)
<1>1. p.first = {"load"} /\ p.keys = Keys /\ p.keyed = {field} /\ DOMAIN p.tab = {}
  BY DEF ScopedPage, PageOf
<1>2. p.opens \in Keys
  BY KeysApart DEF ScopedPage, PageOf
<1>3. p.choice = [Choice EXCEPT !.runs = {"load"}]
  BY DEF ScopedPage, PageOf
<1> HIDE DEF p
<1>4. /\ p.choice.runs = {"load"} /\ p.choice.leaves = {} /\ p.choice.same = "ignore"
      /\ p.choice.lazy = FALSE
  BY <1>3 DEF Choice
<1>5. Plan(p, {"load"}, {field}, {"load"}) /\ Untabbed(p, Keys)
  BY <1>1, <1>2, <1>4 DEF Plan, Untabbed, Anywhere
<1> QED BY <1>5 DEF p

\* A running page has the keys and the handlers of its description.
LEMMA RunningPlan ==
    ASSUME NEW name \in DOMAIN Pages, page = Running(name), NEW p, Pages[name] = p,
           NEW first, NEW keyed, NEW runs, Plan(p, first, keyed, runs)
    PROVE  /\ Plan(page, first, keyed, runs) /\ page.opens = p.opens
           /\ page.ops = p.ops /\ Ops = DOMAIN p.ops /\ page.name = name /\ IsPage
           /\ \A opens : Untabbed(p, opens) => Untabbed(page, opens)
<1>1. /\ page.ops = p.ops /\ page.first = p.first /\ page.opens = p.opens /\ page.keys = p.keys
      /\ page.keyed = p.keyed /\ page.choice = p.choice /\ page.tab = p.tab /\ page.name = name
  BY DEF Running
<1> QED BY <1>1 DEF Plan, Untabbed, Ops, IsPage

\* The loads of a page are two at most,
LEMMA TwoFinite == ASSUME NEW a, NEW b PROVE IsFiniteSet({a, b})
<1>1. IsFiniteSet({b}) /\ {a, b} = {b} \cup {a}
  BY FS_Singleton
<1> QED BY <1>1, FS_AddElement

\* ... or three.
LEMMA ThreeFinite == ASSUME NEW a, NEW b, NEW c PROVE IsFiniteSet({a, b, c})
<1>1. IsFiniteSet({b, c}) /\ {a, b, c} = {b, c} \cup {a}
  BY TwoFinite
<1> QED BY <1>1, FS_AddElement

\* What the constructors of handlers make: a load,
LEMMA LoadReads ==
    ASSUME NEW flag, NEW error, NEW fields, error # none
    PROVE  Reader(Load(flag, error, fields), flag, fields) /\ Loud(Load(flag, error, fields), error)
BY DEF Load, Handler, Reader, Loud

\* ... one with a refresh button,
LEMMA RefreshReads ==
    ASSUME NEW flag, NEW error, NEW fields, error # none
    PROVE  /\ Reader(Refreshable(Load(flag, error, fields)), flag, fields)
           /\ Loud(Refreshable(Load(flag, error, fields)), error)
BY DEF Refreshable, Load, Handler, Reader, Loud

\* ... the load of a tab of the fail2ban page,
LEMMA TabLoadReads ==
    ASSUME NEW flag, NEW error, NEW fields, NEW tab, error # none
    PROVE  LET op == TabLoad(flag, error, fields, tab)
           IN  Reader(op, flag, fields) /\ InItsTab(op, tab, error)
BY DEF TabLoad, Load, Handler, Reader, InItsTab

\* ... the load of a tile of the dashboard,
LEMMA TileReads ==
    ASSUME NEW flag, NEW error, NEW data, error # none
    PROVE  Reader(Tile(flag, error, data), flag, {data}) /\ Loud(Tile(flag, error, data), error)
BY DEF Tile, Load, Handler, Reader, Loud

\* ... a change sent by a form,
LEMMA SubmitWrites ==
    ASSUME NEW flag, NEW error, NEW fields, NEW loads, error # none
    PROVE  LET op == Submit(flag, error, fields, loads)
           IN  Whole(op, flag, loads) /\ Loud(op, error) /\ Alters(op, fields, {})
BY DEF Submit, Change, Handler, Writer, Plain, Whole, Loud, Alters

\* ... a change sent from a row,
LEMMA RowChangeWrites ==
    ASSUME NEW flag, NEW error, NEW list, NEW fields, NEW loads, error # none
    PROVE  LET op == RowChange(flag, error, list, fields, loads)
           IN  Single(op, flag, loads) /\ Loud(op, error) /\ Alters(op, fields, {})
BY DEF RowChange, Change, Handler, Writer, Plain, Single, Loud, Alters

\* ... and an editor that is saved.
LEMMA SaveWrites ==
    ASSUME NEW flag, NEW error, NEW field, error # none
    PROVE  LET op == Save(flag, error, field)
           IN  /\ Whole(op, flag, {}) /\ Loud(op, error) /\ Alters(op, {field}, {field})
               /\ op.form = none
BY DEF Save, Handler, Writer, Plain, Whole, Loud, Alters

\* A page without tabs tells what goes wrong if each of its handlers does.
LEMMA UntabbedTells ==
    ASSUME IsPage, NEW opens \in SUBSET (Keys \cup {none}), Untabbed(page, opens), ChoiceTells,
           \A o \in Ops : FieldsFit(o) /\ Mends(o) /\ BlanksOpen(o) /\ Spoken(o)
    PROVE  Tells
<1>1. Tabbed = {} /\ Opens \subseteq Keys \cup {none} /\ page.keys \subseteq Keys
  BY DEF Untabbed, Tabbed, Opens
<1>2. ASSUME NEW p \in Ops, NEW f \in Op(p).shows \cup Op(p).changes, ~Gap(p, f)
      PROVE  f \in Fields /\ p \in page.about[f]
  BY <1>2, Described
<1>3. ASSUME NEW o \in Ops PROVE HandlerTells(o)
  <2>1. Announces(o)
    <3> SUFFICES ASSUME Op(o).asks, NEW f \in Targets(o)
                 PROVE  /\ Op(o).error # none
                        /\ \/ o \in page.about[f] /\ f \in Op(o).changes \ (Op(o).loses \cup Tabbed)
                           \/ \E p \in page.about[f] : Op(p).error = Op(o).error /\ Covers(p, f)
                           \/ f \notin Op(o).shows /\ ~Speaks(o, f)
      BY DEF Announces
    <3>1. ASSUME NEW p \in Ops, Op(p).at = Anywhere, Op(p).form = none PROVE Covers(p, f)
      BY <1>1, <3>1 DEF Covers, Anywhere
    <3>2. f \in page.keyed /\ Op(o).form = none => Covers(o, f)
      BY <1>1 DEF Covers, SeenAt, Spoken
    <3>3. CASE f \in Op(o).changes \ Op(o).loses /\ ~Gap(o, f)
      BY <1>1, <1>2, <3>3 DEF Spoken
    <3>4. CASE /\ f \in Op(o).shows /\ ~Gap(o, f) /\ Op(o).form = none
               /\ Op(o).at = Anywhere \/ f \in page.keyed
      BY <1>2, <3>1, <3>2, <3>4 DEF Spoken
    <3>5. CASE \E l \in Op(o).reloads \cap Ops :
                 /\ f \in Op(l).shows /\ ~Gap(l, f)
                 /\ Op(l).error = Op(o).error /\ Op(l).form = none /\ Op(l).at = Anywhere
      BY <1>2, <3>1, <3>5 DEF Spoken
    <3> QED BY <3>3, <3>4, <3>5 DEF Spoken
  <2>2. StaysUp(o)
    BY <1>1 DEF StaysUp, Spoken
  <2>3. InTab(o)
    BY <1>1 DEF InTab
  <2> QED BY <2>1, <2>2, <2>3 DEF HandlerTells
<1> QED BY <1>1, <1>3 DEF Tells, TabsTell

\* sieve.ts, spam.ts, ldap.ts.
LEMMA EditorFits ==
    ASSUME NEW name \in {"sieve", "spam", "ldap"}, page = Running(name)
    PROVE  Fits /\ Tells
<1>1. name \in DOMAIN Pages /\ Pages[name] = Editor
  BY DEF Pages, Sieve, Spam, Ldap
<1>2. Plan(Editor, {"load"}, {"content"}, {"load"}) /\ Untabbed(Editor, Keys)
  BY ScopedPlan DEF Editor
<1>3. DOMAIN Editor.ops = {"load", "onSave"}
  BY DEF Editor, ScopedPage, PageOf
<1>4. /\ page.ops = Editor.ops /\ Ops = {"load", "onSave"}
      /\ Plan(page, {"load"}, {"content"}, {"load"}) /\ Untabbed(page, Keys)
      /\ page.name = name /\ IsPage
  BY <1>1, <1>2, <1>3, RunningPlan
<1>5. Reader(Op("load"), "loading", {"content"}) /\ Loud(Op("load"), "error")
  BY <1>4, LoadReads DEF Op, none, Editor, ScopedPage, PageOf
<1>6. /\ Whole(Op("onSave"), "saving", {}) /\ Loud(Op("onSave"), "error")
      /\ Alters(Op("onSave"), {"content"}, {"content"})
  BY <1>4, SaveWrites DEF Op, none, Editor, ScopedPage, PageOf
<1>7. Loads = {"load"}
  BY <1>4, <1>5, <1>6 DEF Loads, Plan, Reader, Writer, Plain, Whole
<1>8. IsFiniteSet(Loads)
  BY <1>7, FS_Singleton
<1>9. page.keyed \subseteq Fields
  BY <1>4, <1>5, <1>6, Described DEF Plan, Reader
<1>10. \A o \in Ops : FieldsFit(o)
  BY <1>4, <1>5, <1>6 DEF FieldsFit, Reader, Writer, Plain, Whole, Loud, Alters, none
<1>11. \A o \in Ops : FlagFits(o)
  BY <1>4, <1>7, <1>5, <1>6 DEF FlagFits, Exclusive, Reader, Writer, Plain, Whole, Alters, none
<1>12. \A l \in Loads : LoadFits(l)
  BY <1>4, <1>7, <1>5 DEF LoadFits, Reader
<1>13. \A o : \A f : ~Gap(o, f)
  BY <1>4, NoGaps
<1>14. \A o \in Ops : Mends(o) /\ BlanksOpen(o)
  BY <1>4, <1>5, <1>6 DEF Plan, Mends, BlanksOpen, Targets, Reloaded, Reader, Writer, Plain,
       Whole, Loud, Alters, none
<1>15. \A o \in Ops : Spoken(o)
  BY <1>4, KeysApart, <1>13, <1>5, <1>6 DEF Plan, Spoken, Targets, Reloaded, Reader, Anywhere,
       Writer, Plain, Whole, Loud, Alters, none
<1>16. ChoiceTells
  BY <1>4, <1>5, <1>6, Described DEF Plan, Untabbed, ChoiceTells, Reader, Writer, Plain, Whole,
       Loud, Alters, SeenAt, Tabbed, Anywhere
<1>17. Tells
  BY <1>4, <1>10, <1>14, <1>15, <1>16, UntabbedTells
<1> QED BY <1>4, <1>8, <1>9, <1>10, <1>11, <1>12, <1>17 DEF Fits, HandlerFits, ChoiceFits, Plan

\* restrictions.ts.
LEMMA RestrictionsFits ==
    ASSUME page = Running("restrictions")
    PROVE  Fits /\ Tells
<1>1. "restrictions" \in DOMAIN Pages /\ Pages["restrictions"] = Restrictions
  BY DEF Pages
<1>2. Plan(Restrictions, {"load"}, {"restrictions"}, {"load"}) /\ Untabbed(Restrictions, Keys)
  BY ScopedPlan DEF Restrictions
<1>3. DOMAIN Restrictions.ops = {"load", "onAdd", "onDelete"}
  BY DEF Restrictions, ScopedPage, PageOf
<1>4. /\ page.ops = Restrictions.ops /\ Ops = {"load", "onAdd", "onDelete"}
      /\ Plan(page, {"load"}, {"restrictions"}, {"load"}) /\ Untabbed(page, Keys)
      /\ page.name = "restrictions" /\ IsPage
  BY <1>1, <1>2, <1>3, RunningPlan
<1>5. Reader(Op("load"), "loading", {"restrictions"}) /\ Loud(Op("load"), "error")
  BY <1>4, LoadReads DEF Op, none, Restrictions, ScopedPage, PageOf
<1>6. /\ Whole(Op("onAdd"), "adding", {"load"}) /\ Loud(Op("onAdd"), "error")
      /\ Alters(Op("onAdd"), {"restrictions"}, {})
  BY <1>4, SubmitWrites DEF Op, none, Restrictions, ScopedPage, PageOf
<1>7. /\ Writer(Op("onDelete"), "deleting", {"load"}) /\ Op("onDelete").anyRow = FALSE
      /\ Op("onDelete").closes = FALSE /\ Op("onDelete").rowsOf = "restrictions"
      /\ Loud(Op("onDelete"), "error") /\ Alters(Op("onDelete"), {"restrictions"}, {})
  <2> DEFINE op == [RowChange("deleting", "error", "restrictions", {"restrictions"},
        {"load"}) EXCEPT !.rowKey = TRUE]
  <2>1. Restrictions.ops["onDelete"] = op
    BY DEF Restrictions, ScopedPage, PageOf
  <2>2. /\ Writer(op, "deleting", {"load"}) /\ op.anyRow = FALSE /\ op.closes = FALSE
        /\ op.rowsOf = "restrictions" /\ Loud(op, "error") /\ Alters(op, {"restrictions"}, {})
    BY DEF RowChange, Change, Handler, Writer, Loud, Alters, none
  <2> QED BY <1>4, <2>1, <2>2 DEF Op
<1>8. Loads = {"load"}
  BY <1>4, <1>5, <1>6, <1>7 DEF Loads, Plan, Reader, Writer, Plain, Whole
<1>9. IsFiniteSet(Loads)
  BY <1>8, FS_Singleton
<1>10. page.keyed \subseteq Fields
  BY <1>4, <1>5, <1>6, <1>7, Described DEF Plan, Reader
<1>11. "restrictions" \in Fields
  BY <1>4, <1>10 DEF Plan
<1>12. \A o \in Ops : FieldsFit(o)
  BY <1>4, <1>11, <1>5, <1>6, <1>7 DEF FieldsFit, Reader, Writer, Plain, Whole, Loud, Alters,
       none
<1>13. \A o \in Ops : FlagFits(o)
  BY <1>4, <1>8, <1>5, <1>6, <1>7 DEF FlagFits, Exclusive, Reader, Writer, Plain, Whole,
       Alters, none
<1>14. \A l \in Loads : LoadFits(l)
  BY <1>4, <1>8, <1>5 DEF LoadFits, Reader
<1>15. \A o : \A f : ~Gap(o, f)
  BY <1>4, NoGaps
<1>16. \A o \in Ops : Mends(o) /\ BlanksOpen(o)
  BY <1>4, <1>5, <1>6, <1>7 DEF Plan, Mends, BlanksOpen, Targets, Reloaded, Reader, Writer,
       Plain, Whole, Loud, Alters, none
<1>17. \A o \in Ops : Spoken(o)
  BY <1>4, KeysApart, <1>15, <1>5, <1>6, <1>7 DEF Plan, Spoken, Targets, Reloaded, Reader,
       Anywhere, Writer, Plain, Whole, Loud, Alters, none
<1>18. ChoiceTells
  BY <1>4, <1>5, <1>6, <1>7, Described DEF Plan, Untabbed, ChoiceTells, Reader, Writer, Plain,
       Whole, Loud, Alters, SeenAt, Tabbed, Anywhere
<1>19. Tells
  BY <1>4, <1>12, <1>16, <1>17, <1>18, UntabbedTells
<1> QED BY <1>4, <1>9, <1>10, <1>12, <1>13, <1>14, <1>19 DEF Fits, HandlerFits, ChoiceFits, Plan

\* relay.ts.
LEMMA RelayFits ==
    ASSUME page = Running("relay")
    PROVE  Fits /\ Tells
<1>1. "relay" \in DOMAIN Pages /\ Pages["relay"] = Relay
  BY DEF Pages
<1>2. Plan(Relay, {"load"}, {}, {}) /\ Untabbed(Relay, {none})
  BY PageOfPlan DEF Relay
<1>3. DOMAIN Relay.ops = {"load", "onCreateRelay", "onDeleteRelay", "onAddExclusion",
      "onDeleteExclusion"}
  BY DEF Relay, PageOf
<1>4. /\ page.ops = Relay.ops
      /\ Ops = {"load", "onCreateRelay", "onDeleteRelay", "onAddExclusion", "onDeleteExclusion"}
      /\ Plan(page, {"load"}, {}, {}) /\ Untabbed(page, {none})
      /\ page.name = "relay" /\ IsPage
  BY <1>1, <1>2, <1>3, RunningPlan
<1>5. Reader(Op("load"), "loading", {"relays", "exclusions"}) /\ Loud(Op("load"), "error")
  BY <1>4, LoadReads DEF Op, none, Relay, PageOf
<1>6. /\ Whole(Op("onCreateRelay"), "creatingRelay", {"load"})
      /\ Loud(Op("onCreateRelay"), "createRelayError")
      /\ Alters(Op("onCreateRelay"), {"relays"}, {})
  BY <1>4, SubmitWrites DEF Op, none, Relay, PageOf
<1>7. /\ Single(Op("onDeleteRelay"), "deletingSender", {"load"})
      /\ Loud(Op("onDeleteRelay"), "error") /\ Alters(Op("onDeleteRelay"), {"relays"}, {})
  BY <1>4, RowChangeWrites DEF Op, none, Relay, PageOf
<1>8. /\ Whole(Op("onAddExclusion"), "addingExclusion", {"load"})
      /\ Loud(Op("onAddExclusion"), "error") /\ Alters(Op("onAddExclusion"), {"exclusions"}, {})
  BY <1>4, SubmitWrites DEF Op, none, Relay, PageOf
<1>9. /\ Single(Op("onDeleteExclusion"), "deletingExclusion", {"load"})
      /\ Loud(Op("onDeleteExclusion"), "error")
      /\ Alters(Op("onDeleteExclusion"), {"exclusions"}, {})
  <2> DEFINE op == [RowChange("deletingExclusion", "error", "exclusions", {"exclusions"},
        {"load"}) EXCEPT !.hidden = {}]
  <2>1. Relay.ops["onDeleteExclusion"] = op
    BY DEF Relay, PageOf
  <2>2. /\ Single(op, "deletingExclusion", {"load"}) /\ Loud(op, "error")
        /\ Alters(op, {"exclusions"}, {})
    BY DEF RowChange, Change, Handler, Writer, Plain, Single, Loud, Alters, none
  <2> QED BY <1>4, <2>1, <2>2 DEF Op
<1>10. Loads = {"load"}
  BY <1>4, <1>5, <1>6, <1>7, <1>8, <1>9 DEF Loads, Plan, Reader, Writer, Plain, Whole, Single
<1>11. IsFiniteSet(Loads)
  BY <1>10, FS_Singleton
<1>12. page.keyed \subseteq Fields
  BY <1>4 DEF Plan
<1>13. \A o \in Ops : FieldsFit(o)
  BY <1>4, <1>5, <1>6, <1>7, <1>8, <1>9 DEF FieldsFit, Reader, Writer, Plain, Whole, Single,
       Loud, Alters, none
<1>14. \A o \in Ops : FlagFits(o)
  BY <1>4, <1>10, <1>5, <1>6, <1>7, <1>8, <1>9 DEF FlagFits, Exclusive, Reader, Writer, Plain,
       Whole, Single, Alters, none
<1>15. \A l \in Loads : LoadFits(l)
  BY <1>4, <1>10, <1>5 DEF LoadFits, Reader
<1>16. \A o : \A f : ~Gap(o, f)
  BY <1>4, NoGaps
<1>17. \A o \in Ops : Mends(o) /\ BlanksOpen(o)
  BY <1>4, <1>5, <1>6, <1>7, <1>8, <1>9 DEF Plan, Mends, BlanksOpen, Targets, Reloaded, Reader,
       Writer, Plain, Whole, Single, Loud, Alters, none
<1>18. ~Speaks("onCreateRelay", "exclusions")
  <2>1. ASSUME "exclusions" \in Fields,
        NEW p \in page.about["exclusions"] PROVE Op(p).error # Op("onCreateRelay").error
    <3>1. p \in Ops /\ "exclusions" \in Op(p).changes \cup Op(p).shows
      BY <1>4, <2>1, Described
    <3> QED BY <1>4, <3>1, <1>5, <1>6, <1>7, <1>8, <1>9 DEF Reader, Writer, Plain, Whole,
          Single, Loud, Alters, none
  <2>2. "exclusions" \in Fields
    BY <1>4, <1>5, Described DEF Reader
  <2> QED BY <2>1, <2>2 DEF Speaks
<1>19. \A o \in Ops : Spoken(o)
  BY <1>4, KeysApart, <1>16, <1>18, <1>5, <1>6, <1>7, <1>8, <1>9 DEF Plan, Spoken, Targets,
       Reloaded, Reader, Anywhere, Writer, Plain, Whole, Single, Loud, Alters, none
<1>20. ChoiceTells
  BY <1>4, <1>5, <1>6, <1>7, <1>8, <1>9, Described DEF Plan, Untabbed, ChoiceTells, Reader,
       Writer, Plain, Whole, Single, Loud, Alters, SeenAt, Tabbed, Anywhere
<1>21. Tells
  BY <1>4, <1>13, <1>17, <1>19, <1>20, UntabbedTells
<1> QED BY <1>4, <1>11, <1>12, <1>13, <1>14, <1>15, <1>21 DEF Fits, HandlerFits, ChoiceFits,
      Plan

\* aliases.ts.
LEMMA AliasesFits ==
    ASSUME page = Running("aliases")
    PROVE  Fits /\ Tells
<1>1. "aliases" \in DOMAIN Pages /\ Pages["aliases"] = Aliases
  BY DEF Pages
<1>2. Plan(Aliases, {"load"}, {}, {}) /\ Untabbed(Aliases, {none})
  BY PageOfPlan DEF Aliases
<1>3. DOMAIN Aliases.ops = {"load", "onAddSystemAlias", "onDeleteSystemAlias",
      "onAddRegexAlias", "onDeleteRegexAlias"}
  BY DEF Aliases, PageOf
<1>4. /\ page.ops = Aliases.ops
      /\ Ops = {"load", "onAddSystemAlias", "onDeleteSystemAlias", "onAddRegexAlias",
             "onDeleteRegexAlias"}
      /\ Plan(page, {"load"}, {}, {}) /\ Untabbed(page, {none})
      /\ page.name = "aliases" /\ IsPage
  BY <1>1, <1>2, <1>3, RunningPlan
<1>5. /\ Reader(Op("load"), "loading", {"systemAliases", "regexAliases"})
      /\ Loud(Op("load"), "error")
  BY <1>4, LoadReads DEF Op, none, Aliases, PageOf
<1>6. /\ Whole(Op("onAddSystemAlias"), "addingSystemAlias", {"load"})
      /\ Loud(Op("onAddSystemAlias"), "error")
      /\ Alters(Op("onAddSystemAlias"), {"systemAliases"}, {})
  <2> DEFINE op == [Submit("addingSystemAlias", "error", {"systemAliases"}, {"load"})
        EXCEPT !.hidden = {"loading"}]
  <2>1. Aliases.ops["onAddSystemAlias"] = op
    BY DEF Aliases, PageOf
  <2>2. /\ Whole(op, "addingSystemAlias", {"load"}) /\ Loud(op, "error")
        /\ Alters(op, {"systemAliases"}, {})
    BY DEF Submit, Change, Handler, Writer, Plain, Whole, Loud, Alters, none
  <2> QED BY <1>4, <2>1, <2>2 DEF Op
<1>7. /\ Single(Op("onDeleteSystemAlias"), "deletingAlias", {"load"})
      /\ Loud(Op("onDeleteSystemAlias"), "error")
      /\ Alters(Op("onDeleteSystemAlias"), {"systemAliases"}, {})
  BY <1>4, RowChangeWrites DEF Op, none, Aliases, PageOf
<1>8. /\ Whole(Op("onAddRegexAlias"), "addingRegexAlias", {"load"})
      /\ Loud(Op("onAddRegexAlias"), "error")
      /\ Alters(Op("onAddRegexAlias"), {"regexAliases"}, {})
  <2> DEFINE op == [Submit("addingRegexAlias", "error", {"regexAliases"}, {"load"})
        EXCEPT !.hidden = {"loading"}]
  <2>1. Aliases.ops["onAddRegexAlias"] = op
    BY DEF Aliases, PageOf
  <2>2. /\ Whole(op, "addingRegexAlias", {"load"}) /\ Loud(op, "error")
        /\ Alters(op, {"regexAliases"}, {})
    BY DEF Submit, Change, Handler, Writer, Plain, Whole, Loud, Alters, none
  <2> QED BY <1>4, <2>1, <2>2 DEF Op
<1>9. /\ Single(Op("onDeleteRegexAlias"), "deletingAlias", {"load"})
      /\ Loud(Op("onDeleteRegexAlias"), "error")
      /\ Alters(Op("onDeleteRegexAlias"), {"regexAliases"}, {})
  BY <1>4, RowChangeWrites DEF Op, none, Aliases, PageOf
<1>10. Loads = {"load"}
  BY <1>4, <1>5, <1>6, <1>7, <1>8, <1>9 DEF Loads, Plan, Reader, Writer, Plain, Whole, Single
<1>11. IsFiniteSet(Loads)
  BY <1>10, FS_Singleton
<1>12. page.keyed \subseteq Fields
  BY <1>4 DEF Plan
<1>13. \A o \in Ops : FieldsFit(o)
  BY <1>4, <1>5, <1>6, <1>7, <1>8, <1>9 DEF FieldsFit, Reader, Writer, Plain, Whole, Single,
       Loud, Alters, none
<1>14. \A o \in Ops : FlagFits(o)
  BY <1>4, <1>10, <1>5, <1>6, <1>7, <1>8, <1>9 DEF FlagFits, Exclusive, Reader, Writer, Plain,
       Whole, Single, Alters, none
<1>15. \A l \in Loads : LoadFits(l)
  BY <1>4, <1>10, <1>5 DEF LoadFits, Reader
<1>16. \A o : \A f : ~Gap(o, f)
  BY <1>4, NoGaps
<1>17. \A o \in Ops : Mends(o) /\ BlanksOpen(o)
  BY <1>4, <1>5, <1>6, <1>7, <1>8, <1>9 DEF Plan, Mends, BlanksOpen, Targets, Reloaded, Reader,
       Writer, Plain, Whole, Single, Loud, Alters, none
<1>18. \A o \in Ops : Spoken(o)
  BY <1>4, KeysApart, <1>16, <1>5, <1>6, <1>7, <1>8, <1>9 DEF Plan, Spoken, Targets, Reloaded,
       Reader, Anywhere, Writer, Plain, Whole, Single, Loud, Alters, none
<1>19. ChoiceTells
  BY <1>4, <1>5, <1>6, <1>7, <1>8, <1>9, Described DEF Plan, Untabbed, ChoiceTells, Reader,
       Writer, Plain, Whole, Single, Loud, Alters, SeenAt, Tabbed, Anywhere
<1>20. Tells
  BY <1>4, <1>13, <1>17, <1>18, <1>19, UntabbedTells
<1> QED BY <1>4, <1>11, <1>12, <1>13, <1>14, <1>15, <1>20 DEF Fits, HandlerFits, ChoiceFits,
      Plan

\* queue.ts.
LEMMA QueueFits ==
    ASSUME page = Running("queue")
    PROVE  Fits /\ Tells
<1>1. "queue" \in DOMAIN Pages /\ Pages["queue"] = Queue
  BY DEF Pages
<1>2. Plan(Queue, {"load"}, {}, {}) /\ Untabbed(Queue, {none})
  BY PageOfPlan DEF Queue
<1>3. DOMAIN Queue.ops = {"load", "onFlush", "onDelete", "onDeleteAll"}
  BY DEF Queue, PageOf
<1>4. /\ page.ops = Queue.ops /\ Ops = {"load", "onFlush", "onDelete", "onDeleteAll"}
      /\ Plan(page, {"load"}, {}, {}) /\ Untabbed(page, {none})
      /\ page.name = "queue" /\ IsPage
  BY <1>1, <1>2, <1>3, RunningPlan
<1>5. Reader(Op("load"), "loading", {"queue"}) /\ Loud(Op("load"), "error")
  BY <1>4, RefreshReads DEF Op, none, Queue, PageOf
<1>6. /\ Whole(Op("onFlush"), "flushing", {"load"}) /\ Loud(Op("onFlush"), "error")
      /\ Alters(Op("onFlush"), {"queue"}, {})
  <2> DEFINE op == [Change("flushing", "error", {"queue"}, {"load"}) EXCEPT !.rowsOf = "queue"]
  <2>1. Queue.ops["onFlush"] = op
    BY DEF Queue, PageOf
  <2>2. Whole(op, "flushing", {"load"}) /\ Loud(op, "error") /\ Alters(op, {"queue"}, {})
    BY DEF Change, Handler, Writer, Plain, Whole, Loud, Alters, none
  <2> QED BY <1>4, <2>1, <2>2 DEF Op
<1>7. /\ Single(Op("onDelete"), "deletingQueueId", {"load"}) /\ Loud(Op("onDelete"), "error")
      /\ Alters(Op("onDelete"), {"queue"}, {})
  BY <1>4, RowChangeWrites DEF Op, none, Queue, PageOf
<1>8. /\ Whole(Op("onDeleteAll"), "flushing", {"load"}) /\ Loud(Op("onDeleteAll"), "error")
      /\ Alters(Op("onDeleteAll"), {"queue"}, {})
  <2> DEFINE op == [Change("flushing", "error", {"queue"}, {"load"}) EXCEPT !.rowsOf = "queue"]
  <2>1. Queue.ops["onDeleteAll"] = op
    BY DEF Queue, PageOf
  <2>2. Whole(op, "flushing", {"load"}) /\ Loud(op, "error") /\ Alters(op, {"queue"}, {})
    BY DEF Change, Handler, Writer, Plain, Whole, Loud, Alters, none
  <2> QED BY <1>4, <2>1, <2>2 DEF Op
<1>9. Loads = {"load"}
  BY <1>4, <1>5, <1>6, <1>7, <1>8 DEF Loads, Plan, Reader, Writer, Plain, Whole, Single
<1>10. IsFiniteSet(Loads)
  BY <1>9, FS_Singleton
<1>11. page.keyed \subseteq Fields
  BY <1>4 DEF Plan
<1>12. \A o \in Ops : FieldsFit(o)
  BY <1>4, <1>5, <1>6, <1>7, <1>8 DEF FieldsFit, Reader, Writer, Plain, Whole, Single, Loud,
       Alters, none
<1>13. \A o \in Ops : FlagFits(o)
  BY <1>4, <1>9, <1>5, <1>6, <1>7, <1>8 DEF FlagFits, Exclusive, Reader, Writer, Plain, Whole,
       Single, Alters, none
<1>14. \A l \in Loads : LoadFits(l)
  BY <1>4, <1>9, <1>5 DEF LoadFits, Reader
<1>15. \A o : \A f : ~Gap(o, f)
  BY <1>4, NoGaps
<1>16. \A o \in Ops : Mends(o) /\ BlanksOpen(o)
  BY <1>4, <1>5, <1>6, <1>7, <1>8 DEF Plan, Mends, BlanksOpen, Targets, Reloaded, Reader,
       Writer, Plain, Whole, Single, Loud, Alters, none
<1>17. \A o \in Ops : Spoken(o)
  BY <1>4, KeysApart, <1>15, <1>5, <1>6, <1>7, <1>8 DEF Plan, Spoken, Targets, Reloaded,
       Reader, Anywhere, Writer, Plain, Whole, Single, Loud, Alters, none
<1>18. ChoiceTells
  BY <1>4, <1>5, <1>6, <1>7, <1>8, Described DEF Plan, Untabbed, ChoiceTells, Reader, Writer,
       Plain, Whole, Single, Loud, Alters, SeenAt, Tabbed, Anywhere
<1>19. Tells
  BY <1>4, <1>12, <1>16, <1>17, <1>18, UntabbedTells
<1> QED BY <1>4, <1>10, <1>11, <1>12, <1>13, <1>14, <1>19 DEF Fits, HandlerFits, ChoiceFits,
      Plan

\* dovecot.ts.
LEMMA DovecotFits ==
    ASSUME page = Running("dovecot")
    PROVE  Fits /\ Tells
<1>1. "dovecot" \in DOMAIN Pages /\ Pages["dovecot"] = Dovecot
  BY DEF Pages
<1>2. Plan(Dovecot, {"load"}, {}, {}) /\ Untabbed(Dovecot, {none})
  BY PageOfPlan DEF Dovecot
<1>3. DOMAIN Dovecot.ops = {"load", "onCreateMaster", "onDeleteMaster", "onSaveConfig"}
  BY DEF Dovecot, PageOf
<1>4. /\ page.ops = Dovecot.ops
      /\ Ops = {"load", "onCreateMaster", "onDeleteMaster", "onSaveConfig"}
      /\ Plan(page, {"load"}, {}, {}) /\ Untabbed(page, {none})
      /\ page.name = "dovecot" /\ IsPage
  BY <1>1, <1>2, <1>3, RunningPlan
<1>5. Reader(Op("load"), "loading", {"masters", "config"}) /\ Loud(Op("load"), "error")
  BY <1>4, LoadReads DEF Op, none, Dovecot, PageOf
<1>6. /\ Whole(Op("onCreateMaster"), "creatingMaster", {"load"})
      /\ Loud(Op("onCreateMaster"), "error") /\ Alters(Op("onCreateMaster"), {"masters"}, {})
  BY <1>4, SubmitWrites DEF Op, none, Dovecot, PageOf
<1>7. /\ Single(Op("onDeleteMaster"), "deletingMaster", {"load"})
      /\ Loud(Op("onDeleteMaster"), "error") /\ Alters(Op("onDeleteMaster"), {"masters"}, {})
  BY <1>4, RowChangeWrites DEF Op, none, Dovecot, PageOf
<1>8. /\ Whole(Op("onSaveConfig"), "savingConfig", {}) /\ Loud(Op("onSaveConfig"), "error")
      /\ Alters(Op("onSaveConfig"), {"config"}, {"config"})
  <2> DEFINE op == [Save("savingConfig", "error", "config") EXCEPT !.hidden = {}]
  <2>1. Dovecot.ops["onSaveConfig"] = op
    BY DEF Dovecot, PageOf
  <2>2. Whole(op, "savingConfig", {}) /\ Loud(op, "error") /\ Alters(op, {"config"}, {"config"})
    BY DEF Save, Handler, Writer, Plain, Whole, Loud, Alters, none
  <2> QED BY <1>4, <2>1, <2>2 DEF Op
<1>9. Loads = {"load"}
  BY <1>4, <1>5, <1>6, <1>7, <1>8 DEF Loads, Plan, Reader, Writer, Plain, Whole, Single
<1>10. IsFiniteSet(Loads)
  BY <1>9, FS_Singleton
<1>11. page.keyed \subseteq Fields
  BY <1>4 DEF Plan
<1>12. \A o \in Ops : FieldsFit(o)
  BY <1>4, <1>5, <1>6, <1>7, <1>8 DEF FieldsFit, Reader, Writer, Plain, Whole, Single, Loud,
       Alters, none
<1>13. \A o \in Ops : FlagFits(o)
  BY <1>4, <1>9, <1>5, <1>6, <1>7, <1>8 DEF FlagFits, Exclusive, Reader, Writer, Plain, Whole,
       Single, Alters, none
<1>14. \A l \in Loads : LoadFits(l)
  BY <1>4, <1>9, <1>5 DEF LoadFits, Reader
<1>15. \A o : \A f : ~Gap(o, f)
  BY <1>4, NoGaps
<1>16. \A o \in Ops : Mends(o) /\ BlanksOpen(o)
  BY <1>4, <1>5, <1>6, <1>7, <1>8 DEF Plan, Mends, BlanksOpen, Targets, Reloaded, Reader,
       Writer, Plain, Whole, Single, Loud, Alters, none
<1>17. \A o \in Ops : Spoken(o)
  BY <1>4, KeysApart, <1>15, <1>5, <1>6, <1>7, <1>8 DEF Plan, Spoken, Targets, Reloaded,
       Reader, Anywhere, Writer, Plain, Whole, Single, Loud, Alters, none
<1>18. ChoiceTells
  BY <1>4, <1>5, <1>6, <1>7, <1>8, Described DEF Plan, Untabbed, ChoiceTells, Reader, Writer,
       Plain, Whole, Single, Loud, Alters, SeenAt, Tabbed, Anywhere
<1>19. Tells
  BY <1>4, <1>12, <1>16, <1>17, <1>18, UntabbedTells
<1> QED BY <1>4, <1>10, <1>11, <1>12, <1>13, <1>14, <1>19 DEF Fits, HandlerFits, ChoiceFits,
      Plan

\* postfix.ts.
LEMMA PostfixFits ==
    ASSUME page = Running("postfix")
    PROVE  Fits /\ Tells
<1>1. "postfix" \in DOMAIN Pages /\ Pages["postfix"] = Postfix
  BY DEF Pages
<1>2. Plan(Postfix, {"load"}, {}, {}) /\ Untabbed(Postfix, {none})
  BY PageOfPlan DEF Postfix
<1>3. DOMAIN Postfix.ops = {"load", "onSave", "onSaveMaster"}
  BY DEF Postfix, PageOf
<1>4. /\ page.ops = Postfix.ops /\ Ops = {"load", "onSave", "onSaveMaster"}
      /\ Plan(page, {"load"}, {}, {}) /\ Untabbed(page, {none})
      /\ page.name = "postfix" /\ IsPage
  BY <1>1, <1>2, <1>3, RunningPlan
<1>5. /\ Reader(Op("load"), "loading", {"overrides", "masterOverrides"})
      /\ Loud(Op("load"), "error")
  BY <1>4, LoadReads DEF Op, none, Postfix, PageOf
<1>6. /\ Whole(Op("onSave"), "saving", {}) /\ Loud(Op("onSave"), "error")
      /\ Alters(Op("onSave"), {"overrides"}, {"overrides"})
  <2> DEFINE op == [Save("saving", "error", "overrides") EXCEPT !.checks = TRUE]
  <2>1. Postfix.ops["onSave"] = op
    BY DEF Postfix, PageOf
  <2>2. Whole(op, "saving", {}) /\ Loud(op, "error") /\ Alters(op, {"overrides"}, {"overrides"})
    BY DEF Save, Handler, Writer, Plain, Whole, Loud, Alters, none
  <2> QED BY <1>4, <2>1, <2>2 DEF Op
<1>7. /\ Whole(Op("onSaveMaster"), "savingMaster", {}) /\ Loud(Op("onSaveMaster"), "error")
      /\ Alters(Op("onSaveMaster"), {"masterOverrides"}, {"masterOverrides"})
  <2> DEFINE op == [Save("savingMaster", "error", "masterOverrides") EXCEPT !.checks = TRUE]
  <2>1. Postfix.ops["onSaveMaster"] = op
    BY DEF Postfix, PageOf
  <2>2. /\ Whole(op, "savingMaster", {}) /\ Loud(op, "error")
        /\ Alters(op, {"masterOverrides"}, {"masterOverrides"})
    BY DEF Save, Handler, Writer, Plain, Whole, Loud, Alters, none
  <2> QED BY <1>4, <2>1, <2>2 DEF Op
<1>8. Loads = {"load"}
  BY <1>4, <1>5, <1>6, <1>7 DEF Loads, Plan, Reader, Writer, Plain, Whole
<1>9. IsFiniteSet(Loads)
  BY <1>8, FS_Singleton
<1>10. page.keyed \subseteq Fields
  BY <1>4 DEF Plan
<1>11. \A o \in Ops : FieldsFit(o)
  BY <1>4, <1>5, <1>6, <1>7 DEF FieldsFit, Reader, Writer, Plain, Whole, Loud, Alters, none
<1>12. \A o \in Ops : FlagFits(o)
  BY <1>4, <1>8, <1>5, <1>6, <1>7 DEF FlagFits, Exclusive, Reader, Writer, Plain, Whole,
       Alters, none
<1>13. \A l \in Loads : LoadFits(l)
  BY <1>4, <1>8, <1>5 DEF LoadFits, Reader
<1>14. \A o : \A f : ~Gap(o, f)
  BY <1>4, NoGaps
<1>15. \A o \in Ops : Mends(o) /\ BlanksOpen(o)
  BY <1>4, <1>5, <1>6, <1>7 DEF Plan, Mends, BlanksOpen, Targets, Reloaded, Reader, Writer,
       Plain, Whole, Loud, Alters, none
<1>16. \A o \in Ops : Spoken(o)
  BY <1>4, KeysApart, <1>14, <1>5, <1>6, <1>7 DEF Plan, Spoken, Targets, Reloaded, Reader,
       Anywhere, Writer, Plain, Whole, Loud, Alters, none
<1>17. ChoiceTells
  BY <1>4, <1>5, <1>6, <1>7, Described DEF Plan, Untabbed, ChoiceTells, Reader, Writer, Plain,
       Whole, Loud, Alters, SeenAt, Tabbed, Anywhere
<1>18. Tells
  BY <1>4, <1>11, <1>15, <1>16, <1>17, UntabbedTells
<1> QED BY <1>4, <1>9, <1>10, <1>11, <1>12, <1>13, <1>18 DEF Fits, HandlerFits, ChoiceFits, Plan

\* dkim.ts.
LEMMA DkimFits ==
    ASSUME page = Running("dkim")
    PROVE  Fits /\ Tells
<1>1. "dkim" \in DOMAIN Pages /\ Pages["dkim"] = Dkim
  BY DEF Pages
<1>2. Plan(Dkim, {"load"}, {}, {}) /\ Untabbed(Dkim, {none})
  BY PageOfPlan DEF Dkim
<1>3. DOMAIN Dkim.ops = {"load", "onMigrate", "onGenerate"}
  BY DEF Dkim, PageOf
<1>4. /\ page.ops = Dkim.ops /\ Ops = {"load", "onMigrate", "onGenerate"}
      /\ Plan(page, {"load"}, {}, {}) /\ Untabbed(page, {none})
      /\ page.name = "dkim" /\ IsPage
  BY <1>1, <1>2, <1>3, RunningPlan
<1>5. /\ Reader(Op("load"), "loading", {"keys", "migrationCandidates"})
      /\ Loud(Op("load"), "error")
  BY <1>4, LoadReads DEF Op, none, Dkim, PageOf
<1>6. /\ Whole(Op("onMigrate"), "migrating", {}) /\ Loud(Op("onMigrate"), "error")
      /\ Alters(Op("onMigrate"), {"keys", "migrationCandidates"}, {"keys",
             "migrationCandidates"})
  <2> DEFINE op == [[Change("migrating", "error", {"keys", "migrationCandidates"}, {})
        EXCEPT !.shows = {"keys"}] EXCEPT !.rowsOf = "migrationCandidates", !.shows = {"keys",
        "migrationCandidates"}]
  <2>1. Dkim.ops["onMigrate"] = op
    BY DEF Dkim, PageOf
  <2>2. /\ Whole(op, "migrating", {}) /\ Loud(op, "error")
        /\ Alters(op, {"keys", "migrationCandidates"}, {"keys", "migrationCandidates"})
    BY DEF Change, Handler, Writer, Plain, Whole, Loud, Alters, none
  <2> QED BY <1>4, <2>1, <2>2 DEF Op
<1>7. /\ Whole(Op("onGenerate"), "generating", {}) /\ Loud(Op("onGenerate"), "error")
      /\ Alters(Op("onGenerate"), {"keys", "migrationCandidates"}, {"keys"})
  <2> DEFINE op == [[Change("generating", "error", {"keys", "migrationCandidates"}, {})
        EXCEPT !.shows = {"keys"}] EXCEPT !.checks = TRUE]
  <2>1. Dkim.ops["onGenerate"] = op
    BY DEF Dkim, PageOf
  <2>2. /\ Whole(op, "generating", {}) /\ Loud(op, "error")
        /\ Alters(op, {"keys", "migrationCandidates"}, {"keys"})
    BY DEF Change, Handler, Writer, Plain, Whole, Loud, Alters, none
  <2> QED BY <1>4, <2>1, <2>2 DEF Op
<1>8. Loads = {"load"}
  BY <1>4, <1>5, <1>6, <1>7 DEF Loads, Plan, Reader, Writer, Plain, Whole
<1>9. IsFiniteSet(Loads)
  BY <1>8, FS_Singleton
<1>10. page.keyed \subseteq Fields
  BY <1>4 DEF Plan
<1>11. \A o \in Ops : FieldsFit(o)
  BY <1>4, <1>5, <1>6, <1>7 DEF FieldsFit, Reader, Writer, Plain, Whole, Loud, Alters, none
<1>12. \A o \in Ops : FlagFits(o)
  BY <1>4, <1>8, <1>5, <1>6, <1>7 DEF FlagFits, Exclusive, Reader, Writer, Plain, Whole,
       Alters, none
<1>13. \A l \in Loads : LoadFits(l)
  BY <1>4, <1>8, <1>5 DEF LoadFits, Reader
<1>14. \A o \in Ops : \A f \in Op(o).shows : ~Gap(o, f)
  BY <1>4, <1>5, <1>6, <1>7 DEF Reader, Writer, Plain, Whole, Loud, Alters, Gap, KnownGaps
<1>15. \A o \in Ops : Mends(o) /\ BlanksOpen(o)
  BY <1>4, <1>5, <1>6, <1>7 DEF Plan, Mends, BlanksOpen, Targets, Reloaded, Reader, Writer,
       Plain, Whole, Loud, Alters, Gap, KnownGaps, none
<1>16. \A o \in Ops : Spoken(o)
  BY <1>4, KeysApart, <1>14, <1>5, <1>6, <1>7 DEF Plan, Spoken, Targets, Reloaded, Reader,
       Anywhere, Writer, Plain, Whole, Loud, Alters, none, Gap, KnownGaps
<1>17. ChoiceTells
  BY <1>4, <1>5, <1>6, <1>7, Described DEF Plan, Untabbed, ChoiceTells, Reader, Writer, Plain,
       Whole, Loud, Alters, SeenAt, Tabbed, Anywhere
<1>18. Tells
  BY <1>4, <1>11, <1>15, <1>16, <1>17, UntabbedTells
<1> QED BY <1>4, <1>9, <1>10, <1>11, <1>12, <1>13, <1>18 DEF Fits, HandlerFits, ChoiceFits, Plan

\* rspamd.ts.
LEMMA RspamdFits ==
    ASSUME page = Running("rspamd")
    PROVE  Fits /\ Tells
<1>1. "rspamd" \in DOMAIN Pages /\ Pages["rspamd"] = Rspamd
  BY DEF Pages
<1>2. Plan(Rspamd, {"load"}, {}, {}) /\ Untabbed(Rspamd, {none})
  BY PageOfPlan DEF Rspamd
<1>3. DOMAIN Rspamd.ops = {"load", "onSave", "saveFile", "deleteFile", "createFile"}
  BY DEF Rspamd, PageOf
<1>4. /\ page.ops = Rspamd.ops
      /\ Ops = {"load", "onSave", "saveFile", "deleteFile", "createFile"}
      /\ Plan(page, {"load"}, {}, {}) /\ Untabbed(page, {none})
      /\ page.name = "rspamd" /\ IsPage
  BY <1>1, <1>2, <1>3, RunningPlan
<1>5. Reader(Op("load"), "loading", {"commands"}) /\ Loud(Op("load"), "error")
  BY <1>4, LoadReads DEF Op, none, Rspamd, PageOf
<1>6. /\ Whole(Op("onSave"), "saving", {}) /\ Loud(Op("onSave"), "error")
      /\ Alters(Op("onSave"), {"commands"}, {"commands"})
  <2> DEFINE op == [Save("saving", "error", "commands") EXCEPT !.checks = TRUE]
  <2>1. Rspamd.ops["onSave"] = op
    BY DEF Rspamd, PageOf
  <2>2. Whole(op, "saving", {}) /\ Loud(op, "error") /\ Alters(op, {"commands"}, {"commands"})
    BY DEF Save, Handler, Writer, Plain, Whole, Loud, Alters, none
  <2> QED BY <1>4, <2>1, <2>2 DEF Op
<1>7. /\ Single(Op("saveFile"), "savingFile", {}) /\ Loud(Op("saveFile"), "error")
      /\ Alters(Op("saveFile"), {}, {})
  <2> DEFINE op == RspamdFile("savingFile")
  <2>1. Rspamd.ops["saveFile"] = op
    BY DEF Rspamd, PageOf
  <2>2. Single(op, "savingFile", {}) /\ Loud(op, "error") /\ Alters(op, {}, {})
    BY DEF RspamdFile, RowChange, Change, Handler, Writer, Plain, Single, Loud, Alters, none
  <2> QED BY <1>4, <2>1, <2>2 DEF Op
<1>8. /\ Single(Op("deleteFile"), "deletingFile", {}) /\ Loud(Op("deleteFile"), "error")
      /\ Alters(Op("deleteFile"), {}, {})
  <2> DEFINE op == RspamdFile("deletingFile")
  <2>1. Rspamd.ops["deleteFile"] = op
    BY DEF Rspamd, PageOf
  <2>2. Single(op, "deletingFile", {}) /\ Loud(op, "error") /\ Alters(op, {}, {})
    BY DEF RspamdFile, RowChange, Change, Handler, Writer, Plain, Single, Loud, Alters, none
  <2> QED BY <1>4, <2>1, <2>2 DEF Op
<1>9. /\ Whole(Op("createFile"), "creatingFile", {}) /\ Loud(Op("createFile"), "error")
      /\ Alters(Op("createFile"), {}, {})
  <2> DEFINE op == [RspamdFile("creatingFile") EXCEPT !.rowed = FALSE, !.anyRow = TRUE,
        !.checks = TRUE]
  <2>1. Rspamd.ops["createFile"] = op
    BY DEF Rspamd, PageOf
  <2>2. Whole(op, "creatingFile", {}) /\ Loud(op, "error") /\ Alters(op, {}, {})
    BY DEF RspamdFile, RowChange, Change, Handler, Writer, Plain, Whole, Loud, Alters, none
  <2> QED BY <1>4, <2>1, <2>2 DEF Op
<1>10. Loads = {"load"}
  BY <1>4, <1>5, <1>6, <1>7, <1>8, <1>9 DEF Loads, Plan, Reader, Writer, Plain, Whole, Single
<1>11. IsFiniteSet(Loads)
  BY <1>10, FS_Singleton
<1>12. page.keyed \subseteq Fields
  BY <1>4 DEF Plan
<1>13. \A o \in Ops : FieldsFit(o)
  BY <1>4, <1>5, <1>6, <1>7, <1>8, <1>9 DEF FieldsFit, Reader, Writer, Plain, Whole, Single,
       Loud, Alters, none
<1>14. \A o \in Ops : FlagFits(o)
  BY <1>4, <1>10, <1>5, <1>6, <1>7, <1>8, <1>9 DEF FlagFits, Exclusive, Reader, Writer, Plain,
       Whole, Single, Alters, none
<1>15. \A l \in Loads : LoadFits(l)
  BY <1>4, <1>10, <1>5 DEF LoadFits, Reader
<1>16. \A o : \A f : ~Gap(o, f)
  BY <1>4, NoGaps
<1>17. \A o \in Ops : Mends(o) /\ BlanksOpen(o)
  BY <1>4, <1>5, <1>6, <1>7, <1>8, <1>9 DEF Plan, Mends, BlanksOpen, Targets, Reloaded, Reader,
       Writer, Plain, Whole, Single, Loud, Alters, none
<1>18. \A o \in Ops : Spoken(o)
  BY <1>4, KeysApart, <1>16, <1>5, <1>6, <1>7, <1>8, <1>9 DEF Plan, Spoken, Targets, Reloaded,
       Reader, Anywhere, Writer, Plain, Whole, Single, Loud, Alters, none
<1>19. ChoiceTells
  BY <1>4, <1>5, <1>6, <1>7, <1>8, <1>9, Described DEF Plan, Untabbed, ChoiceTells, Reader,
       Writer, Plain, Whole, Single, Loud, Alters, SeenAt, Tabbed, Anywhere
<1>20. Tells
  BY <1>4, <1>13, <1>17, <1>18, <1>19, UntabbedTells
<1> QED BY <1>4, <1>11, <1>12, <1>13, <1>14, <1>15, <1>20 DEF Fits, HandlerFits, ChoiceFits,
      Plan

\* tls.ts.
LEMMA TlsFits ==
    ASSUME page = Running("tls")
    PROVE  Fits /\ Tells
<1>1. "tls" \in DOMAIN Pages /\ Pages["tls"] = Tls
  BY DEF Pages
<1>2. Plan(Tls, {"load"}, {}, {}) /\ Untabbed(Tls, {none})
  BY PageOfPlan DEF Tls, Report, RefreshedReport
<1>3. DOMAIN Tls.ops = {"load"}
  BY DEF Tls, RefreshedReport, PageOf
<1>4. /\ page.ops = Tls.ops /\ Ops = {"load"}
      /\ Plan(page, {"load"}, {}, {}) /\ Untabbed(page, {none})
      /\ page.name = "tls" /\ IsPage
  BY <1>1, <1>2, <1>3, RunningPlan
<1>5. Reader(Op("load"), "loading", {"certificate"}) /\ Loud(Op("load"), "error")
  BY <1>4, RefreshReads DEF Op, none, Tls, RefreshedReport, PageOf
<1>6. Loads = {"load"}
  BY <1>4, <1>5 DEF Loads, Plan, Reader
<1>7. IsFiniteSet(Loads)
  BY <1>6, FS_Singleton
<1>8. page.keyed \subseteq Fields
  BY <1>4 DEF Plan
<1>9. \A o \in Ops : FieldsFit(o)
  BY <1>4, <1>5 DEF FieldsFit, Reader, Loud, none
<1>10. \A o \in Ops : FlagFits(o)
  BY <1>4, <1>6, <1>5 DEF FlagFits, Exclusive, Reader, none
<1>11. \A l \in Loads : LoadFits(l)
  BY <1>4, <1>6, <1>5 DEF LoadFits, Reader
<1>12. \A o : \A f : ~Gap(o, f)
  BY <1>4, NoGaps
<1>13. \A o \in Ops : Mends(o) /\ BlanksOpen(o)
  BY <1>4, <1>5 DEF Plan, Mends, BlanksOpen, Targets, Reloaded, Reader, Loud, none
<1>14. \A o \in Ops : Spoken(o)
  BY <1>4, KeysApart, <1>12, <1>5 DEF Plan, Spoken, Targets, Reloaded, Reader, Anywhere, Loud,
       none
<1>15. ChoiceTells
  BY <1>4, <1>5, Described DEF Plan, Untabbed, ChoiceTells, Reader, Loud, SeenAt, Tabbed,
       Anywhere
<1>16. Tells
  BY <1>4, <1>9, <1>13, <1>14, <1>15, UntabbedTells
<1> QED BY <1>4, <1>7, <1>8, <1>9, <1>10, <1>11, <1>16 DEF Fits, HandlerFits, ChoiceFits, Plan

\* dns.ts.
LEMMA DnsFits ==
    ASSUME page = Running("dns")
    PROVE  Fits /\ Tells
<1>1. "dns" \in DOMAIN Pages /\ Pages["dns"] = Dns
  BY DEF Pages
<1>2. Plan(Dns, {"load"}, {}, {}) /\ Untabbed(Dns, {none})
  BY PageOfPlan DEF Dns, Report
<1>3. DOMAIN Dns.ops = {"load"}
  BY DEF Dns, Report, PageOf
<1>4. /\ page.ops = Dns.ops /\ Ops = {"load"}
      /\ Plan(page, {"load"}, {}, {}) /\ Untabbed(page, {none})
      /\ page.name = "dns" /\ IsPage
  BY <1>1, <1>2, <1>3, RunningPlan
<1>5. Reader(Op("load"), "loading", {"records"}) /\ Loud(Op("load"), "error")
  BY <1>4, LoadReads DEF Op, none, Dns, Report, PageOf
<1>6. Loads = {"load"}
  BY <1>4, <1>5 DEF Loads, Plan, Reader
<1>7. IsFiniteSet(Loads)
  BY <1>6, FS_Singleton
<1>8. page.keyed \subseteq Fields
  BY <1>4 DEF Plan
<1>9. \A o \in Ops : FieldsFit(o)
  BY <1>4, <1>5 DEF FieldsFit, Reader, Loud, none
<1>10. \A o \in Ops : FlagFits(o)
  BY <1>4, <1>6, <1>5 DEF FlagFits, Exclusive, Reader, none
<1>11. \A l \in Loads : LoadFits(l)
  BY <1>4, <1>6, <1>5 DEF LoadFits, Reader
<1>12. \A o : \A f : ~Gap(o, f)
  BY <1>4, NoGaps
<1>13. \A o \in Ops : Mends(o) /\ BlanksOpen(o)
  BY <1>4, <1>5 DEF Plan, Mends, BlanksOpen, Targets, Reloaded, Reader, Loud, none
<1>14. \A o \in Ops : Spoken(o)
  BY <1>4, KeysApart, <1>12, <1>5 DEF Plan, Spoken, Targets, Reloaded, Reader, Anywhere, Loud,
       none
<1>15. ChoiceTells
  BY <1>4, <1>5, Described DEF Plan, Untabbed, ChoiceTells, Reader, Loud, SeenAt, Tabbed,
       Anywhere
<1>16. Tells
  BY <1>4, <1>9, <1>13, <1>14, <1>15, UntabbedTells
<1> QED BY <1>4, <1>7, <1>8, <1>9, <1>10, <1>11, <1>16 DEF Fits, HandlerFits, ChoiceFits, Plan

\* environment.ts.
LEMMA EnvironmentFits ==
    ASSUME page = Running("environment")
    PROVE  Fits /\ Tells
<1>1. "environment" \in DOMAIN Pages /\ Pages["environment"] = Environment
  BY DEF Pages
<1>2. Plan(Environment, {"load"}, {}, {}) /\ Untabbed(Environment, {none})
  BY PageOfPlan DEF Environment, Report
<1>3. DOMAIN Environment.ops = {"load"}
  BY DEF Environment, Report, PageOf
<1>4. /\ page.ops = Environment.ops /\ Ops = {"load"}
      /\ Plan(page, {"load"}, {}, {}) /\ Untabbed(page, {none})
      /\ page.name = "environment" /\ IsPage
  BY <1>1, <1>2, <1>3, RunningPlan
<1>5. Reader(Op("load"), "loading", {"environment"}) /\ Loud(Op("load"), "error")
  BY <1>4, LoadReads DEF Op, none, Environment, Report, PageOf
<1>6. Loads = {"load"}
  BY <1>4, <1>5 DEF Loads, Plan, Reader
<1>7. IsFiniteSet(Loads)
  BY <1>6, FS_Singleton
<1>8. page.keyed \subseteq Fields
  BY <1>4 DEF Plan
<1>9. \A o \in Ops : FieldsFit(o)
  BY <1>4, <1>5 DEF FieldsFit, Reader, Loud, none
<1>10. \A o \in Ops : FlagFits(o)
  BY <1>4, <1>6, <1>5 DEF FlagFits, Exclusive, Reader, none
<1>11. \A l \in Loads : LoadFits(l)
  BY <1>4, <1>6, <1>5 DEF LoadFits, Reader
<1>12. \A o : \A f : ~Gap(o, f)
  BY <1>4, NoGaps
<1>13. \A o \in Ops : Mends(o) /\ BlanksOpen(o)
  BY <1>4, <1>5 DEF Plan, Mends, BlanksOpen, Targets, Reloaded, Reader, Loud, none
<1>14. \A o \in Ops : Spoken(o)
  BY <1>4, KeysApart, <1>12, <1>5 DEF Plan, Spoken, Targets, Reloaded, Reader, Anywhere, Loud,
       none
<1>15. ChoiceTells
  BY <1>4, <1>5, Described DEF Plan, Untabbed, ChoiceTells, Reader, Loud, SeenAt, Tabbed,
       Anywhere
<1>16. Tells
  BY <1>4, <1>9, <1>13, <1>14, <1>15, UntabbedTells
<1> QED BY <1>4, <1>7, <1>8, <1>9, <1>10, <1>11, <1>16 DEF Fits, HandlerFits, ChoiceFits, Plan

\* logs.ts.
LEMMA LogsFits ==
    ASSUME page = Running("logs")
    PROVE  Fits /\ Tells
<1>1. "logs" \in DOMAIN Pages /\ Pages["logs"] = Logs
  BY DEF Pages
<1>2. Plan(Logs, {"load"}, {}, {}) /\ Untabbed(Logs, {none})
  BY PageOfPlan DEF Logs, Report, RefreshedReport
<1>3. DOMAIN Logs.ops = {"load"}
  BY DEF Logs, RefreshedReport, PageOf
<1>4. /\ page.ops = Logs.ops /\ Ops = {"load"}
      /\ Plan(page, {"load"}, {}, {}) /\ Untabbed(page, {none})
      /\ page.name = "logs" /\ IsPage
  BY <1>1, <1>2, <1>3, RunningPlan
<1>5. Reader(Op("load"), "loading", {"lines"}) /\ Loud(Op("load"), "error")
  BY <1>4, RefreshReads DEF Op, none, Logs, RefreshedReport, PageOf
<1>6. Loads = {"load"}
  BY <1>4, <1>5 DEF Loads, Plan, Reader
<1>7. IsFiniteSet(Loads)
  BY <1>6, FS_Singleton
<1>8. page.keyed \subseteq Fields
  BY <1>4 DEF Plan
<1>9. \A o \in Ops : FieldsFit(o)
  BY <1>4, <1>5 DEF FieldsFit, Reader, Loud, none
<1>10. \A o \in Ops : FlagFits(o)
  BY <1>4, <1>6, <1>5 DEF FlagFits, Exclusive, Reader, none
<1>11. \A l \in Loads : LoadFits(l)
  BY <1>4, <1>6, <1>5 DEF LoadFits, Reader
<1>12. \A o : \A f : ~Gap(o, f)
  BY <1>4, NoGaps
<1>13. \A o \in Ops : Mends(o) /\ BlanksOpen(o)
  BY <1>4, <1>5 DEF Plan, Mends, BlanksOpen, Targets, Reloaded, Reader, Loud, none
<1>14. \A o \in Ops : Spoken(o)
  BY <1>4, KeysApart, <1>12, <1>5 DEF Plan, Spoken, Targets, Reloaded, Reader, Anywhere, Loud,
       none
<1>15. ChoiceTells
  BY <1>4, <1>5, Described DEF Plan, Untabbed, ChoiceTells, Reader, Loud, SeenAt, Tabbed,
       Anywhere
<1>16. Tells
  BY <1>4, <1>9, <1>13, <1>14, <1>15, UntabbedTells
<1> QED BY <1>4, <1>7, <1>8, <1>9, <1>10, <1>11, <1>16 DEF Fits, HandlerFits, ChoiceFits, Plan

\* fail2ban.ts.
LEMMA Fail2banFits ==
    ASSUME page = Running("fail2ban")
    PROVE  Fits /\ Tells
<1>1. "fail2ban" \in DOMAIN Pages /\ Pages["fail2ban"] = Fail2ban
  BY DEF Pages
<1>2. Plan(Fail2ban, {"loadStatus"}, {}, {"loadPolicy", "loadLog"})
  <2>1. /\ Fail2ban.first = {"loadStatus"} /\ Fail2ban.keyed = {}
        /\ Fail2ban.opens = "overview" /\ Fail2ban.keys = Tabs
        /\ Fail2ban.choice = [Choice EXCEPT !.same = "again", !.lazy = TRUE,
                                              !.runs = {"loadPolicy", "loadLog"}]
    BY DEF Fail2ban
  <2>2. /\ Fail2ban.choice.runs = {"loadPolicy", "loadLog"} /\ Fail2ban.choice.leaves = {}
        /\ Fail2ban.choice.same = "again"
    BY <2>1 DEF Choice
  <2> QED BY <2>1, <2>2 DEF Plan, Anywhere, Tabs
<1>3. DOMAIN Fail2ban.ops = {"loadStatus", "onBan", "onUnban", "loadPolicy", "onSavePolicy",
      "onSaveConfig", "loadLog"}
  BY DEF Fail2ban, OverviewOps, PolicyOps
<1>4. /\ page.ops = Fail2ban.ops
      /\ Ops = {"loadStatus", "onBan", "onUnban", "loadPolicy", "onSavePolicy", "onSaveConfig",
             "loadLog"}
      /\ Plan(page, {"loadStatus"}, {}, {"loadPolicy", "loadLog"})
      /\ page.name = "fail2ban" /\ IsPage
  BY <1>1, <1>2, <1>3, RunningPlan
<1>5. /\ Reader(Op("loadStatus"), "statusLoading", {"jails"})
      /\ InItsTab(Op("loadStatus"), "overview", "statusError")
  BY <1>4, TabLoadReads DEF Op, none, Fail2ban, OverviewOps, PolicyOps
<1>6. /\ Whole(Op("onBan"), "banning", {"loadStatus"})
      /\ InItsTab(Op("onBan"), "overview", "actionError") /\ Alters(Op("onBan"), {"jails"}, {})
  <2> DEFINE op == [Submit("banning", "actionError", {"jails"}, {"loadStatus"})
        EXCEPT !.at = {"overview"}]
  <2>1. Fail2ban.ops["onBan"] = op
    BY DEF Fail2ban, OverviewOps, PolicyOps
  <2>2. /\ Whole(op, "banning", {"loadStatus"}) /\ InItsTab(op, "overview", "actionError")
        /\ Alters(op, {"jails"}, {})
    BY DEF Submit, Change, Handler, Writer, Plain, Whole, InItsTab, Alters, none
  <2> QED BY <1>4, <2>1, <2>2 DEF Op
<1>7. /\ Single(Op("onUnban"), "unbanningIp", {"loadStatus"})
      /\ InItsTab(Op("onUnban"), "overview", "actionError")
      /\ Alters(Op("onUnban"), {"jails"}, {})
  <2> DEFINE op == [RowChange("unbanningIp", "actionError", "jails", {"jails"},
        {"loadStatus"}) EXCEPT !.at = {"overview"}, !.hidden = {"statusLoading", "statusError"}]
  <2>1. Fail2ban.ops["onUnban"] = op
    BY DEF Fail2ban, OverviewOps, PolicyOps
  <2>2. /\ Single(op, "unbanningIp", {"loadStatus"}) /\ InItsTab(op, "overview", "actionError")
        /\ Alters(op, {"jails"}, {})
    BY DEF RowChange, Change, Handler, Writer, Plain, Single, InItsTab, Alters, none
  <2> QED BY <1>4, <2>1, <2>2 DEF Op
<1>8. /\ Reader(Op("loadPolicy"), "policyLoading", {"policy", "daemonConfig"})
      /\ InItsTab(Op("loadPolicy"), "policy", "policyError")
  BY <1>4, TabLoadReads DEF Op, none, Fail2ban, OverviewOps, PolicyOps
<1>9. /\ Whole(Op("onSavePolicy"), "savingPolicy", {})
      /\ InItsTab(Op("onSavePolicy"), "policy", "policyError")
      /\ Alters(Op("onSavePolicy"), {"policy"}, {"policy"})
  <2> DEFINE op == [[Save("savingPolicy", "policyError", "policy") EXCEPT !.at = {"policy"},
        !.hidden = {"policyLoading"}] EXCEPT !.checks = TRUE, !.keeps = TRUE]
  <2>1. Fail2ban.ops["onSavePolicy"] = op
    BY DEF Fail2ban, OverviewOps, PolicyOps
  <2>2. /\ Whole(op, "savingPolicy", {}) /\ InItsTab(op, "policy", "policyError")
        /\ Alters(op, {"policy"}, {"policy"})
    BY DEF Save, Handler, Writer, Plain, Whole, InItsTab, Alters, none
  <2> QED BY <1>4, <2>1, <2>2 DEF Op
<1>10. /\ Whole(Op("onSaveConfig"), "savingConfig", {})
       /\ InItsTab(Op("onSaveConfig"), "policy", "policyError")
       /\ Alters(Op("onSaveConfig"), {"daemonConfig"}, {"daemonConfig"})
  <2> DEFINE op == [Save("savingConfig", "policyError", "daemonConfig")
        EXCEPT !.at = {"policy"}, !.hidden = {"policyLoading"}]
  <2>1. Fail2ban.ops["onSaveConfig"] = op
    BY DEF Fail2ban, OverviewOps, PolicyOps
  <2>2. /\ Whole(op, "savingConfig", {}) /\ InItsTab(op, "policy", "policyError")
        /\ Alters(op, {"daemonConfig"}, {"daemonConfig"})
    BY DEF Save, Handler, Writer, Plain, Whole, InItsTab, Alters, none
  <2> QED BY <1>4, <2>1, <2>2 DEF Op
<1>11. /\ Reader(Op("loadLog"), "logLoading", {"logLines"})
       /\ InItsTab(Op("loadLog"), "log", "logError")
  BY <1>4, TabLoadReads DEF Op, none, Fail2ban, OverviewOps, PolicyOps
<1>12. Loads = {"loadStatus", "loadPolicy", "loadLog"}
  BY <1>4, <1>5, <1>6, <1>7, <1>8, <1>9, <1>10, <1>11 DEF Loads, Plan, Reader, Writer, Plain,
       Whole, Single
<1>13. IsFiniteSet(Loads)
  BY <1>12, ThreeFinite
<1>14. page.keyed \subseteq Fields
  BY <1>4 DEF Plan
<1>15. \A o \in Ops : FieldsFit(o)
  BY <1>4, <1>5, <1>6, <1>7, <1>8, <1>9, <1>10, <1>11 DEF FieldsFit, Reader, Writer, Plain,
       Whole, Single, InItsTab, Alters, none
<1>16. \A o \in Ops : FlagFits(o)
  BY <1>4, <1>12, <1>5, <1>6, <1>7, <1>8, <1>9, <1>10, <1>11 DEF FlagFits, Exclusive, Reader,
       Writer, Plain, Whole, Single, Alters, none
<1>17. \A l \in Loads : LoadFits(l)
  BY <1>4, <1>12, <1>5, <1>8, <1>11 DEF LoadFits, Reader
<1>18. /\ page.opens = "overview" /\ page.keys = Tabs /\ page.choice.clears = {}
     /\ page.choice.same = "again"
     /\ page.tab = [jails |-> "overview", policy |-> "policy", daemonConfig |-> "policy",
                    logLines |-> "log"]
  <2>1. /\ page.opens = Fail2ban.opens /\ page.keys = Fail2ban.keys
        /\ page.choice = Fail2ban.choice /\ page.tab = Fail2ban.tab
    BY <1>1 DEF Running
  <2>2. /\ Fail2ban.opens = "overview" /\ Fail2ban.keys = Tabs
        /\ Fail2ban.choice.clears = {} /\ Fail2ban.choice.same = "again"
        /\ Fail2ban.tab = [jails |-> "overview", policy |-> "policy", daemonConfig |-> "policy",
                           logLines |-> "log"]
    BY DEF Fail2ban, Choice
  <2> QED BY <2>1, <2>2
<1>19. /\ Tabbed = {"jails", "policy", "daemonConfig", "logLines"} /\ Opens = Tabs
     /\ page.tab["jails"] = "overview" /\ page.tab["policy"] = "policy"
     /\ page.tab["daemonConfig"] = "policy" /\ page.tab["logLines"] = "log"
  BY <1>18 DEF Tabbed, Opens, Tabs
<1>20. Fields = Tabbed
  BY <1>4, <1>19, <1>5, <1>6, <1>7, <1>8, <1>9, <1>10, <1>11, Described DEF Reader, Writer,
       Plain, Whole, Single, InItsTab, Alters
<1>21. /\ Reloaded("onBan") = {"jails"} /\ Reloaded("onUnban") = {"jails"}
     /\ \A o \in Ops \ {"onBan", "onUnban"} : Reloaded(o) = {}
  BY <1>4, <1>5, <1>6, <1>7, <1>8, <1>9, <1>10, <1>11 DEF Reloaded, Reader, Writer, Plain,
       Whole, Single, InItsTab, Alters
<1>22. \A o \in Ops : Mends(o) /\ BlanksOpen(o)
  BY <1>4, <1>21, <1>5, <1>6, <1>7, <1>8, <1>9, <1>10, <1>11 DEF Plan, Mends, BlanksOpen,
       Targets, Reader, Writer, Plain, Whole, Single, InItsTab, Alters
<1>23. \A o \in Ops : \A f \in Targets(o) :
       f \in Tabbed /\ Op(o).at = {page.tab[f]} /\ Op(o).error # none
  BY <1>4, <1>19, <1>21, <1>5, <1>6, <1>7, <1>8, <1>9, <1>10, <1>11 DEF Targets, Reader,
       Writer, Plain, Whole, Single, InItsTab, Alters
<1>24. \A f \in Fields : page.about[f] = {o \in Ops : f \in Op(o).changes \cup Op(o).shows}
  BY <1>4, NoGaps, Described
<1>25. \A o \in Ops : Announces(o) /\ StaysUp(o)
  <2>1. ASSUME NEW o \in Ops, NEW f \in Targets(o) PROVE o \in page.about[f] /\ Covers(o, f)
    BY <1>4, <2>1, <1>19, <1>20, <1>21, <1>23, <1>24, <1>5, <1>6, <1>7, <1>8, <1>9, <1>10,
         <1>11 DEF Covers, SeenAt, Targets, Reader, Writer, Plain, Whole, Single, InItsTab,
         Alters
  <2> QED BY <1>4, <1>19, <1>20, <1>23, <2>1 DEF Announces, StaysUp
<1>26. \A f \in Fields : \A o \in page.about[f] : Op(o).at = {page.tab[f]}
  BY <1>4, <1>19, <1>20, <1>21, <1>24, <1>5, <1>6, <1>7, <1>8, <1>9, <1>10, <1>11 DEF Reader,
       Writer, Plain, Whole, Single, InItsTab, Alters
<1>27. \A o \in Ops : \A f \in Fields : \A p \in page.about[f] : Op(p).error \in Op(o).clears =>
        Op(o).at \subseteq {page.tab[f]} /\ (o \in Loads => f \in Op(o).shows)
  BY <1>4, <1>12, <1>19, <1>20, <1>21, <1>24, <1>5, <1>6, <1>7, <1>8, <1>9, <1>10, <1>11
       DEF Reader, Writer, Plain, Whole, Single, InItsTab, Alters
<1>28. \A o \in Ops : InTab(o)
  BY <1>4, <1>23, <1>26, <1>27, <1>5, <1>6, <1>7, <1>8, <1>9, <1>10, <1>11 DEF InTab, Reader,
       Writer, Plain, Whole, Single, InItsTab, Alters
<1>29. ChoiceTells
  BY <1>4, <1>18, <1>19, <1>20 DEF Plan, ChoiceTells
<1>30. TabsTell
  BY <1>4, <1>18, <1>19, <1>20, <1>5, <1>6, <1>7, <1>8, <1>9, <1>10, <1>11 DEF Plan, TabsTell,
       Tabs, Reader, Writer, Plain, Whole, Single, InItsTab, Alters
<1>31. Tells
  BY <1>4, <1>22, <1>25, <1>28, <1>29, <1>30 DEF Tells, HandlerTells
<1> QED BY <1>4, <1>13, <1>14, <1>15, <1>16, <1>17, <1>31 DEF Fits, HandlerFits, ChoiceFits,
      Plan

\* mailboxes.ts.
LEMMA MailboxesFits ==
    ASSUME page = Running("mailboxes")
    PROVE  Fits /\ Tells
<1>1. "mailboxes" \in DOMAIN Pages /\ Pages["mailboxes"] = Mailboxes
  BY DEF Pages
<1>2. /\ Plan(Mailboxes, {"loadMailboxes"}, {"aliases", "sieve"}, {"loadAliases", "loadSieve"})
      /\ Untabbed(Mailboxes, {none}) /\ Mailboxes.opens = none
  BY DEF Plan, Untabbed, Anywhere, Choice, Mailboxes, PageOf
<1>3. DOMAIN Mailboxes.ops = {"loadMailboxes", "onCreate", "onSaveQuota", "onDelete",
      "onResetPassword", "loadAliases", "onAddAlias", "onRemoveAlias", "loadSieve",
      "onSaveSieve", "onRemoveSieve"}
  BY DEF Mailboxes, PageOf, Merge, MailboxListOps, MailboxPasswordOps, MailboxAliasOps,
       MailboxSieveOps
<1>4. /\ page.ops = Mailboxes.ops
      /\ Ops = {"loadMailboxes", "onCreate", "onSaveQuota", "onDelete", "onResetPassword",
             "loadAliases", "onAddAlias", "onRemoveAlias", "loadSieve", "onSaveSieve",
             "onRemoveSieve"}
      /\ Plan(page, {"loadMailboxes"}, {"aliases", "sieve"}, {"loadAliases",
            "loadSieve"}) /\ Untabbed(page, {none}) /\ page.opens = none
      /\ page.name = "mailboxes" /\ IsPage
  BY <1>1, <1>2, <1>3, RunningPlan
<1>5. /\ Reader(Op("loadMailboxes"), "loading", {"mailboxes"})
      /\ Loud(Op("loadMailboxes"), "loadError")
  BY <1>4, LoadReads DEF Op, none, Mailboxes, PageOf, Merge, MailboxListOps,
       MailboxPasswordOps, MailboxAliasOps, MailboxSieveOps
<1>6. /\ Whole(Op("onCreate"), "creating", {"loadMailboxes"})
      /\ Loud(Op("onCreate"), "createError") /\ Alters(Op("onCreate"), {"mailboxes"}, {})
  BY <1>4, SubmitWrites DEF Op, none, Mailboxes, PageOf, Merge, MailboxListOps,
       MailboxPasswordOps, MailboxAliasOps, MailboxSieveOps
<1>7. /\ Whole(Op("onSaveQuota"), "savingQuota", {"loadMailboxes"})
      /\ Paneled(Op("onSaveQuota"), "quotaError")
      /\ Alters(Op("onSaveQuota"), {"mailboxes"}, {})
  <2> DEFINE op == [Submit("savingQuota", "quotaError", {"mailboxes"},
        {"loadMailboxes"}) EXCEPT !.at = Keys, !.hidden = {"loading"}]
  <2>1. Mailboxes.ops["onSaveQuota"] = op
    BY DEF Mailboxes, PageOf, Merge, MailboxListOps, MailboxPasswordOps, MailboxAliasOps,
         MailboxSieveOps
  <2>2. /\ Whole(op, "savingQuota", {"loadMailboxes"}) /\ Paneled(op, "quotaError")
        /\ Alters(op, {"mailboxes"}, {})
    BY DEF Submit, Change, Handler, Writer, Plain, Whole, Paneled, Alters, none
  <2> QED BY <1>4, <2>1, <2>2 DEF Op
<1>8. /\ Writer(Op("onDelete"), "deletingEmail", {"loadMailboxes"})
      /\ Op("onDelete").anyRow = FALSE /\ Op("onDelete").rowKey = FALSE
      /\ Loud(Op("onDelete"), "loadError") /\ Alters(Op("onDelete"), {"mailboxes"}, {})
  <2> DEFINE op == [RowChange("deletingEmail", "loadError", "mailboxes", {"mailboxes"},
        {"loadMailboxes"}) EXCEPT !.closes = TRUE]
  <2>1. Mailboxes.ops["onDelete"] = op
    BY DEF Mailboxes, PageOf, Merge, MailboxListOps, MailboxPasswordOps, MailboxAliasOps,
         MailboxSieveOps
  <2>2. /\ Writer(op, "deletingEmail", {"loadMailboxes"}) /\ op.anyRow = FALSE
        /\ op.rowKey = FALSE /\ Loud(op, "loadError") /\ Alters(op, {"mailboxes"}, {})
    BY DEF RowChange, Change, Handler, Writer, Loud, Alters, none
  <2> QED BY <1>4, <2>1, <2>2 DEF Op
<1>9. /\ Whole(Op("onResetPassword"), "saving", {})
      /\ Paneled(Op("onResetPassword"), "formError") /\ Alters(Op("onResetPassword"), {}, {})
  <2> DEFINE op == [Submit("saving", "formError", {}, {}) EXCEPT !.at = Keys,
        !.hidden = {"loading"}]
  <2>1. Mailboxes.ops["onResetPassword"] = op
    BY DEF Mailboxes, PageOf, Merge, MailboxListOps, MailboxPasswordOps, MailboxAliasOps,
         MailboxSieveOps
  <2>2. Whole(op, "saving", {}) /\ Paneled(op, "formError") /\ Alters(op, {}, {})
    BY DEF Submit, Change, Handler, Writer, Plain, Whole, Paneled, Alters, none
  <2> QED BY <1>4, <2>1, <2>2 DEF Op
<1>10. /\ Reader(Op("loadAliases"), "aliasesLoading", {"aliases"})
       /\ Paneled(Op("loadAliases"), "aliasError")
  <2> DEFINE op == [Load("aliasesLoading", "aliasError", {"aliases"}) EXCEPT !.at = Keys,
        !.clears = {}, !.blanks = {"aliases"}]
  <2>1. Mailboxes.ops["loadAliases"] = op
    BY DEF Mailboxes, PageOf, Merge, MailboxListOps, MailboxPasswordOps, MailboxAliasOps,
         MailboxSieveOps
  <2>2. Reader(op, "aliasesLoading", {"aliases"}) /\ Paneled(op, "aliasError")
    BY DEF Load, Handler, Reader, Paneled, none
  <2> QED BY <1>4, <2>1, <2>2 DEF Op
<1>11. /\ Whole(Op("onAddAlias"), "addingAlias", {"loadAliases"})
       /\ Paneled(Op("onAddAlias"), "aliasError") /\ Alters(Op("onAddAlias"), {"aliases"}, {})
  <2> DEFINE op == [[Submit("addingAlias", "aliasError", {"aliases"}, {"loadAliases"})
        EXCEPT !.at = Keys, !.sameKey = TRUE] EXCEPT !.hidden = {"loading"}]
  <2>1. Mailboxes.ops["onAddAlias"] = op
    BY DEF Mailboxes, PageOf, Merge, MailboxListOps, MailboxPasswordOps, MailboxAliasOps,
         MailboxSieveOps
  <2>2. /\ Whole(op, "addingAlias", {"loadAliases"}) /\ Paneled(op, "aliasError")
        /\ Alters(op, {"aliases"}, {})
    BY DEF Submit, Change, Handler, Writer, Plain, Whole, Paneled, Alters, none
  <2> QED BY <1>4, <2>1, <2>2 DEF Op
<1>12. /\ Single(Op("onRemoveAlias"), "removingAlias", {"loadAliases"})
       /\ Paneled(Op("onRemoveAlias"), "aliasError")
       /\ Alters(Op("onRemoveAlias"), {"aliases"}, {})
  <2> DEFINE op == [[RowChange("removingAlias", "aliasError", "aliases", {"aliases"},
        {"loadAliases"}) EXCEPT !.at = Keys, !.sameKey = TRUE] EXCEPT !.hidden = {"loading",
        "aliasesLoading"}]
  <2>1. Mailboxes.ops["onRemoveAlias"] = op
    BY DEF Mailboxes, PageOf, Merge, MailboxListOps, MailboxPasswordOps, MailboxAliasOps,
         MailboxSieveOps
  <2>2. /\ Single(op, "removingAlias", {"loadAliases"}) /\ Paneled(op, "aliasError")
        /\ Alters(op, {"aliases"}, {})
    BY DEF RowChange, Change, Handler, Writer, Plain, Single, Paneled, Alters, none
  <2> QED BY <1>4, <2>1, <2>2 DEF Op
<1>13. /\ Reader(Op("loadSieve"), "sieveLoading", {"sieve"})
       /\ Paneled(Op("loadSieve"), "sieveError")
  <2> DEFINE op == [Load("sieveLoading", "sieveError", {"sieve"}) EXCEPT !.at = Keys,
        !.clears = {}, !.blanks = {"sieve"}]
  <2>1. Mailboxes.ops["loadSieve"] = op
    BY DEF Mailboxes, PageOf, Merge, MailboxListOps, MailboxPasswordOps, MailboxAliasOps,
         MailboxSieveOps
  <2>2. Reader(op, "sieveLoading", {"sieve"}) /\ Paneled(op, "sieveError")
    BY DEF Load, Handler, Reader, Paneled, none
  <2> QED BY <1>4, <2>1, <2>2 DEF Op
<1>14. /\ Whole(Op("onSaveSieve"), "savingSieve", {})
       /\ Paneled(Op("onSaveSieve"), "sieveError")
       /\ Alters(Op("onSaveSieve"), {"sieve"}, {"sieve"})
  <2> DEFINE op == [Save("savingSieve", "sieveError", "sieve") EXCEPT !.at = Keys,
        !.hidden = {"loading", "sieveLoading", "savingSieve", "removingSieve"}]
  <2>1. Mailboxes.ops["onSaveSieve"] = op
    BY DEF Mailboxes, PageOf, Merge, MailboxListOps, MailboxPasswordOps, MailboxAliasOps,
         MailboxSieveOps
  <2>2. /\ Whole(op, "savingSieve", {}) /\ Paneled(op, "sieveError")
        /\ Alters(op, {"sieve"}, {"sieve"})
    BY DEF Save, Handler, Writer, Plain, Whole, Paneled, Alters, none
  <2> QED BY <1>4, <2>1, <2>2 DEF Op
<1>15. /\ Whole(Op("onRemoveSieve"), "removingSieve", {})
       /\ Paneled(Op("onRemoveSieve"), "sieveError")
       /\ Alters(Op("onRemoveSieve"), {"sieve"}, {"sieve"})
  <2> DEFINE op == [[Save("removingSieve", "sieveError", "sieve") EXCEPT !.at = Keys,
        !.hidden = {"loading", "sieveLoading", "savingSieve", "removingSieve"}]
        EXCEPT !.rowsOf = "sieve"]
  <2>1. Mailboxes.ops["onRemoveSieve"] = op
    BY DEF Mailboxes, PageOf, Merge, MailboxListOps, MailboxPasswordOps, MailboxAliasOps,
         MailboxSieveOps
  <2>2. /\ Whole(op, "removingSieve", {}) /\ Paneled(op, "sieveError")
        /\ Alters(op, {"sieve"}, {"sieve"})
    BY DEF Save, Handler, Writer, Plain, Whole, Paneled, Alters, none
  <2> QED BY <1>4, <2>1, <2>2 DEF Op
<1>16. Loads = {"loadMailboxes", "loadAliases", "loadSieve"}
  BY <1>4, <1>5, <1>6, <1>7, <1>8, <1>9, <1>10, <1>11, <1>12, <1>13, <1>14, <1>15 DEF Loads,
       Plan, Reader, Writer, Plain, Whole, Single
<1>17. IsFiniteSet(Loads)
  BY <1>16, ThreeFinite
<1>18. page.keyed \subseteq Fields
  BY <1>4, <1>5, <1>6, <1>7, <1>8, <1>9, <1>10, <1>11, <1>12, <1>13, <1>14, <1>15,
       Described DEF Plan, Reader
<1>19. \A o \in Ops : FieldsFit(o)
  BY <1>4, <1>5, <1>6, <1>7, <1>8, <1>9, <1>10, <1>11, <1>12, <1>13, <1>14, <1>15
       DEF FieldsFit, Reader, Writer, Plain, Whole, Single, Loud, Paneled, Alters, none
<1>20. \A o \in Ops : FlagFits(o)
  BY <1>4, <1>16, <1>5, <1>6, <1>7, <1>8, <1>9, <1>10, <1>11, <1>12, <1>13, <1>14, <1>15
       DEF FlagFits, Exclusive, Reader, Writer, Plain, Whole, Single, Alters, none
<1>21. \A l \in Loads : LoadFits(l)
  BY <1>4, <1>16, <1>5, <1>10, <1>13 DEF LoadFits, Reader
<1>22. \A o : \A f : ~Gap(o, f)
  BY <1>4, NoGaps
<1>23. \A o \in Ops : Mends(o) /\ BlanksOpen(o)
  BY <1>4, <1>5, <1>6, <1>7, <1>8, <1>9, <1>10, <1>11, <1>12, <1>13, <1>14, <1>15 DEF Plan,
       Mends, BlanksOpen, Targets, Reloaded, Reader, Writer, Plain, Whole, Single, Loud,
       Paneled, Alters, none
<1>24. \A o \in Ops : Spoken(o)
  BY <1>4, KeysApart, <1>22, <1>5, <1>6, <1>7, <1>8, <1>9, <1>10, <1>11, <1>12, <1>13, <1>14,
       <1>15 DEF Plan, Spoken, Targets, Reloaded, Reader, Anywhere, Writer, Plain, Whole,
       Single, Loud, Paneled, Alters, none
<1>25. ChoiceTells
  BY <1>4, <1>5, <1>6, <1>7, <1>8, <1>9, <1>10, <1>11, <1>12, <1>13, <1>14, <1>15,
       Described DEF Plan, Untabbed, ChoiceTells, Reader, Writer, Plain, Whole, Single, Loud,
       Paneled, Alters, SeenAt, Tabbed, Anywhere
<1>26. Tells
  BY <1>4, <1>19, <1>23, <1>24, <1>25, UntabbedTells
<1> QED BY <1>4, <1>17, <1>18, <1>19, <1>20, <1>21, <1>26 DEF Fits, HandlerFits, ChoiceFits,
      Plan

\* users.ts.
LEMMA UsersFits ==
    ASSUME page = Running("users")
    PROVE  Fits /\ Tells
<1>1. "users" \in DOMAIN Pages /\ Pages["users"] = Users
  BY DEF Pages
<1>2. /\ Plan(Users, {"loadUsers", "loadGroups"}, {"members"}, {"loadGroupMembers"})
      /\ Untabbed(Users, {none}) /\ Users.opens = none
  BY DEF Plan, Untabbed, Anywhere, Choice, Users, PageOf
<1>3. DOMAIN Users.ops = {"loadUsers", "loadGroups", "loadGroupMembers", "createUser",
      "deleteUser", "toggleActive", "onSubmit", "submitGroup", "deleteGroup",
      "addSelectedUsersToGroup", "removeMember"}
  BY DEF Users, PageOf, Merge, UserLoads, AccountOps, GroupOps
<1>4. /\ page.ops = Users.ops
      /\ Ops = {"loadUsers", "loadGroups", "loadGroupMembers", "createUser", "deleteUser",
             "toggleActive", "onSubmit", "submitGroup", "deleteGroup",
             "addSelectedUsersToGroup", "removeMember"}
      /\ Plan(page, {"loadUsers", "loadGroups"}, {"members"},
            {"loadGroupMembers"}) /\ Untabbed(page, {none}) /\ page.opens = none
      /\ page.name = "users" /\ IsPage
  BY <1>1, <1>2, <1>3, RunningPlan
<1>5. /\ Reader(Op("loadUsers"), "loading", {"users", "roles"})
      /\ Loud(Op("loadUsers"), "loadError")
  BY <1>4, LoadReads DEF Op, none, Users, PageOf, Merge, UserLoads, AccountOps, GroupOps
<1>6. Reader(Op("loadGroups"), none, {"groups"}) /\ Loud(Op("loadGroups"), "loadError")
  <2> DEFINE op == [Load(none, "loadError", {"groups"}) EXCEPT !.clears = {}]
  <2>1. Users.ops["loadGroups"] = op
    BY DEF Users, PageOf, Merge, UserLoads, AccountOps, GroupOps
  <2>2. Reader(op, none, {"groups"}) /\ Loud(op, "loadError")
    BY DEF Load, Handler, Reader, Loud, none
  <2> QED BY <1>4, <2>1, <2>2 DEF Op
<1>7. /\ Reader(Op("loadGroupMembers"), "loadingMembers", {"members"})
      /\ Paneled(Op("loadGroupMembers"), "membersError")
  <2> DEFINE op == [Load("loadingMembers", "membersError", {"members"}) EXCEPT !.at = Keys,
        !.clears = {}, !.loses = {"members"}]
  <2>1. Users.ops["loadGroupMembers"] = op
    BY DEF Users, PageOf, Merge, UserLoads, AccountOps, GroupOps
  <2>2. Reader(op, "loadingMembers", {"members"}) /\ Paneled(op, "membersError")
    BY DEF Load, Handler, Reader, Paneled, none
  <2> QED BY <1>4, <2>1, <2>2 DEF Op
<1>8. /\ Whole(Op("createUser"), "creatingUser", {"loadUsers"})
      /\ Loud(Op("createUser"), "userCreationError") /\ Alters(Op("createUser"), {"users"}, {})
  <2> DEFINE op == [[Submit("creatingUser", "userCreationError", {"users"},
        {"loadUsers"}) EXCEPT !.hidden = {"loading"}] EXCEPT !.form = "userForm"]
  <2>1. Users.ops["createUser"] = op
    BY DEF Users, PageOf, Merge, UserLoads, AccountOps, GroupOps
  <2>2. /\ Whole(op, "creatingUser", {"loadUsers"}) /\ Loud(op, "userCreationError")
        /\ Alters(op, {"users"}, {})
    BY DEF Submit, Change, Handler, Writer, Plain, Whole, Loud, Alters, none
  <2> QED BY <1>4, <2>1, <2>2 DEF Op
<1>9. /\ Whole(Op("deleteUser"), "deletingUserId", {"loadUsers", "loadGroups"})
      /\ Op("deleteUser").at = Anywhere /\ Op("deleteUser").error = "loadError"
      /\ "loadError" # none /\ Op("deleteUser").everyKey = TRUE
      /\ Alters(Op("deleteUser"), {"users", "groups", "members"}, {})
  <2> DEFINE op == [[RowChange("deletingUserId", "loadError", "users", {"users", "groups",
        "members"}, {"loadUsers", "loadGroups"}) EXCEPT !.anyRow = TRUE]
        EXCEPT !.everyKey = TRUE]
  <2>1. Users.ops["deleteUser"] = op
    BY DEF Users, PageOf, Merge, UserLoads, AccountOps, GroupOps
  <2>2. /\ Whole(op, "deletingUserId", {"loadUsers", "loadGroups"}) /\ op.at = Anywhere
        /\ op.error = "loadError" /\ "loadError" # none /\ op.everyKey = TRUE
        /\ Alters(op, {"users", "groups", "members"}, {})
    BY DEF RowChange, Change, Handler, Writer, Plain, Whole, Alters, none
  <2> QED BY <1>4, <2>1, <2>2 DEF Op
<1>10. /\ Whole(Op("toggleActive"), "togglingUserId", {"loadUsers"})
       /\ Loud(Op("toggleActive"), "loadError") /\ Alters(Op("toggleActive"), {"users"}, {})
  <2> DEFINE op == [RowChange("togglingUserId", "loadError", "users", {"users"},
        {"loadUsers"}) EXCEPT !.anyRow = TRUE]
  <2>1. Users.ops["toggleActive"] = op
    BY DEF Users, PageOf, Merge, UserLoads, AccountOps, GroupOps
  <2>2. /\ Whole(op, "togglingUserId", {"loadUsers"}) /\ Loud(op, "loadError")
        /\ Alters(op, {"users"}, {})
    BY DEF RowChange, Change, Handler, Writer, Plain, Whole, Loud, Alters, none
  <2> QED BY <1>4, <2>1, <2>2 DEF Op
<1>11. /\ Whole(Op("onSubmit"), "saving", {}) /\ Loud(Op("onSubmit"), "formError")
       /\ Alters(Op("onSubmit"), {}, {})
  <2> DEFINE op == [[Submit("saving", "formError", {}, {})
        EXCEPT !.hidden = {"loading"}] EXCEPT !.rowsOf = "users"]
  <2>1. Users.ops["onSubmit"] = op
    BY DEF Users, PageOf, Merge, UserLoads, AccountOps, GroupOps
  <2>2. Whole(op, "saving", {}) /\ Loud(op, "formError") /\ Alters(op, {}, {})
    BY DEF Submit, Change, Handler, Writer, Plain, Whole, Loud, Alters, none
  <2> QED BY <1>4, <2>1, <2>2 DEF Op
<1>12. /\ Whole(Op("submitGroup"), "savingGroup", {"loadGroups"})
       /\ Loud(Op("submitGroup"), "groupFormError")
       /\ Alters(Op("submitGroup"), {"roles", "groups"}, {})
  <2> DEFINE op == [Submit("savingGroup", "groupFormError", {"groups", "roles"},
        {"loadGroups"}) EXCEPT !.hidden = {"loading"}, !.form = "groupForm"]
  <2>1. Users.ops["submitGroup"] = op
    BY DEF Users, PageOf, Merge, UserLoads, AccountOps, GroupOps
  <2>2. /\ Whole(op, "savingGroup", {"loadGroups"}) /\ Loud(op, "groupFormError")
        /\ Alters(op, {"roles", "groups"}, {})
    BY DEF Submit, Change, Handler, Writer, Plain, Whole, Loud, Alters, none
  <2> QED BY <1>4, <2>1, <2>2 DEF Op
<1>13. /\ Writer(Op("deleteGroup"), "saving", {"loadGroups"}) /\ Op("deleteGroup").anyRow = TRUE
       /\ Op("deleteGroup").rowKey = FALSE /\ Loud(Op("deleteGroup"), "loadError")
       /\ Alters(Op("deleteGroup"), {"roles", "groups"}, {})
  <2> DEFINE op == [RowChange("saving", "loadError", "groups", {"groups", "roles"},
        {"loadGroups"}) EXCEPT !.anyRow = TRUE, !.clears = {}, !.closes = TRUE,
        !.mayShut = {"groupForm"}]
  <2>1. Users.ops["deleteGroup"] = op
    BY DEF Users, PageOf, Merge, UserLoads, AccountOps, GroupOps
  <2>2. /\ Writer(op, "saving", {"loadGroups"}) /\ op.anyRow = TRUE /\ op.rowKey = FALSE
        /\ Loud(op, "loadError") /\ Alters(op, {"roles", "groups"}, {})
    BY DEF RowChange, Change, Handler, Writer, Loud, Alters, none
  <2> QED BY <1>4, <2>1, <2>2 DEF Op
<1>14. /\ Whole(Op("addSelectedUsersToGroup"), "addingMembers", {"loadGroups",
              "loadGroupMembers"})
       /\ Paneled(Op("addSelectedUsersToGroup"), "membersError")
       /\ Alters(Op("addSelectedUsersToGroup"), {"roles", "groups", "members"}, {})
  <2> DEFINE op == [[Change("addingMembers", "membersError", {"members", "groups", "roles"},
        {"loadGroupMembers", "loadGroups"}) EXCEPT !.at = Keys, !.sameKey = TRUE]
        EXCEPT !.hidden = {"loading"}]
  <2>1. Users.ops["addSelectedUsersToGroup"] = op
    BY DEF Users, PageOf, Merge, UserLoads, AccountOps, GroupOps
  <2>2. /\ Whole(op, "addingMembers", {"loadGroups", "loadGroupMembers"})
        /\ Paneled(op, "membersError") /\ Alters(op, {"roles", "groups", "members"}, {})
    BY DEF Change, Handler, Writer, Plain, Whole, Paneled, Alters, none
  <2> QED BY <1>4, <2>1, <2>2 DEF Op
<1>15. /\ Whole(Op("removeMember"), "removingMemberId", {"loadGroups", "loadGroupMembers"})
       /\ Paneled(Op("removeMember"), "membersError")
       /\ Alters(Op("removeMember"), {"roles", "groups", "members"}, {})
  <2> DEFINE op == [[RowChange("removingMemberId", "membersError", "members", {"members",
        "groups", "roles"}, {"loadGroupMembers", "loadGroups"}) EXCEPT !.at = Keys,
        !.sameKey = TRUE] EXCEPT !.anyRow = TRUE, !.hidden = {"loading", "loadingMembers"}]
  <2>1. Users.ops["removeMember"] = op
    BY DEF Users, PageOf, Merge, UserLoads, AccountOps, GroupOps
  <2>2. /\ Whole(op, "removingMemberId", {"loadGroups", "loadGroupMembers"})
        /\ Paneled(op, "membersError") /\ Alters(op, {"roles", "groups", "members"}, {})
    BY DEF RowChange, Change, Handler, Writer, Plain, Whole, Paneled, Alters, none
  <2> QED BY <1>4, <2>1, <2>2 DEF Op
<1>16. Loads = {"loadUsers", "loadGroups", "loadGroupMembers"}
  BY <1>4, <1>5, <1>6, <1>7, <1>8, <1>9, <1>10, <1>11, <1>12, <1>13, <1>14, <1>15 DEF Loads,
       Plan, Reader, Writer, Plain, Whole
<1>17. IsFiniteSet(Loads)
  BY <1>16, ThreeFinite
<1>18. page.keyed \subseteq Fields
  BY <1>4, <1>5, <1>6, <1>7, <1>8, <1>9, <1>10, <1>11, <1>12, <1>13, <1>14, <1>15,
       Described DEF Plan, Reader
<1>19. \A o \in Ops : FieldsFit(o)
  BY <1>4, <1>5, <1>6, <1>7, <1>8, <1>9, <1>10, <1>11, <1>12, <1>13, <1>14, <1>15
       DEF FieldsFit, Reader, Writer, Plain, Whole, Loud, Paneled, Alters, none
<1>20. \A o \in Ops : FlagFits(o)
  BY <1>4, <1>16, <1>5, <1>6, <1>7, <1>8, <1>9, <1>10, <1>11, <1>12, <1>13, <1>14, <1>15
       DEF FlagFits, Exclusive, Reader, Writer, Plain, Whole, Alters, none
<1>21. \A l \in Loads : LoadFits(l)
  BY <1>4, <1>16, <1>5, <1>6, <1>7 DEF LoadFits, Reader
<1>22. \A o \in Ops : \A f \in Op(o).shows : ~Gap(o, f)
  BY <1>4, <1>5, <1>6, <1>7, <1>8, <1>9, <1>10, <1>11, <1>12, <1>13, <1>14, <1>15 DEF Reader,
       Writer, Plain, Whole, Loud, Paneled, Alters, Gap, KnownGaps, GroupOps
<1>23. \A o \in Ops : Mends(o) /\ BlanksOpen(o)
  BY <1>4, <1>5, <1>6, <1>7, <1>8, <1>9, <1>10, <1>11, <1>12, <1>13, <1>14, <1>15 DEF Plan,
       Mends, BlanksOpen, Targets, Reloaded, Reader, Writer, Plain, Whole, Loud, Paneled,
       Alters, Gap, KnownGaps, GroupOps, none
<1>24. ~Speaks("createUser", "roles")
  <2>1. ASSUME "roles" \in Fields,
        NEW p \in page.about["roles"] PROVE Op(p).error # Op("createUser").error
    <3>1. p \in Ops /\ "roles" \in Op(p).changes \cup Op(p).shows /\ ~Gap(p, "roles")
      BY <1>4, <2>1, Described
    <3> QED BY <1>4, <3>1, <1>5, <1>6, <1>7, <1>8, <1>9, <1>10, <1>11, <1>12, <1>13, <1>14,
          <1>15 DEF Reader, Writer, Plain, Whole, Loud, Paneled, Alters, Gap, KnownGaps,
          GroupOps, none
  <2>2. "roles" \in Fields
    BY <1>4, <1>5, Described DEF Reader
  <2> QED BY <2>1, <2>2 DEF Speaks
<1>25. \A o \in Ops : Spoken(o)
  BY <1>4, KeysApart, <1>22, <1>24, <1>5, <1>6, <1>7, <1>8, <1>9, <1>10, <1>11, <1>12, <1>13,
       <1>14, <1>15 DEF Plan, Spoken, Targets, Reloaded, Reader, Anywhere, Writer, Plain,
       Whole, Loud, Paneled, Alters, none, Gap, KnownGaps, GroupOps
<1>26. ChoiceTells
  BY <1>4, <1>5, <1>6, <1>7, <1>8, <1>9, <1>10, <1>11, <1>12, <1>13, <1>14, <1>15,
       Described DEF Plan, Untabbed, ChoiceTells, Reader, Writer, Plain, Whole, Loud, Paneled,
       Alters, SeenAt, Tabbed, Anywhere
<1>27. Tells
  BY <1>4, <1>19, <1>23, <1>25, <1>26, UntabbedTells
<1> QED BY <1>4, <1>17, <1>18, <1>19, <1>20, <1>21, <1>27 DEF Fits, HandlerFits, ChoiceFits,
      Plan

\* audit.ts.
LEMMA AuditFits ==
    ASSUME page = Running("audit")
    PROVE  Fits /\ Tells
<1>1. "audit" \in DOMAIN Pages /\ Pages["audit"] = Audit
  BY DEF Pages
<1>2. Plan(Audit, {"load"}, {"entries"}, {"load"}) /\ Untabbed(Audit, Keys)
  <2> DEFINE trail == ScopedPage([load |-> Load("loading", "loadError", {"entries"})],
        "entries")
  <2>1. Plan(trail, {"load"}, {"entries"}, {"load"}) /\ Untabbed(trail, Keys)
    BY ScopedPlan
  <2>2. Audit = [trail EXCEPT !.choice.same = "again", !.choice.hidden = {"loading"}]
    BY DEF Audit
  <2>3. "choice" \in DOMAIN trail /\ trail.choice = [Choice EXCEPT !.runs = {"load"}]
    BY DEF ScopedPage, PageOf
  <2> HIDE DEF trail
  <2>4. /\ Audit.first = trail.first /\ Audit.keyed = trail.keyed /\ Audit.opens = trail.opens
        /\ Audit.keys = trail.keys /\ Audit.tab = trail.tab
        /\ Audit.choice = [[trail.choice EXCEPT !.same = "again"] EXCEPT !.hidden = {"loading"}]
    BY <2>2, <2>3
  <2>5. /\ Audit.choice.runs = {"load"} /\ Audit.choice.leaves = {}
        /\ Audit.choice.same = "again" /\ Audit.choice.lazy = FALSE
    BY <2>3, <2>4 DEF Choice
  <2> QED BY <2>1, <2>4, <2>5 DEF Plan, Untabbed
<1>3. DOMAIN Audit.ops = {"load"}
  BY DEF Audit, ScopedPage, PageOf
<1>4. /\ page.ops = Audit.ops /\ Ops = {"load"}
      /\ Plan(page, {"load"}, {"entries"}, {"load"}) /\ Untabbed(page, Keys)
      /\ page.name = "audit" /\ IsPage
  BY <1>1, <1>2, <1>3, RunningPlan
<1>5. Reader(Op("load"), "loading", {"entries"}) /\ Loud(Op("load"), "loadError")
  BY <1>4, LoadReads DEF Op, none, Audit, ScopedPage, PageOf
<1>6. Loads = {"load"}
  BY <1>4, <1>5 DEF Loads, Plan, Reader
<1>7. IsFiniteSet(Loads)
  BY <1>6, FS_Singleton
<1>8. page.keyed \subseteq Fields
  BY <1>4, <1>5, Described DEF Plan, Reader
<1>9. \A o \in Ops : FieldsFit(o)
  BY <1>4, <1>5 DEF FieldsFit, Reader, Loud, none
<1>10. \A o \in Ops : FlagFits(o)
  BY <1>4, <1>6, <1>5 DEF FlagFits, Exclusive, Reader, none
<1>11. \A l \in Loads : LoadFits(l)
  BY <1>4, <1>6, <1>5 DEF LoadFits, Reader
<1>12. \A o : \A f : ~Gap(o, f)
  BY <1>4, NoGaps
<1>13. \A o \in Ops : Mends(o) /\ BlanksOpen(o)
  BY <1>4, <1>5 DEF Plan, Mends, BlanksOpen, Targets, Reloaded, Reader, Loud, none
<1>14. \A o \in Ops : Spoken(o)
  BY <1>4, KeysApart, <1>12, <1>5 DEF Plan, Spoken, Targets, Reloaded, Reader, Anywhere, Loud,
       none
<1>15. ChoiceTells
  BY <1>4, <1>5, Described DEF Plan, Untabbed, ChoiceTells, Reader, Loud, SeenAt, Tabbed,
       Anywhere
<1>16. Tells
  BY <1>4, <1>9, <1>13, <1>14, <1>15, UntabbedTells
<1> QED BY <1>4, <1>7, <1>8, <1>9, <1>10, <1>11, <1>16 DEF Fits, HandlerFits, ChoiceFits, Plan

\* settings/oidc.ts.
LEMMA OidcFits ==
    ASSUME page = Running("oidc")
    PROVE  Fits /\ Tells
<1>1. "oidc" \in DOMAIN Pages /\ Pages["oidc"] = Oidc
  BY DEF Pages
<1>2. Plan(Oidc, {"load"}, {}, {}) /\ Untabbed(Oidc, {none})
  BY PageOfPlan DEF Oidc
<1>3. DOMAIN Oidc.ops = {"load", "onSubmit"}
  BY DEF Oidc, SettingsOps, PageOf
<1>4. /\ page.ops = Oidc.ops /\ Ops = {"load", "onSubmit"}
      /\ Plan(page, {"load"}, {}, {}) /\ Untabbed(page, {none})
      /\ page.name = "oidc" /\ IsPage
  BY <1>1, <1>2, <1>3, RunningPlan
<1>5. Reader(Op("load"), "loading", {"model"}) /\ Loud(Op("load"), "loadError")
  BY <1>4, LoadReads DEF Op, none, Oidc, SettingsOps, PageOf
<1>6. /\ Whole(Op("onSubmit"), "saving", {}) /\ Loud(Op("onSubmit"), "formError")
      /\ Alters(Op("onSubmit"), {"model"}, {"model"})
  <2> DEFINE op == [Save("saving", "formError", "model") EXCEPT !.checks = TRUE]
  <2>1. Oidc.ops["onSubmit"] = op
    BY DEF Oidc, SettingsOps, PageOf
  <2>2. Whole(op, "saving", {}) /\ Loud(op, "formError") /\ Alters(op, {"model"}, {"model"})
    BY DEF Save, Handler, Writer, Plain, Whole, Loud, Alters, none
  <2> QED BY <1>4, <2>1, <2>2 DEF Op
<1>7. Loads = {"load"}
  BY <1>4, <1>5, <1>6 DEF Loads, Plan, Reader, Writer, Plain, Whole
<1>8. IsFiniteSet(Loads)
  BY <1>7, FS_Singleton
<1>9. page.keyed \subseteq Fields
  BY <1>4 DEF Plan
<1>10. \A o \in Ops : FieldsFit(o)
  BY <1>4, <1>5, <1>6 DEF FieldsFit, Reader, Writer, Plain, Whole, Loud, Alters, none
<1>11. \A o \in Ops : FlagFits(o)
  BY <1>4, <1>7, <1>5, <1>6 DEF FlagFits, Exclusive, Reader, Writer, Plain, Whole, Alters, none
<1>12. \A l \in Loads : LoadFits(l)
  BY <1>4, <1>7, <1>5 DEF LoadFits, Reader
<1>13. \A o : \A f : ~Gap(o, f)
  BY <1>4, NoGaps
<1>14. \A o \in Ops : Mends(o) /\ BlanksOpen(o)
  BY <1>4, <1>5, <1>6 DEF Plan, Mends, BlanksOpen, Targets, Reloaded, Reader, Writer, Plain,
       Whole, Loud, Alters, none
<1>15. \A o \in Ops : Spoken(o)
  BY <1>4, KeysApart, <1>13, <1>5, <1>6 DEF Plan, Spoken, Targets, Reloaded, Reader, Anywhere,
       Writer, Plain, Whole, Loud, Alters, none
<1>16. ChoiceTells
  BY <1>4, <1>5, <1>6, Described DEF Plan, Untabbed, ChoiceTells, Reader, Writer, Plain, Whole,
       Loud, Alters, SeenAt, Tabbed, Anywhere
<1>17. Tells
  BY <1>4, <1>10, <1>14, <1>15, <1>16, UntabbedTells
<1> QED BY <1>4, <1>8, <1>9, <1>10, <1>11, <1>12, <1>17 DEF Fits, HandlerFits, ChoiceFits, Plan

\* settings/mail.ts.
LEMMA MailFits ==
    ASSUME page = Running("mail")
    PROVE  Fits /\ Tells
<1>1. "mail" \in DOMAIN Pages /\ Pages["mail"] = Mail
  BY DEF Pages
<1>2. Plan(Mail, {"load"}, {}, {}) /\ Untabbed(Mail, {none})
  BY PageOfPlan DEF Mail
<1>3. DOMAIN Mail.ops = {"load", "onSubmit", "onTest"}
  BY DEF Mail, SettingsOps, Merge, PageOf
<1>4. /\ page.ops = Mail.ops /\ Ops = {"load", "onSubmit", "onTest"}
      /\ Plan(page, {"load"}, {}, {}) /\ Untabbed(page, {none})
      /\ page.name = "mail" /\ IsPage
  BY <1>1, <1>2, <1>3, RunningPlan
<1>5. Reader(Op("load"), "loading", {"model"}) /\ Loud(Op("load"), "loadError")
  BY <1>4, LoadReads DEF Op, none, Mail, SettingsOps, Merge, PageOf
<1>6. /\ Whole(Op("onSubmit"), "saving", {}) /\ Loud(Op("onSubmit"), "formError")
      /\ Alters(Op("onSubmit"), {"model"}, {"model"})
  <2> DEFINE op == [Save("saving", "formError", "model") EXCEPT !.checks = TRUE]
  <2>1. Mail.ops["onSubmit"] = op
    BY DEF Mail, SettingsOps, Merge, PageOf
  <2>2. Whole(op, "saving", {}) /\ Loud(op, "formError") /\ Alters(op, {"model"}, {"model"})
    BY DEF Save, Handler, Writer, Plain, Whole, Loud, Alters, none
  <2> QED BY <1>4, <2>1, <2>2 DEF Op
<1>7. /\ Whole(Op("onTest"), "testing", {}) /\ Op("onTest").at = Anywhere
      /\ Op("onTest").everyKey = FALSE /\ Alters(Op("onTest"), {}, {})
  <2> DEFINE op == [Handler EXCEPT !.flag = "testing", !.hidden = {"loading", "saving"}]
  <2>1. Mail.ops["onTest"] = op
    BY DEF Mail, SettingsOps, Merge, PageOf
  <2>2. /\ Whole(op, "testing", {}) /\ op.at = Anywhere /\ op.everyKey = FALSE
        /\ Alters(op, {}, {})
    BY DEF Handler, Writer, Plain, Whole, Alters, none
  <2> QED BY <1>4, <2>1, <2>2 DEF Op
<1>8. Loads = {"load"}
  BY <1>4, <1>5, <1>6, <1>7 DEF Loads, Plan, Reader, Writer, Plain, Whole
<1>9. IsFiniteSet(Loads)
  BY <1>8, FS_Singleton
<1>10. page.keyed \subseteq Fields
  BY <1>4 DEF Plan
<1>11. \A o \in Ops : FieldsFit(o)
  BY <1>4, <1>5, <1>6, <1>7 DEF FieldsFit, Reader, Writer, Plain, Whole, Loud, Alters, none
<1>12. \A o \in Ops : FlagFits(o)
  BY <1>4, <1>8, <1>5, <1>6, <1>7 DEF FlagFits, Exclusive, Reader, Writer, Plain, Whole,
       Alters, none
<1>13. \A l \in Loads : LoadFits(l)
  BY <1>4, <1>8, <1>5 DEF LoadFits, Reader
<1>14. \A o : \A f : ~Gap(o, f)
  BY <1>4, NoGaps
<1>15. \A o \in Ops : Mends(o) /\ BlanksOpen(o)
  BY <1>4, <1>5, <1>6, <1>7 DEF Plan, Mends, BlanksOpen, Targets, Reloaded, Reader, Writer,
       Plain, Whole, Loud, Alters, none
<1>16. \A o \in Ops : Spoken(o)
  BY <1>4, KeysApart, <1>14, <1>5, <1>6, <1>7 DEF Plan, Spoken, Targets, Reloaded, Reader,
       Anywhere, Writer, Plain, Whole, Loud, Alters, none
<1>17. ChoiceTells
  BY <1>4, <1>5, <1>6, <1>7, Described DEF Plan, Untabbed, ChoiceTells, Reader, Writer, Plain,
       Whole, Loud, Alters, SeenAt, Tabbed, Anywhere
<1>18. Tells
  BY <1>4, <1>11, <1>15, <1>16, <1>17, UntabbedTells
<1> QED BY <1>4, <1>9, <1>10, <1>11, <1>12, <1>13, <1>18 DEF Fits, HandlerFits, ChoiceFits, Plan

\* profile.ts.
LEMMA ProfileFits ==
    ASSUME page = Running("profile")
    PROVE  Fits /\ Tells
<1>1. "profile" \in DOMAIN Pages /\ Pages["profile"] = Profile
  BY DEF Pages
<1>2. Plan(Profile, {"loadProfile", "loadPats"}, {}, {}) /\ Untabbed(Profile, {none})
  BY DEF Plan, Untabbed, Anywhere, Choice, Profile, PageOf
<1>3. DOMAIN Profile.ops = {"loadProfile", "onSubmit", "loadPats", "createPat", "revokePat"}
  BY DEF Profile, PageOf
<1>4. /\ page.ops = Profile.ops
      /\ Ops = {"loadProfile", "onSubmit", "loadPats", "createPat", "revokePat"}
      /\ Plan(page, {"loadProfile", "loadPats"}, {}, {}) /\ Untabbed(page, {none})
      /\ page.name = "profile" /\ IsPage
  BY <1>1, <1>2, <1>3, RunningPlan
<1>5. Reader(Op("loadProfile"), "loading", {"profile"}) /\ Loud(Op("loadProfile"), "loadError")
  BY <1>4, LoadReads DEF Op, none, Profile, PageOf
<1>6. /\ Whole(Op("onSubmit"), "saving", {}) /\ Loud(Op("onSubmit"), "formError")
      /\ Alters(Op("onSubmit"), {}, {})
  <2> DEFINE op == [Submit("saving", "formError", {}, {}) EXCEPT !.hidden = {"loading"},
        !.rowsOf = "profile"]
  <2>1. Profile.ops["onSubmit"] = op
    BY DEF Profile, PageOf
  <2>2. Whole(op, "saving", {}) /\ Loud(op, "formError") /\ Alters(op, {}, {})
    BY DEF Submit, Change, Handler, Writer, Plain, Whole, Loud, Alters, none
  <2> QED BY <1>4, <2>1, <2>2 DEF Op
<1>7. Reader(Op("loadPats"), "loadingPats", {"pats"}) /\ Loud(Op("loadPats"), "patsError")
  <2> DEFINE op == [Load("loadingPats", "patsError", {"pats"}) EXCEPT !.clears = {}]
  <2>1. Profile.ops["loadPats"] = op
    BY DEF Profile, PageOf
  <2>2. Reader(op, "loadingPats", {"pats"}) /\ Loud(op, "patsError")
    BY DEF Load, Handler, Reader, Loud, none
  <2> QED BY <1>4, <2>1, <2>2 DEF Op
<1>8. /\ Whole(Op("createPat"), "creatingPat", {"loadPats"})
      /\ Loud(Op("createPat"), "patFormError") /\ Alters(Op("createPat"), {"pats"}, {})
  <2> DEFINE op == [Submit("creatingPat", "patFormError", {"pats"}, {"loadPats"})
        EXCEPT !.hidden = {"loading", "loadError"}, !.form = "patForm"]
  <2>1. Profile.ops["createPat"] = op
    BY DEF Profile, PageOf
  <2>2. /\ Whole(op, "creatingPat", {"loadPats"}) /\ Loud(op, "patFormError")
        /\ Alters(op, {"pats"}, {})
    BY DEF Submit, Change, Handler, Writer, Plain, Whole, Loud, Alters, none
  <2> QED BY <1>4, <2>1, <2>2 DEF Op
<1>9. /\ Single(Op("revokePat"), "revokingPatId", {"loadPats"})
      /\ Loud(Op("revokePat"), "patsError") /\ Alters(Op("revokePat"), {"pats"}, {})
  <2> DEFINE op == [RowChange("revokingPatId", "patsError", "pats", {"pats"},
        {"loadPats"}) EXCEPT !.hidden = {"loading", "loadError", "loadingPats"}]
  <2>1. Profile.ops["revokePat"] = op
    BY DEF Profile, PageOf
  <2>2. /\ Single(op, "revokingPatId", {"loadPats"}) /\ Loud(op, "patsError")
        /\ Alters(op, {"pats"}, {})
    BY DEF RowChange, Change, Handler, Writer, Plain, Single, Loud, Alters, none
  <2> QED BY <1>4, <2>1, <2>2 DEF Op
<1>10. Loads = {"loadProfile", "loadPats"}
  BY <1>4, <1>5, <1>6, <1>7, <1>8, <1>9 DEF Loads, Plan, Reader, Writer, Plain, Whole, Single
<1>11. IsFiniteSet(Loads)
  BY <1>10, TwoFinite
<1>12. page.keyed \subseteq Fields
  BY <1>4 DEF Plan
<1>13. \A o \in Ops : FieldsFit(o)
  BY <1>4, <1>5, <1>6, <1>7, <1>8, <1>9 DEF FieldsFit, Reader, Writer, Plain, Whole, Single,
       Loud, Alters, none
<1>14. \A o \in Ops : FlagFits(o)
  BY <1>4, <1>10, <1>5, <1>6, <1>7, <1>8, <1>9 DEF FlagFits, Exclusive, Reader, Writer, Plain,
       Whole, Single, Alters, none
<1>15. \A l \in Loads : LoadFits(l)
  BY <1>4, <1>10, <1>5, <1>7 DEF LoadFits, Reader
<1>16. \A o : \A f : ~Gap(o, f)
  BY <1>4, NoGaps
<1>17. \A o \in Ops : Mends(o) /\ BlanksOpen(o)
  BY <1>4, <1>5, <1>6, <1>7, <1>8, <1>9 DEF Plan, Mends, BlanksOpen, Targets, Reloaded, Reader,
       Writer, Plain, Whole, Single, Loud, Alters, none
<1>18. \A o \in Ops : Spoken(o)
  BY <1>4, KeysApart, <1>16, <1>5, <1>6, <1>7, <1>8, <1>9 DEF Plan, Spoken, Targets, Reloaded,
       Reader, Anywhere, Writer, Plain, Whole, Single, Loud, Alters, none
<1>19. ChoiceTells
  BY <1>4, <1>5, <1>6, <1>7, <1>8, <1>9, Described DEF Plan, Untabbed, ChoiceTells, Reader,
       Writer, Plain, Whole, Single, Loud, Alters, SeenAt, Tabbed, Anywhere
<1>20. Tells
  BY <1>4, <1>13, <1>17, <1>18, <1>19, UntabbedTells
<1> QED BY <1>4, <1>11, <1>12, <1>13, <1>14, <1>15, <1>20 DEF Fits, HandlerFits, ChoiceFits,
      Plan

\* dashboard.ts.
LEMMA DashboardFits ==
    ASSUME page = Running("dashboard")
    PROVE  Fits /\ Tells
<1>1. "dashboard" \in DOMAIN Pages /\ Pages["dashboard"] = Dashboard
  BY DEF Pages
<1>2. Plan(Dashboard, {"mailboxesTile", "queueTile"}, {}, {}) /\ Untabbed(Dashboard, {none})
  BY DEF Plan, Untabbed, Anywhere, Choice, Dashboard, PageOf
<1>3. DOMAIN Dashboard.ops = {"mailboxesTile", "queueTile", "refresh"}
  BY DEF Dashboard, PageOf
<1>4. /\ page.ops = Dashboard.ops /\ Ops = {"mailboxesTile", "queueTile", "refresh"}
      /\ Plan(page, {"mailboxesTile", "queueTile"}, {}, {}) /\ Untabbed(page, {none})
      /\ page.name = "dashboard" /\ IsPage
  BY <1>1, <1>2, <1>3, RunningPlan
<1>5. /\ Reader(Op("mailboxesTile"), "mailboxesLoading", {"mailboxes"})
      /\ Loud(Op("mailboxesTile"), "mailboxesError")
  BY <1>4, TileReads DEF Op, none, Dashboard, PageOf
<1>6. Reader(Op("queueTile"), "queueLoading", {"queue"}) /\ Loud(Op("queueTile"), "queueError")
  BY <1>4, TileReads DEF Op, none, Dashboard, PageOf
<1>7. /\ Whole(Op("refresh"), "refreshing", {"mailboxesTile", "queueTile"})
      /\ Op("refresh").at = Anywhere /\ Op("refresh").everyKey = FALSE
      /\ Alters(Op("refresh"), {}, {}) /\ Op("refresh").asks = FALSE
  <2> DEFINE op == [Handler EXCEPT !.asks = FALSE, !.flag = "refreshing",
        !.hidden = {"refreshing"}, !.reloads = {"mailboxesTile", "queueTile"}]
  <2>1. Dashboard.ops["refresh"] = op
    BY DEF Dashboard, PageOf
  <2>2. /\ Whole(op, "refreshing", {"mailboxesTile", "queueTile"}) /\ op.at = Anywhere
        /\ op.everyKey = FALSE /\ Alters(op, {}, {}) /\ op.asks = FALSE
    BY DEF Handler, Writer, Plain, Whole, Alters, none
  <2> QED BY <1>4, <2>1, <2>2 DEF Op
<1>8. Loads = {"mailboxesTile", "queueTile"}
  BY <1>4, <1>5, <1>6, <1>7 DEF Loads, Plan, Reader, Writer, Plain, Whole
<1>9. IsFiniteSet(Loads)
  BY <1>8, TwoFinite
<1>10. page.keyed \subseteq Fields
  BY <1>4 DEF Plan
<1>11. \A o \in Ops : FieldsFit(o)
  BY <1>4, <1>5, <1>6, <1>7 DEF FieldsFit, Reader, Writer, Plain, Whole, Loud, Alters, none
<1>12. \A o \in Ops : FlagFits(o)
  BY <1>4, <1>8, <1>5, <1>6, <1>7 DEF FlagFits, Exclusive, Reader, Writer, Plain, Whole,
       Alters, none
<1>13. \A l \in Loads : LoadFits(l)
  BY <1>4, <1>8, <1>5, <1>6 DEF LoadFits, Reader
<1>14. \A o : \A f : ~Gap(o, f)
  BY <1>4, NoGaps
<1>15. \A o \in Ops : Mends(o) /\ BlanksOpen(o)
  BY <1>4, <1>5, <1>6, <1>7 DEF Plan, Mends, BlanksOpen, Targets, Reloaded, Reader, Writer,
       Plain, Whole, Loud, Alters, none
<1>16. \A o \in Ops : Spoken(o)
  BY <1>4, KeysApart, <1>14, <1>5, <1>6, <1>7 DEF Plan, Spoken, Targets, Reloaded, Reader,
       Anywhere, Writer, Plain, Whole, Loud, Alters, none
<1>17. ChoiceTells
  BY <1>4, <1>5, <1>6, <1>7, Described DEF Plan, Untabbed, ChoiceTells, Reader, Writer, Plain,
       Whole, Loud, Alters, SeenAt, Tabbed, Anywhere
<1>18. Tells
  BY <1>4, <1>11, <1>15, <1>16, <1>17, UntabbedTells
<1> QED BY <1>4, <1>9, <1>10, <1>11, <1>12, <1>13, <1>18 DEF Fits, HandlerFits, ChoiceFits, Plan

\* Every page of the frontend fits, and tells what goes wrong.
LEMMA PagesFit == IsPage => Fits /\ Tells
<1> SUFFICES ASSUME NEW name \in DOMAIN Pages, page = Running(name)
             PROVE  Fits /\ Tells
  BY DEF IsPage
<1>1. name \in {"sieve", "spam", "ldap", "restrictions", "relay", "aliases", "queue", "dovecot",
                "postfix", "dkim", "rspamd", "tls", "dns", "environment", "logs", "fail2ban",
                "mailboxes", "users", "audit", "oidc", "mail", "profile", "dashboard"}
  BY DEF Pages
<1> QED
  BY <1>1, EditorFits, RestrictionsFits, RelayFits, AliasesFits, QueueFits, DovecotFits,
     PostfixFits, DkimFits, RspamdFits, TlsFits, DnsFits, EnvironmentFits, LogsFits,
     Fail2banFits, MailboxesFits, UsersFits, AuditFits, OidcFits, MailFits, ProfileFits,
     DashboardFits

RowIds == Keys \cup {none}
Reasons == {none, "crossed", "overtaken", "wiped", "unseen", "reverted", "gap"}
Cells == [of : Anywhere \cup {"nothing"}, as : {"new", "old"}, why : Reasons]
Callers == {<<>>} \cup (Ops \X RowIds)
Answers == UNION {[F -> Cells] : F \in SUBSET Fields}
Requests == [op : Ops, key : Anywhere, row : RowIds, by : Callers,
             done : BOOLEAN, kept : BOOLEAN, got : Answers]
Signals == [open : Opens, view : [Fields -> Cells],
            busy : [Flags -> {"off", "on"} \cup Keys], banners : SUBSET Banners,
            forms : SUBSET page.forms, loaded : SUBSET Ops]

\* A handler with a request of its own, and one that `by`, if anybody, awaits.
Sendable(o) == Op(o).asks /\ (o \in Loads \/ Op(o).byUser)
Awaited(o, by) == by # <<>> => o \in Op(by[1]).reloads

\* A request is one that a handler of the page sends, and once it is carried out
\* it holds the answer for its key.
CallOK(c) ==
  /\ Sendable(c.op) /\ Awaited(c.op, c.by)
  /\ DOMAIN c.got = Op(c.op).shows
  /\ c.done => \A f \in Op(c.op).shows : c.got[f].of = KeyOf(f, c.key)

-----------------------------------------------------------------------------

\* What the attributes of a handler name is there.
LEMMA Attributes ==
    ASSUME IsPage, NEW o \in Ops
    PROVE  /\ Op(o).flag \in Flags \cup {none}
           /\ Op(o).error \in Banners \cup {none}
           /\ Op(o).shows \subseteq Fields /\ Op(o).changes \subseteq Fields
           /\ Op(o).blanks \subseteq Op(o).shows /\ Op(o).loses \subseteq Op(o).shows
           /\ Op(o).reloads \subseteq Ops /\ Op(o).reloads \subseteq Loads
           /\ IsFiniteSet(Op(o).reloads)
           /\ Op(o).rowKey => Op(o).rowsOf \in Fields
           /\ ~Op(o).asks => Op(o).reloads # {}
           /\ Op(o).closes => page.opens = none
           /\ Op(o).checks => Op(o).error \in Banners
<1>1. HandlerFits(o) /\ ChoiceFits
  BY PagesFit DEF Fits
<1>2. FieldsFit(o)
  BY <1>1 DEF HandlerFits
<1>3. /\ Op(o).flag \in Flags \cup {none} /\ Op(o).error \in Banners \cup {none}
      /\ Op(o).shows \subseteq Fields /\ Op(o).changes \subseteq Fields
  BY Described
<1>4. Op(o).reloads \subseteq Loads /\ IsFiniteSet(Loads)
  BY <1>1 DEF Loads, ChoiceFits
<1>5. IsFiniteSet(Op(o).reloads)
  BY <1>4, FS_Subset
<1> QED BY <1>2, <1>3, <1>4, <1>5 DEF FieldsFit

\* A load asks, changes nothing and awaits nothing.
LEMMA LoadAttributes ==
    ASSUME IsPage, NEW l \in Loads
    PROVE  /\ l \in Ops /\ Op(l).asks
           /\ Op(l).changes = {} /\ Op(l).reloads = {}
BY PagesFit DEF Fits, LoadFits

\* The keys, the loads and the keyed fields of a page.
LEMMA Places ==
    ASSUME IsPage
    PROVE  /\ Opens \subseteq Anywhere /\ page.keys \subseteq Opens /\ page.opens \in Opens
           /\ page.choice.same = "close" => none \in Opens
           /\ \A os \in SUBSET Loads : IsFiniteSet(os)
           /\ page.first \subseteq Loads /\ page.choice.runs \subseteq Loads
           /\ page.keyed \subseteq Fields /\ page.choice.leaves \subseteq page.keyed
<1>1. ChoiceFits
  BY PagesFit DEF Fits
<1>2. \A os \in SUBSET Loads : IsFiniteSet(os)
  BY <1>1, FS_Subset DEF ChoiceFits
<1> QED BY <1>1, <1>2 DEF ChoiceFits, Opens, Anywhere, Loads

-----------------------------------------------------------------------------
(* Cells *)

\* The cell of a field never read.
LEMMA NothingTyped == Nothing \in Cells
BY DEF Nothing, Cells, Reasons

\* What the server answers is a cell that is right.
LEMMA FreshTyped ==
    ASSUME NEW f, NEW key \in Anywhere
    PROVE  /\ Fresh(f, key) \in Cells
           /\ Fresh(f, key).of = KeyOf(f, key) /\ Fresh(f, key).as = "new" /\ Fresh(f, key).why = none
BY DEF Fresh, Cells, Reasons, KeyOf, Anywhere

\* The key a field is read for.
LEMMA KeyOfTyped == ASSUME NEW f, NEW key \in Anywhere PROVE KeyOf(f, key) \in Anywhere
BY DEF KeyOf, Anywhere

\* A change at the server leaves a cell under its key, and makes it old or says why
\* it is wrong.
LEMMA OutdatedIs ==
    ASSUME NEW cell \in Cells, NEW f, NEW c \in Requests
    PROVE  /\ Outdated(cell, f, c) \in Cells
           /\ Outdated(cell, f, c).of = cell.of
           /\ \/ Outdated(cell, f, c) = cell /\ cell.of # KeyOf(f, c.key) /\ ~Op(c.op).everyKey
              \/ /\ Outdated(cell, f, c).why = "gap" /\ Outdated(cell, f, c).as = cell.as
                 /\ Gap(c.op, f)
              \/ /\ Outdated(cell, f, c).why = cell.why /\ ~Gap(c.op, f)
                 /\ Outdated(cell, f, c).as = "old"
BY DEF Outdated, Cells, Reasons, Gap

\* A field that is set holds the new cell, which may say why it is wrong.
LEMMA ReplacedIs ==
    ASSUME NEW u \in Signals, NEW new \in Cells, NEW f \in Fields, NEW key
    PROVE  /\ Replaced(u, new, f, key) \in Cells
           /\ Replaced(u, new, f, key).of = new.of
           /\ Replaced(u, new, f, key).as = new.as
           /\ \/ Replaced(u, new, f, key).why = "crossed" /\ KeyOf(f, key) # KeyOf(f, u.open)
              \/ Replaced(u, new, f, key).why = "overtaken"
              \/ /\ Replaced(u, new, f, key).why = IF new.why = none /\ new.as = "old"
                                                   THEN u.view[f].why ELSE new.why
                 /\ KeyOf(f, key) = KeyOf(f, u.open)
                 /\ ~(u.view[f].of = new.of /\ u.view[f].as = "new" /\ new.as = "old")
<1>1. u.view[f] \in Cells
  BY DEF Signals
<1>2. u.view[f].why \in Reasons
  BY <1>1 DEF Cells
<1> QED BY <1>2 DEF Replaced, Cells, Reasons

-----------------------------------------------------------------------------
(* The steps of a handler *)

\* `w` is as `v`, but for fields that say that their banner was taken down.
AsQuiet(w, v) ==
  /\ w \in Signals
  /\ w.open = v.open /\ w.busy = v.busy /\ w.banners = v.banners
  /\ w.forms = v.forms /\ w.loaded = v.loaded
  /\ \A f \in Fields : /\ w.view[f].of = v.view[f].of
                       /\ w.view[f].as = v.view[f].as
                       /\ w.view[f].why \in {v.view[f].why, "wiped"}

\* Marking what a banner no longer announces touches no signal.
LEMMA QuietedIs ==
    ASSUME NEW u, NEW v \in Signals, NEW cs
    PROVE  AsQuiet(Quieted(u, v, cs), v)
<1> DEFINE W == {f \in Fields : /\ ~Right(v, f) /\ Visible(v, f)
                                /\ Announced(u, f) /\ ~Announced(v, f)
                                /\ ~UnderRepair(v, f, cs)}
           view == [f \in Fields |-> IF f \in W THEN [v.view[f] EXCEPT !.why = "wiped"]
                                     ELSE v.view[f]]
           w == Quieted(u, v, cs)
<1>1. w = [v EXCEPT !.view = view]
  BY DEF Quieted
<1> HIDE DEF W, w
<1>2. v \in Signals /\ \A f \in Fields : v.view[f] \in Cells
  BY DEF Signals
<1>3. \A f \in Fields : /\ view[f] \in Cells /\ view[f].of = v.view[f].of
                        /\ view[f].as = v.view[f].as /\ view[f].why \in {v.view[f].why, "wiped"}
  BY <1>2 DEF Cells, Reasons
<1>4. view \in [Fields -> Cells] /\ \A f \in Fields : view[f] = view[f]
  BY <1>3
<1> HIDE DEF view
<1>5. /\ w \in Signals /\ w.open = v.open /\ w.busy = v.busy /\ w.banners = v.banners
      /\ w.view = view /\ w.forms = v.forms /\ w.loaded = v.loaded
  BY <1>1, <1>4 DEF Signals
<1>6. AsQuiet(w, v)
  BY <1>3, <1>5 DEF AsQuiet
<1> QED BY <1>6 DEF w

\* `w` is as `u`, but for the banners `bs`.
AsLowered(w, u, bs) ==
  /\ w \in Signals
  /\ w.open = u.open /\ w.busy = u.busy /\ w.banners = u.banners \ bs
  /\ w.forms = u.forms /\ w.loaded = u.loaded
  /\ \A f \in Fields : /\ w.view[f].of = u.view[f].of
                       /\ w.view[f].as = u.view[f].as
                       /\ w.view[f].why \in {u.view[f].why, "wiped"}

\* Taking banners down touches no busy signal and nothing that is open.
LEMMA LoweredIs ==
    ASSUME NEW u \in Signals, NEW bs, NEW cs
    PROVE  AsLowered(Lowered(u, bs, cs), u, bs)
<1> DEFINE v == [u EXCEPT !.banners = u.banners \ bs]
<1>1. /\ v \in Signals /\ v.open = u.open /\ v.busy = u.busy /\ v.view = u.view
      /\ v.banners = u.banners \ bs /\ v.forms = u.forms /\ v.loaded = u.loaded
  BY DEF Signals
<1>2. Lowered(u, bs, cs) = Quieted(u, v, cs)
  BY DEF Lowered
<1> HIDE DEF v
<1>3. AsQuiet(Lowered(u, bs, cs), v)
  BY <1>1, <1>2, QuietedIs
<1> QED BY <1>1, <1>3 DEF AsQuiet, AsLowered

FlagsOf(os) == {Op(o).flag : o \in os}
ClearsOf(os) == UNION {Op(o).clears : o \in os}
BlanksOf(os) == UNION {Op(o).blanks : o \in os}

\* `w` is `u` once the handlers `os` have started, `v` with their banners down.
AsStarted(w, v, u, os, key, row) ==
  /\ w \in Signals /\ w.open = u.open /\ w.banners = u.banners \ ClearsOf(os)
  /\ w.forms = u.forms /\ w.loaded = u.loaded
  /\ \A g \in Flags :
       w.busy[g] = IF g \notin FlagsOf(os) THEN u.busy[g]
                   ELSE IF row = none THEN "on" ELSE row
  /\ \A f \in Fields :
       w.view[f] = IF f \in BlanksOf(os) THEN Replaced(u, Nothing, f, key) ELSE v.view[f]

\* Handlers that start raise their signals and empty what they blank.
LEMMA StartedIs ==
    ASSUME IsPage, NEW u \in Signals, NEW os \in SUBSET Ops, NEW key, NEW row \in RowIds, NEW cs
    PROVE  AsStarted(Started(u, os, key, row, cs), Lowered(u, ClearsOf(os), cs), u, os, key, row)
<1> DEFINE v == Lowered(u, ClearsOf(os), cs)
           w == Started(u, os, key, row, cs)
           busy == [g \in Flags |-> IF g \notin FlagsOf(os) THEN v.busy[g]
                                    ELSE IF row = none THEN "on" ELSE row]
           view == [f \in Fields |-> IF f \in BlanksOf(os) THEN Replaced(u, Nothing, f, key)
                                     ELSE v.view[f]]
<1>1. w = [v EXCEPT !.busy = busy, !.view = view]
  BY DEF Started, FlagsOf, ClearsOf, BlanksOf
<1>2. /\ v \in Signals /\ v.open = u.open /\ v.busy = u.busy
      /\ v.banners = u.banners \ ClearsOf(os) /\ v.forms = u.forms /\ v.loaded = u.loaded
  BY LoweredIs DEF AsLowered
<1> HIDE DEF w, v
<1>3. /\ \A f \in Fields : v.view[f] \in Cells
      /\ \A g \in Flags : v.busy[g] \in {"off", "on"} \cup Keys
  BY <1>2 DEF Signals
<1>4. view \in [Fields -> Cells]
  <2>1. \A f \in Fields : Replaced(u, Nothing, f, key) \in Cells
    BY NothingTyped, ReplacedIs
  <2> QED BY <1>3, <2>1
<1>5. busy \in [Flags -> {"off", "on"} \cup Keys]
  BY <1>3 DEF RowIds
<1>6. /\ \A f \in Fields : view[f] = IF f \in BlanksOf(os) THEN Replaced(u, Nothing, f, key) ELSE v.view[f]
      /\ \A g \in Flags : busy[g] = IF g \notin FlagsOf(os) THEN v.busy[g]
                                    ELSE IF row = none THEN "on" ELSE row
  OBVIOUS
<1> HIDE DEF view, busy
<1>7. /\ w \in Signals /\ w.open = v.open /\ w.banners = v.banners /\ w.busy = busy /\ w.view = view
      /\ w.forms = v.forms /\ w.loaded = v.loaded
  BY <1>1, <1>2, <1>4, <1>5 DEF Signals
<1>8. AsStarted(w, v, u, os, key, row)
  BY <1>2, <1>6, <1>7 DEF AsStarted
<1> QED BY <1>8 DEF w, v

\* The signals that go down once `c` is over and `cs` are left.
DownAfter(c, cs) ==
  {Op(c.op).flag} \cup
  (IF c.by # <<>> /\ ~\E i \in DOMAIN cs : cs[i].by = c.by THEN {Op(c.by[1]).flag} ELSE {})

\* A call that is over takes down its signals and touches nothing else.
LEMMA EndedIs ==
    ASSUME NEW u \in Signals, NEW c, NEW cs
    PROVE  LET w == Ended(u, c, cs)
           IN  /\ w \in Signals
               /\ w.open = u.open /\ w.banners = u.banners /\ w.view = u.view
               /\ w.forms = u.forms /\ w.loaded = u.loaded
               /\ \A g \in Flags : w.busy[g] = IF g \in DownAfter(c, cs) THEN "off" ELSE u.busy[g]
<1> DEFINE w == Ended(u, c, cs)
           busy == [g \in Flags |-> IF g \in DownAfter(c, cs) THEN "off" ELSE u.busy[g]]
<1>1. w = [u EXCEPT !.busy = busy]
  BY DEF Ended, DownAfter
<1> HIDE DEF w
<1>2. busy \in [Flags -> {"off", "on"} \cup Keys]
  BY DEF Signals
<1>3. \A g \in Flags : busy[g] = IF g \in DownAfter(c, cs) THEN "off" ELSE u.busy[g]
  OBVIOUS
<1> HIDE DEF busy
<1> QED BY <1>1, <1>2, <1>3 DEF Signals, w

\* The panel closed.
LEMMA ClosedIs ==
    ASSUME NEW u \in Signals, none \in Opens
    PROVE  LET w == Closed(u)
           IN  /\ w \in Signals /\ w.open = none /\ w.busy = u.busy
               /\ w.forms = u.forms /\ w.loaded = u.loaded
               /\ w.banners = IF page.choice.leaves = {} THEN u.banners ELSE u.banners \ page.choice.clears
               /\ \A f \in Fields : w.view[f] = IF f \in page.choice.leaves THEN Nothing ELSE u.view[f]
<1> DEFINE w == Closed(u)
           view == [f \in Fields |-> IF f \in page.choice.leaves THEN Nothing ELSE u.view[f]]
           banners == IF page.choice.leaves = {} THEN u.banners ELSE u.banners \ page.choice.clears
<1>1. w = [u EXCEPT !.open = none, !.banners = banners, !.view = view]
  BY DEF Closed
<1> HIDE DEF w
<1>2. view \in [Fields -> Cells] /\ banners \in SUBSET Banners
  BY NothingTyped DEF Signals
<1>3. \A f \in Fields : view[f] = IF f \in page.choice.leaves THEN Nothing ELSE u.view[f]
  OBVIOUS
<1> HIDE DEF view
<1> QED BY <1>1, <1>2, <1>3 DEF Signals, w

\* What is shown of the answer of `c`: the cell of each field.
Landed(u, c, f) ==
  IF f \notin Op(c.op).shows THEN u.view[f]
  ELSE IF Op(c.op).keeps /\ ~c.kept THEN LeftIn(u, f)
  ELSE Replaced(u, c.got[f], f, c.key)

\* The banners that stay when it is shown, and the forms `shut` are closed.
Healed(u, c, shut) ==
  u.banners \ ((IF Op(c.op).heals THEN {Op(c.op).error} ELSE {}) \cup BannersOf(shut))

\* The panel of the row is open, and closes with the answer.
Closes(u, c) == Op(c.op).closes /\ u.open = c.row

\* A form read again keeps its cell, which may say that it was.
LEMMA LeftInIs ==
    ASSUME NEW u \in Signals, NEW f \in Fields
    PROVE  /\ LeftIn(u, f) \in Cells
           /\ LeftIn(u, f).of = u.view[f].of /\ LeftIn(u, f).as = u.view[f].as
           /\ (LeftIn(u, f) = Fresh(f, u.open) /\ Right(u, f)) \/ LeftIn(u, f).why = "reverted"
<1>1. u.view[f] \in Cells
  BY DEF Signals
<1> QED BY <1>1 DEF LeftIn, Right, Cells, Reasons

\* `w` is `u` with the answer of `c` shown.
AsShown(w, u, c, shut) ==
  /\ w \in Signals /\ w.busy = u.busy /\ w.forms = u.forms \ shut
  /\ w.loaded = u.loaded \/ (page.choice.lazy /\ w.loaded = u.loaded \cup ({c.op} \cap page.choice.runs))
  /\ ~Closes(u, c) => /\ w.open = u.open /\ w.banners = Healed(u, c, shut)
                      /\ \A f \in Fields : w.view[f] = Landed(u, c, f)
  /\ Closes(u, c) =>
       /\ w.open = none
       /\ w.banners = IF page.choice.leaves = {} THEN Healed(u, c, shut)
                      ELSE Healed(u, c, shut) \ page.choice.clears
       /\ \A f \in Fields : w.view[f] = IF f \in page.choice.leaves THEN Nothing
                                        ELSE Landed(u, c, f)

\* An answer shown.
LEMMA ShownIs ==
    ASSUME IsPage, NEW u \in Signals, NEW c \in Requests, CallOK(c), NEW shut
    PROVE  AsShown(Shown(u, c, shut), u, c, shut)
<1> DEFINE w == Shown(u, c, shut)
           view == [f \in Fields |-> Landed(u, c, f)]
           banners == Healed(u, c, shut)
           forms == u.forms \ shut
           runs == IF page.choice.lazy THEN u.loaded \cup ({c.op} \cap page.choice.runs) ELSE u.loaded
           v == [u EXCEPT !.banners = banners, !.forms = forms, !.loaded = runs, !.view = view]
<1>1. w = IF Closes(u, c) THEN Closed(v) ELSE v
  BY DEF Shown, Landed, Healed, Closes
<1> HIDE DEF w
<1>2. ASSUME NEW f \in Fields PROVE Landed(u, c, f) \in Cells
  <2>1. u.view[f] \in Cells
    BY DEF Signals
  <2>2. CASE f \in Op(c.op).shows
    <3>1. c.got[f] \in Cells
      BY <2>2 DEF CallOK, Requests, Answers
    <3> QED BY <2>2, <3>1, ReplacedIs, LeftInIs DEF Landed
  <2>3. CASE f \notin Op(c.op).shows
    BY <2>1, <2>3 DEF Landed
  <2> QED BY <2>2, <2>3
<1>3. view \in [Fields -> Cells] /\ \A f \in Fields : view[f] = Landed(u, c, f)
  BY <1>2
<1>4. banners \in SUBSET Banners /\ forms \in SUBSET page.forms
  BY DEF Healed, Signals
<1>5. /\ runs \in SUBSET Ops
      /\ runs = u.loaded \/ (page.choice.lazy /\ runs = u.loaded \cup ({c.op} \cap page.choice.runs))
  BY DEF Signals, Requests
<1> HIDE DEF view, banners, forms, runs
<1>6. /\ v \in Signals /\ v.open = u.open /\ v.busy = u.busy /\ v.banners = banners /\ v.view = view
      /\ v.forms = forms /\ v.loaded = runs
  BY <1>3, <1>4, <1>5 DEF Signals
<1> HIDE DEF v
<1>7. CASE ~Closes(u, c)
  BY <1>1, <1>3, <1>5, <1>6, <1>7 DEF w, AsShown, banners, forms
<1>8. CASE Closes(u, c)
  <2>1. none \in Opens
    <3>1. c.op \in Ops
      BY DEF Requests
    <3> QED BY <1>8, <3>1, Attributes DEF Closes, Opens
  <2>2. LET x == Closed(v)
        IN  /\ x \in Signals /\ x.open = none /\ x.busy = v.busy
            /\ x.forms = v.forms /\ x.loaded = v.loaded
            /\ x.banners = IF page.choice.leaves = {} THEN v.banners ELSE v.banners \ page.choice.clears
            /\ \A f \in Fields : x.view[f] = IF f \in page.choice.leaves THEN Nothing ELSE v.view[f]
    BY <1>6, <2>1, ClosedIs
  <2> QED BY <1>1, <1>3, <1>5, <1>6, <1>8, <2>2 DEF w, AsShown, banners, forms
<1> QED BY <1>7, <1>8 DEF w

\* Fields whose control has left the screen when the request about them fails.
Unseen(u, c) == {f \in Op(c.op).changes : ~OnScreen(u, c.op) /\ Visible(u, f) /\ ~Right(u, f)}

\* A call refused.
LEMMA RefusedIs ==
    ASSUME IsPage, NEW u \in Signals, NEW c \in Requests
    PROVE  LET w == Refused(u, c)
           IN  /\ w \in Signals /\ w.open = u.open /\ w.busy = u.busy
               /\ w.forms = u.forms /\ w.loaded = u.loaded
               /\ w.banners = u.banners \cup ({Op(c.op).error} \ {none})
               /\ \A f \in Fields :
                    w.view[f] = IF f \in Op(c.op).loses THEN Nothing
                                ELSE IF f \in Unseen(u, c) THEN [u.view[f] EXCEPT !.why = "unseen"]
                                ELSE u.view[f]
<1> DEFINE w == Refused(u, c)
           view == [f \in Fields |-> IF f \in Op(c.op).loses THEN Nothing
                                     ELSE IF f \in Unseen(u, c) THEN [u.view[f] EXCEPT !.why = "unseen"]
                                     ELSE u.view[f]]
           banners == u.banners \cup ({Op(c.op).error} \ {none})
<1>1. w = [u EXCEPT !.banners = banners, !.view = view]
  BY DEF Refused, Unseen
<1> HIDE DEF w
<1>2. \A f \in Fields : [u.view[f] EXCEPT !.why = "unseen"] \in Cells /\ u.view[f] \in Cells
  BY DEF Signals, Cells, Reasons
<1>3. view \in [Fields -> Cells]
  BY <1>2, NothingTyped
<1>4. banners \in SUBSET Banners
  <2>1. c.op \in Ops
    BY DEF Requests
  <2> QED BY <2>1, Attributes DEF Signals
<1>5. \A f \in Fields : view[f] = IF f \in Op(c.op).loses THEN Nothing
                                  ELSE IF f \in Unseen(u, c) THEN [u.view[f] EXCEPT !.why = "unseen"]
                                  ELSE u.view[f]
  OBVIOUS
<1> HIDE DEF view
<1> QED BY <1>1, <1>3, <1>4, <1>5 DEF Signals, w

\* A request just sent by handler `o`: it knows nothing yet.
Sent(c, o, key, row, by) ==
  /\ c \in Requests /\ CallOK(c)
  /\ c.op = o /\ c.key = key /\ c.row = row /\ c.by = by /\ c.done = FALSE /\ c.kept = TRUE
  /\ DOMAIN c.got = Op(o).shows
  /\ \A f \in DOMAIN c.got : c.got[f] = Nothing

\* A request just sent.
LEMMA CallIs ==
    ASSUME IsPage, NEW o \in Ops, Sendable(o), NEW key \in Anywhere, NEW row \in RowIds,
           NEW by \in Callers, Awaited(o, by)
    PROVE  Sent(Call(o, key, row, by), o, key, row, by)
<1> DEFINE c == Call(o, key, row, by)
           got == [f \in Op(o).shows |-> Nothing]
<1>1. got \in Answers
  <2>1. Op(o).shows \in SUBSET Fields
    BY Attributes
  <2>2. got \in [Op(o).shows -> Cells]
    BY NothingTyped
  <2> QED BY <2>1, <2>2 DEF Answers
<1>2. DOMAIN got = Op(o).shows /\ \A f \in DOMAIN got : got[f] = Nothing
  OBVIOUS
<1>3. c = [op |-> o, key |-> key, row |-> row, by |-> by, done |-> FALSE, kept |-> TRUE,
              got |-> got]
  BY DEF Call
<1> HIDE DEF got
<1>4. c \in Requests
  BY <1>1, <1>3 DEF Requests
<1>5. CallOK(c)
  BY <1>2, <1>3 DEF CallOK
<1> HIDE DEF c
<1>6. Sent(c, o, key, row, by)
  BY <1>2, <1>3, <1>4, <1>5 DEF Sent
<1> QED BY <1>6 DEF c

\* `r` goes on after `s` with the elements of `t`, in order.
Extends(r, s, t) ==
  /\ \A i \in DOMAIN s : i \in DOMAIN r /\ r[i] = s[i]
  /\ \A j \in DOMAIN t : \E i \in DOMAIN r \ DOMAIN s : r[i] = t[j]
  /\ \A i \in DOMAIN r \ DOMAIN s : \E j \in DOMAIN t : i = Len(s) + j /\ r[i] = t[j]

\* Two sequences, one after the other,
LEMMA Joining ==
    ASSUME NEW S, NEW s \in Seq(S), NEW t \in Seq(S)
    PROVE  s \o t \in Seq(S) /\ Extends(s \o t, s, t)
<1>1. /\ s \o t \in Seq(S) /\ Len(s \o t) = Len(s) + Len(t)
      /\ \A i \in 1 .. Len(s) + Len(t) :
           (s \o t)[i] = IF i <= Len(s) THEN s[i] ELSE t[i - Len(s)]
  BY ConcatProperties
<1> DEFINE r == s \o t
<1> HIDE DEF r
<1>2. /\ Len(s) \in Nat /\ DOMAIN s = 1 .. Len(s) /\ Len(t) \in Nat /\ DOMAIN t = 1 .. Len(t)
      /\ DOMAIN r = 1 .. Len(s) + Len(t)
      /\ \A i \in DOMAIN r : r[i] = IF i <= Len(s) THEN s[i] ELSE t[i - Len(s)]
  BY <1>1, LenProperties DEF r
<1>3. \A i \in DOMAIN s : i \in DOMAIN r /\ r[i] = s[i]
  BY <1>2
<1>4. ASSUME NEW j \in DOMAIN t PROVE \E i \in DOMAIN r \ DOMAIN s : r[i] = t[j]
  <2>1. Len(s) + j \in DOMAIN r \ DOMAIN s /\ ~(Len(s) + j <= Len(s)) /\ (Len(s) + j) - Len(s) = j
    BY <1>2
  <2>2. r[Len(s) + j] = t[j]
    BY <1>2, <2>1
  <2> QED BY <2>1, <2>2
<1>5. ASSUME NEW i \in DOMAIN r \ DOMAIN s PROVE \E j \in DOMAIN t : i = Len(s) + j /\ r[i] = t[j]
  <2>1. i - Len(s) \in DOMAIN t /\ ~(i <= Len(s)) /\ i = Len(s) + (i - Len(s))
    BY <1>2
  <2>2. r[i] = t[i - Len(s)]
    BY <1>2, <2>1
  <2> QED BY <2>1, <2>2
<1>6. Extends(r, s, t)
  BY <1>3, <1>4, <1>5 DEF Extends
<1> QED BY <1>1, <1>6 DEF r

\* ... and one with one more element.
LEMMA Appending ==
    ASSUME NEW S, NEW s \in Seq(S), NEW e \in S
    PROVE  /\ Append(s, e) \in Seq(S)
           /\ \A i \in DOMAIN s : i \in DOMAIN Append(s, e) /\ Append(s, e)[i] = s[i]
           /\ \E n \in DOMAIN Append(s, e) \ DOMAIN s :
                /\ Append(s, e)[n] = e
                /\ \A i \in DOMAIN Append(s, e) : i \in DOMAIN s \/ i = n
<1> DEFINE r == Append(s, e)
<1>1. /\ r \in Seq(S) /\ Len(r) = Len(s) + 1 /\ r[Len(s) + 1] = e
      /\ \A i \in 1 .. Len(s) : r[i] = s[i]
  BY AppendProperties
<1> HIDE DEF r
<1>2. /\ Len(s) \in Nat /\ DOMAIN s = 1 .. Len(s) /\ DOMAIN r = 1 .. Len(s) + 1
  BY <1>1, LenProperties
<1>3. \A i \in DOMAIN s : i \in DOMAIN r /\ r[i] = s[i]
  BY <1>1, <1>2
<1>4. Len(s) + 1 \in DOMAIN r \ DOMAIN s /\ \A i \in DOMAIN r : i \in DOMAIN s \/ i = Len(s) + 1
  BY <1>2
<1> QED BY <1>1, <1>3, <1>4 DEF r

\* `s` is a request for each of the loads `os`, in some order.
Sends(s, os, key, by) ==
  /\ s \in Seq(Requests)
  /\ os # {} => s # <<>>
  /\ \A i \in DOMAIN s : s[i].op \in os /\ Sent(s[i], s[i].op, key, none, by)
  /\ \A o \in os : \E i \in DOMAIN s : s[i].op = o
  /\ \A i, j \in DOMAIN s : s[i].op = s[j].op => i = j

\* The loads sent together: one request each.
LEMMA SendingTyped ==
    ASSUME IsPage, NEW os \in SUBSET Loads, NEW key \in Anywhere,
           NEW by \in Callers, \A o \in os : Awaited(o, by)
    PROVE  Sends(Calls(os, key, by), os, key, by)
<1> DEFINE s == Calls(os, key, by)
           S == {Call(o, key, none, by) : o \in os}
<1>1. IsFiniteSet(os)
  BY Places
<1>2. /\ s \in Seq(S)
      /\ os # {} => s # <<>>
      /\ \A i \in DOMAIN s : \E o \in os : s[i] = Call(o, key, none, by)
      /\ \A o \in os : \E i \in DOMAIN s : s[i] = Call(o, key, none, by)
      /\ \A i, j \in DOMAIN s : s[i].op = s[j].op => i = j
  BY <1>1, Sending
<1>3. ASSUME NEW o \in os PROVE Sent(Call(o, key, none, by), o, key, none, by)
  <2>1. none \in RowIds
    BY DEF RowIds
  <2>2. o \in Ops /\ Sendable(o)
    BY LoadAttributes DEF Sendable
  <2> QED BY <2>1, <2>2, CallIs
<1> HIDE DEF s
<1>4. ASSUME NEW c, NEW o \in os, c = Call(o, key, none, by)
      PROVE  c \in Requests /\ c.op = o
  <2>1. Sent(c, o, key, none, by)
    BY <1>3, <1>4
  <2> QED BY <2>1 DEF Sent
<1>5. S \subseteq Requests
  BY <1>4
<1>6. s \in Seq(Requests)
  BY <1>2, <1>5, SeqMonotonic
<1>7. ASSUME NEW i \in DOMAIN s
      PROVE  s[i].op \in os /\ Sent(s[i], s[i].op, key, none, by)
  <2>1. PICK o \in os : s[i] = Call(o, key, none, by)
    BY <1>2
  <2>2. Sent(s[i], o, key, none, by)
    BY <1>3, <2>1
  <2> QED BY <1>4, <2>1, <2>2
<1>8. ASSUME NEW o \in os PROVE \E i \in DOMAIN s : s[i].op = o
  <2>1. PICK i \in DOMAIN s : s[i] = Call(o, key, none, by)
    BY <1>2
  <2> QED BY <1>4, <2>1
<1>9. Sends(s, os, key, by)
  BY <1>2, <1>6, <1>7, <1>8 DEF Sends
<1> QED BY <1>9 DEF s

\* The requests in flight that hold signal `g` up.
Holds(c, g) == \E o \in Behind(c) : Op(o).flag = g

\* The signals of the changes that disable their button for every row.
OwnFlags == {Op(o).flag : o \in {p \in Ops : Exclusive(p)}}

\* Such a signal is up while a request holds it, and two requests that hold the
\* same are reloads that one handler awaits.
FlagsHeld(u, cs) ==
  \A g \in OwnFlags : \A i \in DOMAIN cs : Holds(cs[i], g) =>
    /\ u.busy[g] # "off"
    /\ \A j \in DOMAIN cs \ {i} : Holds(cs[j], g) => cs[i].by = cs[j].by /\ cs[i].by # <<>>

Working(u, cs) ==
  \A g \in Flags : u.busy[g] # "off" => \E i \in DOMAIN cs : Holds(cs[i], g)

-----------------------------------------------------------------------------

\* No row, no key and no caller.
LEMMA NoneTyped == none \in RowIds /\ none \in Anywhere /\ <<>> \in Callers
BY DEF RowIds, Anywhere, Callers

\* The rows of a handler.
LEMMA RowsTyped == ASSUME NEW o, NEW r \in Rows(o) PROVE r \in RowIds
BY KeysApart DEF Rows, RowIds

\* A signal of an exclusive change is shared only with handlers it also disables.
LEMMA OwnFlagsFit ==
    ASSUME IsPage, NEW g \in OwnFlags
    PROVE  /\ g \in Flags
           /\ \A p \in Ops : Op(p).flag = g => Op(p).byUser /\ (Op(p).rowed => Op(p).anyRow)
           /\ \A l \in Loads : Op(l).flag # g
<1>1. PICK o \in Ops : Exclusive(o) /\ Op(o).flag = g
  BY DEF OwnFlags
<1>2. FlagFits(o)
  BY PagesFit DEF Fits, HandlerFits
<1>3. /\ g # none
      /\ \A p \in Ops : Op(p).flag = g => Op(p).byUser /\ (Op(p).rowed => Op(p).anyRow) /\ p \notin Loads
  BY <1>1, <1>2 DEF FlagFits
<1>4. Op(o).flag \in Flags \cup {none}
  BY Attributes
<1> QED BY <1>1, <1>3, <1>4, LoadAttributes

\* Who awaits a request is a handler, and a request that is awaited is a load.
LEMMA AwaitedIs ==
    ASSUME IsPage, NEW c \in Requests, CallOK(c)
    PROVE  /\ c.op \in Ops
           /\ c.by = <<>> => Behind(c) = {c.op}
           /\ c.by # <<>> => /\ c.by[1] \in Ops /\ c.op \in Op(c.by[1]).reloads /\ c.op \in Loads
                             /\ Behind(c) = {c.op, c.by[1]}
           /\ Op(c.op).reloads # {} => c.by = <<>>
<1>1. c.op \in Ops /\ c.by \in Callers
  BY DEF Requests
<1>2. c.by # <<>> => c.by[1] \in Ops /\ c.op \in Op(c.by[1]).reloads
  BY <1>1 DEF CallOK, Awaited, Callers
<1>3. c.by # <<>> => c.op \in Loads
  BY <1>2, Attributes
<1>4. Op(c.op).reloads # {} => c.by = <<>>
  BY <1>3, LoadAttributes
<1> QED BY <1>1, <1>2, <1>3, <1>4 DEF Behind

\* What holds a change's own signal: its request, or a load that it awaits.
OwnerFlag(by) == Op(by[1]).flag

\* Which requests hold such a signal up.
LEMMA HoldsOwn ==
    ASSUME IsPage, NEW c \in Requests, CallOK(c), NEW g \in OwnFlags
    PROVE  /\ c.by = <<>> => (Holds(c, g) <=> Op(c.op).flag = g)
           /\ c.by # <<>> => (Holds(c, g) <=> OwnerFlag(c.by) = g) /\ Op(c.op).flag # g
           /\ c.op \in Loads => Op(c.op).flag # g
<1>1. c.op \in Loads => Op(c.op).flag # g
  BY OwnFlagsFit
<1> QED BY <1>1, AwaitedIs DEF Holds, OwnerFlag

\* A button such a signal disables is enabled only when the signal is down.
LEMMA OwnEnabled ==
    ASSUME IsPage, NEW o \in Ops, NEW r, Enabled(o, r), Op(o).flag \in OwnFlags
    PROVE  ui.busy[Op(o).flag] = "off"
BY OwnFlagsFit DEF Enabled

\* The key a request is for.
LEMMA TargetTyped ==
    ASSUME IsPage, ui \in Signals, NEW o \in Ops, NEW r, Enabled(o, r)
    PROVE  Target(o) \in Anywhere /\ (Op(o).rowKey => Target(o) = ui.view[Op(o).rowsOf].of)
           /\ (~Op(o).rowKey => Target(o) = ui.open)
<1>1. ui.open \in Anywhere
  BY Places DEF Signals
<1>2. CASE Op(o).rowKey
  <2>1. Op(o).rowsOf \in Fields
    BY <1>2, Attributes
  <2>2. Op(o).rowsOf # none
    BY <1>2, PagesFit DEF Fits, HandlerFits, FieldsFit
  <2>3. ui.view[Op(o).rowsOf].of \in Anywhere \cup {"nothing"}
    BY <2>1 DEF Signals, Cells
  <2>4. ui.view[Op(o).rowsOf].of # "nothing"
    BY <2>2 DEF Enabled
  <2> QED BY <1>2, <2>3, <2>4 DEF Target
<1> QED BY <1>1, <1>2 DEF Target

-----------------------------------------------------------------------------
(* What each action does to the requests.                                    *)

GoodCalls(cs) == cs \in Seq(Requests) /\ \A i \in DOMAIN cs : CallOK(cs[i])

\* The loads `os` are sent after the requests `cs`, which makes them `t`.
Grown(t, cs, os, key, by) ==
  /\ \A i \in DOMAIN cs : i \in DOMAIN t /\ t[i] = cs[i]
  /\ \A i \in DOMAIN t \ DOMAIN cs : t[i].op \in os /\ Sent(t[i], t[i].op, key, none, by)
  /\ \A o \in os : \E i \in DOMAIN t \ DOMAIN cs : t[i].op = o
  /\ \A i, j \in DOMAIN t \ DOMAIN cs : t[i].op = t[j].op => i = j

\* The requests once loads are sent after them.
LEMMA GrownIs ==
    ASSUME IsPage, NEW cs, GoodCalls(cs), NEW os \in SUBSET Loads, NEW key \in Anywhere,
           NEW by \in Callers, \A o \in os : Awaited(o, by)
    PROVE  LET t == cs \o Calls(os, key, by)
           IN  GoodCalls(t) /\ Grown(t, cs, os, key, by)
<1> DEFINE s == Calls(os, key, by)
           t == cs \o s
<1>1. Sends(s, os, key, by)
  BY SendingTyped
<1> HIDE DEF s
<1>2. /\ s \in Seq(Requests)
      /\ \A i \in DOMAIN s : s[i].op \in os /\ Sent(s[i], s[i].op, key, none, by)
      /\ \A o \in os : \E i \in DOMAIN s : s[i].op = o
      /\ \A i, j \in DOMAIN s : s[i].op = s[j].op => i = j
  BY <1>1 DEF Sends
<1>3. cs \in Seq(Requests)
  BY DEF GoodCalls
<1>4. t \in Seq(Requests) /\ Extends(t, cs, s)
  BY <1>2, <1>3, Joining
<1> HIDE DEF t
<1>5. \A i \in DOMAIN cs : i \in DOMAIN t /\ t[i] = cs[i]
  BY <1>4 DEF Extends
<1>6. ASSUME NEW i \in DOMAIN t \ DOMAIN cs
      PROVE  \E j \in DOMAIN s : i = Len(cs) + j /\ t[i] = s[j]
  BY <1>4 DEF Extends
<1>7. ASSUME NEW i \in DOMAIN t \ DOMAIN cs
      PROVE  t[i].op \in os /\ Sent(t[i], t[i].op, key, none, by)
  BY <1>2, <1>6
<1>8. \A i \in DOMAIN t : CallOK(t[i])
  BY <1>5, <1>7 DEF GoodCalls, Sent
<1>9. ASSUME NEW i \in DOMAIN t \ DOMAIN cs, NEW j \in DOMAIN t \ DOMAIN cs, t[i].op = t[j].op
      PROVE  i = j
  <2>1. PICK a \in DOMAIN s : i = Len(cs) + a /\ t[i] = s[a]
    BY <1>6
  <2>2. PICK b \in DOMAIN s : j = Len(cs) + b /\ t[j] = s[b]
    BY <1>6
  <2>3. a = b
    BY <1>2, <1>9, <2>1, <2>2
  <2> QED BY <2>1, <2>2, <2>3
<1>10. ASSUME NEW o \in os PROVE \E i \in DOMAIN t \ DOMAIN cs : t[i].op = o
  <2>1. PICK j \in DOMAIN s : s[j].op = o
    BY <1>2
  <2>2. PICK i \in DOMAIN t \ DOMAIN cs : t[i] = s[j]
    BY <1>4 DEF Extends
  <2> QED BY <2>1, <2>2
<1>11. GoodCalls(t) /\ Grown(t, cs, os, key, by)
  BY <1>4, <1>5, <1>7, <1>8, <1>9, <1>10 DEF GoodCalls, Grown
<1> QED BY <1>11 DEF t, s

\* The requests of the constructor,
LEMMA InitCalls ==
    ASSUME IsPage, PageInit
    PROVE  GoodCalls(calls) /\ Grown(calls, <<>>, page.first, page.opens, <<>>)
<1>1. calls = Calls(page.first, page.opens, <<>>)
  BY DEF PageInit
<1>2. Sends(calls, page.first, page.opens, <<>>)
  <2>1. page.first \in SUBSET Loads /\ page.opens \in Anywhere
    BY Places
  <2>2. \A o \in page.first : Awaited(o, <<>>)
    BY DEF Awaited
  <2> QED BY <1>1, <2>1, <2>2, NoneTyped, SendingTyped
<1>3. \A i \in DOMAIN calls : CallOK(calls[i])
  BY <1>2 DEF Sends, Sent
<1>4. DOMAIN <<>> = {}
  OBVIOUS
<1> QED BY <1>2, <1>3, <1>4 DEF Sends, GoodCalls, Grown

\* The request that a click on a handler with one of its own sends.
LEMMA ClickAsks ==
    ASSUME IsPage, ui \in Signals, GoodCalls(calls), NEW o \in Ops, NEW r \in Rows(o), Click(o, r),
           Op(o).asks
    PROVE  /\ GoodCalls(calls')
           /\ \A i \in DOMAIN calls : i \in DOMAIN calls' /\ calls'[i] = calls[i]
           /\ \E n \in DOMAIN calls' \ DOMAIN calls :
                /\ Sent(calls'[n], o, Target(o), r, <<>>)
                /\ \A i \in DOMAIN calls' : i \in DOMAIN calls \/ i = n
<1> DEFINE c == Call(o, Target(o), r, <<>>)
<1>1. r \in RowIds /\ calls \in Seq(Requests)
  BY RowsTyped DEF GoodCalls
<1>2. calls' = Append(calls, c)
  BY DEF Click
<1>3. Sent(c, o, Target(o), r, <<>>)
  <2>1. Enabled(o, r)
    BY DEF Click
  <2>2. Op(o).byUser
    BY <2>1 DEF Enabled
  <2>3. Sendable(o) /\ Awaited(o, <<>>)
    BY <2>2 DEF Sendable, Awaited
  <2>4. Target(o) \in Anywhere
    BY <2>1, TargetTyped
  <2> QED BY <1>1, <2>3, <2>4, NoneTyped, CallIs
<1> HIDE DEF c
<1>4. c \in Requests /\ CallOK(c)
  BY <1>3 DEF Sent
<1>5. /\ calls' \in Seq(Requests)
      /\ \A i \in DOMAIN calls : i \in DOMAIN calls' /\ calls'[i] = calls[i]
      /\ \E n \in DOMAIN calls' \ DOMAIN calls :
           calls'[n] = c /\ \A i \in DOMAIN calls' : i \in DOMAIN calls \/ i = n
  BY <1>1, <1>2, <1>4, Appending
<1>6. GoodCalls(calls')
  BY <1>4, <1>5 DEF GoodCalls
<1> QED BY <1>3, <1>5, <1>6

\* A click on a refresh button sends the loads it stands for.
LEMMA ClickRefreshes ==
    ASSUME IsPage, ui \in Signals, GoodCalls(calls), NEW o \in Ops, NEW r \in Rows(o), Click(o, r),
           ~Op(o).asks
    PROVE  /\ GoodCalls(calls')
           /\ Grown(calls', calls, Op(o).reloads, ui.open, <<o, r>>)
           /\ Op(o).reloads # {}
<1>1. r \in RowIds /\ ui.open \in Anywhere
  BY RowsTyped, Places DEF Signals
<1>2. calls' = calls \o Calls(Op(o).reloads, ui.open, <<o, r>>)
  BY DEF Click
<1>3. \A l \in Op(o).reloads : Awaited(l, <<o, r>>)
  BY DEF Awaited
<1>4. <<o, r>> \in Callers
  BY <1>1 DEF Callers
<1>5. Op(o).reloads \in SUBSET Loads /\ Op(o).reloads # {}
  BY Attributes
<1> QED BY <1>1, <1>2, <1>3, <1>4, <1>5, GrownIs

\* The loads that choosing key `k` starts.
Due(k) ==
  {l \in page.choice.runs :
     /\ k \in Op(l).at
     /\ page.choice.lazy => l \notin ui.loaded}

\* ... once a key is chosen,
LEMMA SelectCalls ==
    ASSUME IsPage, ui \in Signals, GoodCalls(calls), NEW k \in page.keys, Select(k)
    PROVE  \/ /\ k = ui.open /\ page.choice.same = "close"
              /\ ui' = Quieted(ui, Closed(ui), calls)
              /\ calls' = calls
           \/ /\ k = ui.open => page.choice.same = "again"
              /\ ui' = Started(Lowered([ui EXCEPT !.open = k], page.choice.clears, calls'),
                               Due(k), k, none, calls')
              /\ GoodCalls(calls')
              /\ Grown(calls', calls, Due(k), k, <<>>)
<1>1. CASE k = ui.open /\ page.choice.same = "close"
  BY <1>1 DEF Select
<1>2. CASE ~(k = ui.open /\ page.choice.same = "close")
  <2>1. /\ k = ui.open => page.choice.same = "again"
        /\ ui' = Started(Lowered([ui EXCEPT !.open = k], page.choice.clears, calls'),
                         Due(k), k, none, calls')
        /\ calls' = calls \o Calls(Due(k), k, <<>>)
    BY <1>2 DEF Select, Due
  <2>2. Due(k) \in SUBSET Loads /\ k \in Anywhere
    BY Places DEF Due
  <2>3. \A l \in Due(k) : Awaited(l, <<>>)
    BY DEF Awaited
  <2>4. GoodCalls(calls') /\ Grown(calls', calls, Due(k), k, <<>>)
    BY <2>1, <2>2, <2>3, NoneTyped, GrownIs
  <2> QED BY <2>1, <2>4
<1> QED BY <1>1, <1>2

\* The same request, whatever is known of its answer.
Same(d, c) == d.op = c.op /\ d.key = c.key /\ d.row = c.row /\ d.by = c.by

\* Request `c` once it is carried out.
Served(e, c) ==
  /\ e \in Requests /\ CallOK(e) /\ Same(e, c) /\ e.done
  /\ DOMAIN e.got = DOMAIN c.got
  /\ \A f \in DOMAIN c.got : e.got[f] = Fresh(f, c.key)

\* A request carried out,
LEMMA ServedIs ==
    ASSUME IsPage, NEW c \in Requests, CallOK(c)
    PROVE  Served([c EXCEPT !.done = TRUE, !.got = [f \in DOMAIN c.got |-> Fresh(f, c.key)]], c)
<1> DEFINE got == [f \in DOMAIN c.got |-> Fresh(f, c.key)]
           e == [c EXCEPT !.done = TRUE, !.got = got]
<1>1. c.key \in Anywhere /\ c.got \in Answers
  BY DEF Requests
<1>2. got \in Answers
  <2>1. DOMAIN c.got \in SUBSET Fields
    BY <1>1 DEF Answers
  <2>2. \A f \in DOMAIN c.got : Fresh(f, c.key) \in Cells
    BY <1>1, FreshTyped
  <2> QED BY <2>1, <2>2 DEF Answers
<1>3. DOMAIN got = DOMAIN c.got /\ \A f \in DOMAIN c.got : got[f] = Fresh(f, c.key)
  OBVIOUS
<1> HIDE DEF got
<1>4. /\ e \in Requests /\ e.done = TRUE /\ e.got = got
      /\ e.op = c.op /\ e.key = c.key /\ e.row = c.row /\ e.by = c.by
  BY <1>2 DEF Requests
<1> HIDE DEF e
<1>5. Same(e, c)
  BY <1>4 DEF Same
<1>6. \A f \in DOMAIN c.got : got[f].of = KeyOf(f, c.key)
  BY <1>1, <1>3, FreshTyped
<1>7. CallOK(e)
  BY <1>3, <1>4, <1>6 DEF CallOK
<1>8. Served(e, c)
  BY <1>3, <1>4, <1>5, <1>7 DEF Served
<1> QED BY <1>8 DEF e, got

\* What another request knows of a field once `c` is carried out.
LaterIn(d, c, f) == IF f \in Op(c.op).changes THEN Outdated(d.got[f], f, c) ELSE d.got[f]

OutdatedBy(e, d, c) ==
  /\ e \in Requests /\ CallOK(e) /\ Same(e, d) /\ e.done = d.done
  /\ DOMAIN e.got = DOMAIN d.got
  /\ \A f \in DOMAIN d.got : e.got[f] = LaterIn(d, c, f)

\* ... another that it outdates,
LEMMA LaterIs ==
    ASSUME IsPage, NEW d \in Requests, CallOK(d), NEW c \in Requests
    PROVE  OutdatedBy([d EXCEPT !.got = [f \in DOMAIN d.got |-> LaterIn(d, c, f)]], d, c)
<1> DEFINE got == [f \in DOMAIN d.got |-> LaterIn(d, c, f)]
           e == [d EXCEPT !.got = got]
<1>1. d.got \in Answers
  BY DEF Requests
<1>2. DOMAIN d.got \in SUBSET Fields /\ \A f \in DOMAIN d.got : d.got[f] \in Cells
  BY <1>1 DEF Answers
<1>3. ASSUME NEW f \in DOMAIN d.got
      PROVE  LaterIn(d, c, f) \in Cells /\ LaterIn(d, c, f).of = d.got[f].of
  <2>1. CASE LaterIn(d, c, f) = d.got[f]
    BY <1>2, <2>1
  <2>2. CASE LaterIn(d, c, f) = Outdated(d.got[f], f, c)
    BY <1>2, <2>2, OutdatedIs
  <2> QED BY <2>1, <2>2 DEF LaterIn
<1>4. got \in Answers
  BY <1>2, <1>3 DEF Answers
<1>5. DOMAIN got = DOMAIN d.got /\ \A f \in DOMAIN d.got : got[f] = LaterIn(d, c, f)
  OBVIOUS
<1> HIDE DEF got
<1>6. /\ e \in Requests /\ e.done = d.done /\ e.got = got
      /\ e.op = d.op /\ e.key = d.key /\ e.row = d.row /\ e.by = d.by
  BY <1>4 DEF Requests
<1> HIDE DEF e
<1>7. Same(e, d)
  BY <1>6 DEF Same
<1>8. \A f \in DOMAIN d.got : got[f].of = d.got[f].of
  BY <1>3, <1>5
<1>9. CallOK(e)
  BY <1>5, <1>6, <1>8 DEF CallOK
<1>10. OutdatedBy(e, d, c)
  BY <1>5, <1>6, <1>7, <1>9 DEF OutdatedBy
<1> QED BY <1>10 DEF e, got

\* The same request with the same answer, whether or not its form was read again.
AgainKept(e, d) ==
  e \in Requests /\ CallOK(e) /\ Same(e, d) /\ e.done = d.done /\ e.got = d.got

\* ... and one whose form may have been read again.
LEMMA RereadIs ==
    ASSUME IsPage, NEW d \in Requests, CallOK(d), NEW c
    PROVE  AgainKept(Reread(d, c), d)
<1> DEFINE e == Reread(d, c)
<1>1. (d.kept /\ ~(Op(d.op).keeps /\ Op(d.op).shows \cap Op(c.op).shows # {})) \in BOOLEAN
  BY DEF Requests
<1>2. /\ e \in Requests /\ e.done = d.done /\ e.got = d.got
      /\ e.op = d.op /\ e.key = d.key /\ e.row = d.row /\ e.by = d.by
  BY <1>1 DEF Requests, Reread
<1> HIDE DEF e
<1>3. CallOK(e)
  BY <1>2 DEF CallOK
<1>4. AgainKept(e, d)
  BY <1>2, <1>3 DEF AgainKept, Same
<1> QED BY <1>4 DEF e

\* A sequence changed in place.
LEMMA MapTyped ==
    ASSUME NEW S, NEW T, NEW s \in Seq(S), NEW t, DOMAIN t = DOMAIN s, t = [j \in DOMAIN s |-> t[j]],
           \A j \in DOMAIN s : t[j] \in T
    PROVE  t \in Seq(T) /\ Len(t) = Len(s)
<1>1. Len(s) \in Nat /\ DOMAIN s = 1 .. Len(s)
  BY LenProperties
<1>2. t \in [1 .. Len(s) -> T]
  BY <1>1
<1>3. t \in Seq(T)
  BY <1>1, <1>2, SeqDef
<1> QED BY <1>1, <1>2, <1>3, LenProperties

\* Request `i` is carried out, and all others in flight may become outdated.
LEMMA ServeCalls ==
    ASSUME IsPage, ui \in Signals, GoodCalls(calls), NEW i \in DOMAIN calls, Serve(i)
    PROVE  /\ GoodCalls(calls') /\ DOMAIN calls' = DOMAIN calls
           /\ Served(calls'[i], calls[i])
           /\ \A j \in DOMAIN calls \ {i} : OutdatedBy(calls'[j], calls[j], calls[i])
<1> DEFINE c == calls[i]
           New(j) == IF j = i
                     THEN [c EXCEPT !.done = TRUE, !.got = [f \in DOMAIN c.got |-> Fresh(f, c.key)]]
                     ELSE [calls[j] EXCEPT !.got = [f \in DOMAIN calls[j].got |-> LaterIn(calls[j], c, f)]]
<1>1. calls' = [j \in DOMAIN calls |-> New(j)]
  BY DEF Serve, LaterIn
<1>2. calls \in Seq(Requests) /\ \A j \in DOMAIN calls : CallOK(calls[j])
  BY DEF GoodCalls
<1>3. \A j \in DOMAIN calls : calls[j] \in Requests
  BY <1>2, LenProperties
<1>4. Served(New(i), c)
  BY <1>2, <1>3, ServedIs
<1>5. ASSUME NEW j \in DOMAIN calls \ {i}
      PROVE  OutdatedBy(New(j), calls[j], c)
  <2>1. New(j) = [calls[j] EXCEPT !.got = [f \in DOMAIN calls[j].got |-> LaterIn(calls[j], c, f)]]
    OBVIOUS
  <2> HIDE DEF New
  <2> QED BY <1>2, <1>3, <2>1, LaterIs
<1> HIDE DEF New
<1>6. DOMAIN calls' = DOMAIN calls /\ \A j \in DOMAIN calls : calls'[j] = New(j)
  BY <1>1
<1>7. \A j \in DOMAIN calls : New(j) \in Requests /\ CallOK(New(j))
  BY <1>4, <1>5 DEF Served, OutdatedBy
<1>8. calls' \in Seq(Requests)
  BY <1>1, <1>2, <1>6, <1>7, MapTyped
<1> QED BY <1>4, <1>5, <1>6, <1>7, <1>8 DEF GoodCalls

\* What is left of the requests when `i` fails, and in what of them is not lost.
Fewer(rest, cs, i) ==
  /\ \A j \in DOMAIN rest : \E k \in DOMAIN cs \ {i} : Same(rest[j], cs[k])
  /\ \A k \in DOMAIN cs \ {i} : \E j \in DOMAIN rest : Same(rest[j], cs[k])
  /\ \A j, m \in DOMAIN rest : j # m =>
       \E k, n \in DOMAIN cs \ {i} : k # n /\ Same(rest[j], cs[k]) /\ Same(rest[m], cs[n])

\* The requests once one has failed,
LEMMA FailCalls ==
    ASSUME IsPage, ui \in Signals, GoodCalls(calls), NEW i \in DOMAIN calls, Fail(i)
    PROVE  /\ GoodCalls(calls')
           /\ Fewer(calls', calls, i)
           /\ \A j \in DOMAIN calls' : \E k \in DOMAIN calls \ {i} : calls'[j] = calls[k]
           /\ \A k \in DOMAIN calls \ {i} : \E j \in DOMAIN calls' : calls'[j] = calls[k]
<1>1. calls' = RemoveAt(calls, i) /\ calls \in Seq(Requests)
  BY DEF Fail, GoodCalls
<1>2. calls' \in Seq(Requests)
  BY <1>1, Removal
<1>3. \A j \in DOMAIN calls' : \E k \in DOMAIN calls \ {i} : calls'[j] = calls[k]
  BY <1>1, Remaining
<1>4. \A k \in DOMAIN calls \ {i} : \E j \in DOMAIN calls' : calls'[j] = calls[k]
  BY <1>1, Remaining
<1>5. ASSUME NEW j \in DOMAIN calls', NEW m \in DOMAIN calls', j # m
      PROVE  \E k, n \in DOMAIN calls \ {i} : k # n /\ calls'[j] = calls[k] /\ calls'[m] = calls[n]
  BY <1>1, <1>5, RemainingApart
<1>6. \A j, k : calls'[j] = calls[k] => Same(calls'[j], calls[k])
  BY DEF Same
<1>7. Fewer(calls', calls, i)
  BY <1>3, <1>4, <1>5, <1>6 DEF Fewer
<1>8. GoodCalls(calls')
  BY <1>2, <1>3 DEF GoodCalls
<1> QED BY <1>3, <1>4, <1>7, <1>8

\* The requests left once the answer of `i` is in, before its reloads are sent.
Rest(i) == RemoveAt([j \in DOMAIN calls |-> Reread(calls[j], calls[i])], i)

\* ... those left once one has landed,
LEMMA RestIs ==
    ASSUME IsPage, GoodCalls(calls), NEW i \in DOMAIN calls
    PROVE  /\ GoodCalls(Rest(i))
           /\ Fewer(Rest(i), calls, i)
           /\ \A j \in DOMAIN Rest(i) : \E k \in DOMAIN calls \ {i} : AgainKept(Rest(i)[j], calls[k])
           /\ \A k \in DOMAIN calls \ {i} : \E j \in DOMAIN Rest(i) : AgainKept(Rest(i)[j], calls[k])
<1> DEFINE left == [j \in DOMAIN calls |-> Reread(calls[j], calls[i])]
           rest == Rest(i)
<1>1. rest = RemoveAt(left, i)
  BY DEF Rest
<1>2. calls \in Seq(Requests) /\ \A j \in DOMAIN calls : CallOK(calls[j])
  BY DEF GoodCalls
<1>3. \A j \in DOMAIN calls : calls[j] \in Requests
  BY <1>2, LenProperties
<1>4. \A j \in DOMAIN calls : AgainKept(left[j], calls[j])
  BY <1>2, <1>3, RereadIs
<1>5. DOMAIN left = DOMAIN calls /\ left = [j \in DOMAIN calls |-> left[j]]
  OBVIOUS
<1> HIDE DEF left, rest
<1>6. \A j \in DOMAIN calls : left[j] \in Requests /\ CallOK(left[j]) /\ Same(left[j], calls[j])
  BY <1>4 DEF AgainKept
<1>7. left \in Seq(Requests)
  BY <1>2, <1>5, <1>6, MapTyped
<1>8. rest \in Seq(Requests)
  BY <1>1, <1>5, <1>7, Removal
<1>9. \A j \in DOMAIN rest : \E k \in DOMAIN calls \ {i} : rest[j] = left[k]
  BY <1>1, <1>5, <1>7, Remaining
<1>10. \A k \in DOMAIN calls \ {i} : \E j \in DOMAIN rest : rest[j] = left[k]
  <2>1. i \in DOMAIN left
    BY <1>5
  <2>2. \A k \in DOMAIN left \ {i} : \E j \in DOMAIN RemoveAt(left, i) : RemoveAt(left, i)[j] = left[k]
    BY <1>7, <2>1, Remaining
  <2> QED BY <1>1, <1>5, <2>2
<1>11. ASSUME NEW j \in DOMAIN rest, NEW m \in DOMAIN rest, j # m
       PROVE  \E k, n \in DOMAIN calls \ {i} : k # n /\ rest[j] = left[k] /\ rest[m] = left[n]
  BY <1>1, <1>5, <1>7, <1>11, RemainingApart
<1>12. \A j \in DOMAIN rest : CallOK(rest[j]) /\ \E k \in DOMAIN calls \ {i} : AgainKept(rest[j], calls[k])
  BY <1>4, <1>6, <1>9
<1>13. \A k \in DOMAIN calls \ {i} : \E j \in DOMAIN rest : AgainKept(rest[j], calls[k])
  BY <1>4, <1>10
<1>14. Fewer(rest, calls, i)
  BY <1>6, <1>9, <1>10, <1>11 DEF Fewer
<1> QED BY <1>8, <1>12, <1>13, <1>14 DEF GoodCalls, rest

\* The answer of `i` is in, and its reloads are sent for key `KeyAfter(i, shut)`.
KeyAfter(i, shut) ==
  IF Op(calls[i].op).sameKey THEN calls[i].key ELSE Shown(ui, calls[i], shut).open

\* The answer of `i` arrives, and closes the forms `shut`.
Landing(i, shut) ==
  LET c == calls[i]
      u == Shown(ui, c, shut)
      loads == Op(c.op).reloads
  IN /\ c.done
     /\ calls' = Rest(i) \o Calls(loads, KeyAfter(i, shut), <<c.op, c.row>>)
     /\ ui' = Quieted(ui, IF loads = {} THEN Ended(u, c, calls')
                         ELSE Started(u, loads, KeyAfter(i, shut), none, calls'), calls')

\* On a page of tabs it closes none.
LEMMA LandIs ==
    ASSUME IsPage, GoodCalls(calls), NEW i \in DOMAIN calls, Land(i)
    PROVE  \E shut : Landing(i, shut) /\ (Tabbed # {} => shut = {})
<1> DEFINE op == Op(calls[i].op)
<1>1. PICK extra \in SUBSET op.mayShut : Landing(i, ({op.form} \cap page.forms) \cup extra)
  BY DEF Land, Landing, KeyAfter, Rest
<1>2. calls[i].op \in Ops
  <2>1. calls[i] \in Requests
    BY LenProperties DEF GoodCalls
  <2> QED BY <2>1 DEF Requests
<1>3. none \notin page.forms
  BY Described
<1>4. Tabbed # {} => op.form = none /\ op.mayShut = {}
  BY <1>2, PagesFit DEF Tells, HandlerTells, InTab
<1> HIDE DEF op
<1> QED BY <1>1, <1>3, <1>4

\* ... and with the reloads it starts.
LEMMA LandCalls ==
    ASSUME IsPage, ui \in Signals, GoodCalls(calls), NEW i \in DOMAIN calls, NEW shut, Landing(i, shut)
    PROVE  /\ GoodCalls(calls')
           /\ Grown(calls', Rest(i), Op(calls[i].op).reloads, KeyAfter(i, shut),
                    <<calls[i].op, calls[i].row>>)
           /\ Op(calls[i].op).reloads = {} => \A j \in DOMAIN calls' : j \in DOMAIN Rest(i)
           /\ KeyAfter(i, shut) \in Anywhere
<1> DEFINE c == calls[i]
           loads == Op(c.op).reloads
           by == <<c.op, c.row>>
<1>1. calls' = Rest(i) \o Calls(loads, KeyAfter(i, shut), by)
  BY DEF Landing
<1>2. c \in Requests /\ CallOK(c)
  BY LenProperties DEF GoodCalls
<1>3. c.op \in Ops /\ c.row \in RowIds /\ c.key \in Anywhere
  BY <1>2 DEF Requests
<1>4. loads \in SUBSET Loads
  BY <1>3, Attributes
<1>5. by \in Callers /\ \A o \in loads : Awaited(o, by)
  BY <1>3 DEF Callers, Awaited
<1>6. KeyAfter(i, shut) \in Anywhere
  <2>1. Shown(ui, c, shut) \in Signals
    BY <1>2, ShownIs DEF AsShown
  <2>2. Shown(ui, c, shut).open \in Anywhere
    BY <2>1, Places DEF Signals
  <2> QED BY <1>3, <2>2 DEF KeyAfter
<1> HIDE DEF c, loads, by
<1>7. GoodCalls(calls') /\ Grown(calls', Rest(i), loads, KeyAfter(i, shut), by)
  BY <1>1, <1>4, <1>5, <1>6, RestIs, GrownIs
<1>8. loads = {} => \A j \in DOMAIN calls' : j \in DOMAIN Rest(i)
  BY <1>7 DEF Grown
<1> QED BY <1>6, <1>7, <1>8 DEF c, loads, by

\* The handlers that a click on `o` starts.
Starts(o) == {o} \cup (IF Op(o).asks THEN {} ELSE Op(o).reloads)

\* The signals of `os` go up and the others stay.
Raised(u, v, os) ==
  \A g \in Flags : IF g \in FlagsOf(os) THEN v.busy[g] # "off" ELSE v.busy[g] = u.busy[g]

\* Handlers that start raise their signals and lower none.
LEMMA StartedRaises ==
    ASSUME IsPage, NEW u \in Signals, NEW os \in SUBSET Ops, NEW key, NEW row \in RowIds, NEW cs
    PROVE  /\ Started(u, os, key, row, cs) \in Signals
           /\ Started(u, os, key, row, cs).open = u.open
           /\ Raised(u, Started(u, os, key, row, cs), os)
<1> DEFINE w == Started(u, os, key, row, cs)
<1>0. AsStarted(w, Lowered(u, ClearsOf(os), cs), u, os, key, row)
  BY StartedIs
<1> HIDE DEF w
<1>1. /\ w \in Signals /\ w.open = u.open
      /\ \A g \in Flags : w.busy[g] = IF g \notin FlagsOf(os) THEN u.busy[g]
                                      ELSE IF row = none THEN "on" ELSE row
  BY <1>0 DEF AsStarted
<1>2. (IF row = none THEN "on" ELSE row) # "off"
  BY KeysApart DEF RowIds
<1>3. Raised(u, w, os)
  BY <1>1, <1>2 DEF Raised
<1> QED BY <1>1, <1>3 DEF w

\* The signals of the page before its constructor ran.
Blank == [open |-> page.opens, view |-> [f \in Fields |-> Nothing],
          busy |-> [g \in Flags |-> "off"], banners |-> {}, forms |-> {}, loaded |-> {}]

\* Before the constructor everything is down and nothing is read.
LEMMA BlankTyped == ASSUME IsPage PROVE Blank \in Signals
<1>1. page.opens \in Opens
  BY Places
<1> QED BY <1>1, NothingTyped DEF Blank, Signals

\* The signals after the constructor,
LEMMA InitSignals ==
    ASSUME IsPage, PageInit
    PROVE  /\ ui = Started(Blank, page.first, page.opens, none, <<>>)
           /\ ui \in Signals
           /\ Raised(Blank, ui, page.first)
<1>1. ui = Started(Blank, page.first, page.opens, none, <<>>)
  BY DEF PageInit, Blank
<1>2. page.first \in SUBSET Ops
  BY Places, LoadAttributes
<1> QED BY <1>1, <1>2, BlankTyped, NoneTyped, StartedRaises

\* ... after a click,
LEMMA ClickSignals ==
    ASSUME IsPage, ui \in Signals, NEW o \in Ops, NEW r \in Rows(o), Click(o, r)
    PROVE  /\ ui' = Started(ui, Starts(o), ui.open, r, calls')
           /\ Starts(o) \in SUBSET Ops
           /\ ui' \in Signals
           /\ Raised(ui, ui', Starts(o))
<1>1. ui' = Started(ui, Starts(o), ui.open, r, calls')
  BY DEF Click, Starts
<1>2. Starts(o) \in SUBSET Ops
  BY Attributes DEF Starts
<1>3. r \in RowIds
  BY RowsTyped
<1> QED BY <1>1, <1>2, <1>3, StartedRaises

\* ... a form that does not pass its checks,
LEMMA RejectSignals ==
    ASSUME IsPage, ui \in Signals, NEW o \in Ops, Reject(o)
    PROVE  \E up \in SUBSET ({Op(o).error} \cap Banners) :
             /\ ui' = Quieted(ui, [ui EXCEPT !.banners = (ui.banners \ Op(o).clears) \cup up], calls)
             /\ [ui EXCEPT !.banners = (ui.banners \ Op(o).clears) \cup up] \in Signals
             /\ ui' \in Signals /\ ui'.busy = ui.busy
<1>1. PICK up \in SUBSET {Op(o).error} :
        ui' = Quieted(ui, [ui EXCEPT !.banners = (ui.banners \ Op(o).clears) \cup up], calls)
  BY DEF Reject
<1> DEFINE v == [ui EXCEPT !.banners = (ui.banners \ Op(o).clears) \cup up]
<1>2. Op(o).error \in Banners
  BY Attributes DEF Reject
<1>3. v \in Signals /\ v.busy = ui.busy
  BY <1>2 DEF Signals
<1>4. ui' = Quieted(ui, v, calls)
  BY <1>1
<1>5. up \in SUBSET ({Op(o).error} \cap Banners)
  BY <1>2
<1> HIDE DEF v
<1>6. ui' \in Signals /\ ui'.busy = ui.busy
  BY <1>3, <1>4, QuietedIs DEF AsQuiet
<1> QED BY <1>3, <1>4, <1>5, <1>6 DEF v

\* ... a form opened or cancelled,
LEMMA FormSignals ==
    ASSUME IsPage, ui \in Signals, NEW x \in page.forms, OpenForm(x) \/ CloseForm(x)
    PROVE  \E v \in Signals :
             /\ ui' = Quieted(ui, v, calls) /\ calls' = calls
             /\ v.view = ui.view /\ v.open = ui.open /\ v.busy = ui.busy
             /\ ui' \in Signals /\ ui'.busy = ui.busy
<1>1. PICK forms \in SUBSET page.forms : ShowForm(x, forms)
  BY DEF OpenForm, CloseForm, Signals
<1> DEFINE v == [ui EXCEPT !.forms = forms, !.banners = ui.banners \ BannersOf({x})]
<1>2. ui' = Quieted(ui, v, calls) /\ calls' = calls
  BY <1>1 DEF ShowForm
<1>3. v \in Signals /\ v.view = ui.view /\ v.open = ui.open /\ v.busy = ui.busy
  BY DEF Signals
<1> HIDE DEF v
<1>4. ui' \in Signals /\ ui'.busy = v.busy
  BY <1>2, <1>3, QuietedIs DEF AsQuiet
<1> QED BY <1>2, <1>3, <1>4

\* ... a choice,
LEMMA SelectSignals ==
    ASSUME IsPage, ui \in Signals, GoodCalls(calls), NEW k \in page.keys, Select(k)
    PROVE  /\ ui' \in Signals
           /\ \/ ui'.busy = ui.busy /\ calls' = calls
              \/ /\ Raised(ui, ui', Due(k))
                 /\ GoodCalls(calls')
                 /\ Grown(calls', calls, Due(k), k, <<>>)
<1>1. CASE /\ k = ui.open /\ page.choice.same = "close"
           /\ ui' = Quieted(ui, Closed(ui), calls)
           /\ calls' = calls
  <2>1. none \in Opens
    BY <1>1, Places
  <2>2. Closed(ui) \in Signals /\ Closed(ui).busy = ui.busy
    BY <2>1, ClosedIs
  <2>3. AsQuiet(ui', Closed(ui))
    BY <1>1, <2>2, QuietedIs
  <2> QED BY <1>1, <2>2, <2>3 DEF AsQuiet
<1>2. CASE /\ ui' = Started(Lowered([ui EXCEPT !.open = k], page.choice.clears, calls'),
                            Due(k), k, none, calls')
           /\ GoodCalls(calls')
           /\ Grown(calls', calls, Due(k), k, <<>>)
  <2> DEFINE v == [ui EXCEPT !.open = k]
             w == Lowered(v, page.choice.clears, calls')
  <2>1. v \in Signals /\ v.busy = ui.busy
    BY Places DEF Signals
  <2> HIDE DEF v
  <2>2. w \in Signals /\ w.busy = ui.busy
    BY <2>1, LoweredIs DEF AsLowered
  <2>3. Due(k) \in SUBSET Ops
    BY Places, LoadAttributes DEF Due
  <2>4. ui' = Started(w, Due(k), k, none, calls')
    BY <1>2 DEF v
  <2> HIDE DEF w
  <2>5. ui' \in Signals /\ Raised(w, ui', Due(k))
    BY <2>2, <2>3, <2>4, NoneTyped, StartedRaises
  <2>6. Raised(ui, ui', Due(k))
    BY <2>2, <2>5 DEF Raised
  <2> QED BY <1>2, <2>5, <2>6
<1> QED BY <1>1, <1>2, SelectCalls

\* ... a change at the server,
LEMMA ServeSignals ==
    ASSUME IsPage, ui \in Signals, GoodCalls(calls), NEW i \in DOMAIN calls, Serve(i)
    PROVE  /\ ui' \in Signals /\ ui'.open = ui.open /\ ui'.busy = ui.busy /\ ui'.banners = ui.banners
           /\ ui'.forms = ui.forms /\ ui'.loaded = ui.loaded
           /\ \A f \in Fields :
                ui'.view[f] = IF f \in Op(calls[i].op).changes THEN Outdated(ui.view[f], f, calls[i])
                              ELSE ui.view[f]
<1> DEFINE c == calls[i]
           view == [f \in Fields |-> IF f \in Op(c.op).changes THEN Outdated(ui.view[f], f, c)
                                     ELSE ui.view[f]]
<1>1. ui' = [ui EXCEPT !.view = view]
  BY DEF Serve
<1>2. c \in Requests
  BY LenProperties DEF GoodCalls
<1>3. \A f \in Fields : ui.view[f] \in Cells
  BY DEF Signals
<1>4. \A f \in Fields : Outdated(ui.view[f], f, c) \in Cells
  BY <1>2, <1>3, OutdatedIs
<1>5. view \in [Fields -> Cells]
  BY <1>3, <1>4
<1>6. \A f \in Fields : view[f] = IF f \in Op(c.op).changes THEN Outdated(ui.view[f], f, c)
                                  ELSE ui.view[f]
  OBVIOUS
<1> HIDE DEF view
<1> QED BY <1>1, <1>5, <1>6 DEF Signals

\* ... an answer,
LEMMA LandSignals ==
    ASSUME IsPage, ui \in Signals, GoodCalls(calls), NEW i \in DOMAIN calls, NEW shut, Landing(i, shut)
    PROVE  LET c == calls[i]
               u == Shown(ui, c, shut)
               loads == Op(c.op).reloads
               v == IF loads = {} THEN Ended(u, c, calls')
                    ELSE Started(u, loads, KeyAfter(i, shut), none, calls')
           IN  /\ ui' = Quieted(ui, v, calls') /\ u \in Signals /\ v \in Signals
               /\ u.busy = ui.busy /\ v.open = u.open
               /\ ui' \in Signals /\ ui'.busy = v.busy
               /\ loads # {} => Raised(ui, ui', loads)
               /\ loads = {} => \A g \in Flags : ui'.busy[g] = IF g \in DownAfter(c, calls') THEN "off"
                                                                ELSE ui.busy[g]
<1> DEFINE c == calls[i]
           u == Shown(ui, c, shut)
           loads == Op(c.op).reloads
           v == IF loads = {} THEN Ended(u, c, calls')
                ELSE Started(u, loads, KeyAfter(i, shut), none, calls')
<1>1. ui' = Quieted(ui, v, calls')
  BY DEF Landing
<1>2. c \in Requests /\ CallOK(c)
  BY LenProperties DEF GoodCalls
<1>3. c.op \in Ops
  BY <1>2 DEF Requests
<1>4. loads \in SUBSET Ops
  BY <1>3, Attributes
<1>5. u \in Signals /\ u.busy = ui.busy
  <2>1. AsShown(u, ui, c, shut)
    BY <1>2, ShownIs
  <2> HIDE DEF u, c
  <2> QED BY <2>1 DEF AsShown
<1> HIDE DEF u, c
<1>6. CASE loads = {}
  <2>1. v = Ended(u, c, calls')
    BY <1>6
  <2>2. /\ v \in Signals /\ v.open = u.open
        /\ \A g \in Flags : v.busy[g] = IF g \in DownAfter(c, calls') THEN "off" ELSE u.busy[g]
    BY <1>5, <2>1, EndedIs
  <2> HIDE DEF v
  <2>3. ui' \in Signals /\ ui'.busy = v.busy
    BY <1>1, <2>2, QuietedIs DEF AsQuiet
  <2> QED BY <1>1, <1>5, <1>6, <2>2, <2>3 DEF v, u, c
<1>7. CASE loads # {}
  <2>1. v = Started(u, loads, KeyAfter(i, shut), none, calls')
    BY <1>7
  <2>2. v \in Signals /\ v.open = u.open /\ Raised(u, v, loads)
    BY <1>4, <1>5, <2>1, NoneTyped, StartedRaises
  <2> HIDE DEF v
  <2>3. ui' \in Signals /\ ui'.busy = v.busy
    BY <1>1, <2>2, QuietedIs DEF AsQuiet
  <2>4. Raised(ui, ui', loads)
    BY <1>5, <2>2, <2>3 DEF Raised
  <2> QED BY <1>1, <1>5, <1>7, <2>2, <2>3, <2>4 DEF v, u, c
<1> QED BY <1>6, <1>7

\* ... and a failure.
LEMMA FailSignals ==
    ASSUME IsPage, ui \in Signals, GoodCalls(calls), NEW i \in DOMAIN calls, Fail(i)
    PROVE  LET c == calls[i]
           IN  /\ ui' = Ended(Refused(ui, c), c, calls')
               /\ ui' \in Signals /\ ui'.open = ui.open
               /\ ui'.banners = Refused(ui, c).banners /\ ui'.view = Refused(ui, c).view
               /\ ui'.forms = ui.forms /\ ui'.loaded = ui.loaded
               /\ \A g \in Flags : ui'.busy[g] = IF g \in DownAfter(c, calls') THEN "off" ELSE ui.busy[g]
<1> DEFINE c == calls[i]
           u == Refused(ui, c)
<1>1. ui' = Ended(u, c, calls')
  BY DEF Fail
<1>2. c \in Requests
  BY LenProperties DEF GoodCalls
<1>3. /\ u \in Signals /\ u.open = ui.open /\ u.busy = ui.busy
      /\ u.forms = ui.forms /\ u.loaded = ui.loaded
  BY <1>2, RefusedIs
<1> HIDE DEF u
<1>4. /\ ui' \in Signals /\ ui'.open = u.open /\ ui'.banners = u.banners /\ ui'.view = u.view
      /\ ui'.forms = u.forms /\ ui'.loaded = u.loaded
      /\ \A g \in Flags : ui'.busy[g] = IF g \in DownAfter(c, calls') THEN "off" ELSE u.busy[g]
  BY <1>1, <1>3, EndedIs
<1> QED BY <1>1, <1>3, <1>4 DEF u

\* A request that kept its handler and its caller holds up the same signals.
LEMMA SameHolds ==
    ASSUME NEW d, NEW c, Same(d, c)
    PROVE  /\ d.op = c.op /\ d.row = c.row /\ d.by = c.by
           /\ \A g : Holds(d, g) <=> Holds(c, g)
BY DEF Same, Holds, Behind

\* One request of many.
LEMMA GoodCall ==
    ASSUME NEW cs, GoodCalls(cs), NEW i \in DOMAIN cs
    PROVE  cs[i] \in Requests /\ CallOK(cs[i])
BY LenProperties DEF GoodCalls

\* Requests that go do no harm to those that hold the same signal.
LEMMA FlagsFewer ==
    ASSUME NEW u, NEW cs, NEW rest, NEW i, FlagsHeld(u, cs), Fewer(rest, cs, i)
    PROVE  FlagsHeld(u, rest)
<1> SUFFICES ASSUME NEW g \in OwnFlags, NEW j \in DOMAIN rest, Holds(rest[j], g)
             PROVE  /\ u.busy[g] # "off"
                    /\ \A m \in DOMAIN rest \ {j} :
                         Holds(rest[m], g) => rest[j].by = rest[m].by /\ rest[j].by # <<>>
  BY DEF FlagsHeld
<1>1. PICK k \in DOMAIN cs \ {i} : Same(rest[j], cs[k])
  BY DEF Fewer
<1>2. u.busy[g] # "off"
  BY <1>1, SameHolds DEF FlagsHeld
<1>3. ASSUME NEW m \in DOMAIN rest \ {j}, Holds(rest[m], g)
      PROVE  rest[j].by = rest[m].by /\ rest[j].by # <<>>
  <2>1. PICK a \in DOMAIN cs \ {i}, b \in DOMAIN cs \ {i} :
          a # b /\ Same(rest[j], cs[a]) /\ Same(rest[m], cs[b])
    BY DEF Fewer
  <2>2. /\ rest[j].by = cs[a].by /\ rest[m].by = cs[b].by
        /\ Holds(cs[a], g) /\ Holds(cs[b], g)
    BY <1>3, <2>1, SameHolds
  <2>3. cs[a].by = cs[b].by /\ cs[a].by # <<>>
    BY <2>1, <2>2 DEF FlagsHeld
  <2> QED BY <2>2, <2>3
<1> QED BY <1>2, <1>3

\* A request that ends lowers no signal that another one holds.
LEMMA FlagsDown ==
    ASSUME IsPage, NEW u, NEW v, NEW cs, GoodCalls(cs), NEW rest, NEW i \in DOMAIN cs,
           FlagsHeld(u, cs), Fewer(rest, cs, i),
           \A g \in Flags : v.busy[g] = IF g \in DownAfter(cs[i], rest) THEN "off" ELSE u.busy[g]
    PROVE  FlagsHeld(v, rest)
<1>1. FlagsHeld(u, rest)
  BY FlagsFewer
<1>2. ASSUME NEW g \in OwnFlags, NEW j \in DOMAIN rest, Holds(rest[j], g)
      PROVE  g \notin DownAfter(cs[i], rest)
  <2> DEFINE c == cs[i]
  <2>1. c \in Requests /\ CallOK(c)
    BY GoodCall
  <2>2. PICK k \in DOMAIN cs \ {i} : Same(rest[j], cs[k])
    BY DEF Fewer
  <2>3. Holds(cs[k], g) /\ rest[j].by = cs[k].by
    BY <1>2, <2>2, SameHolds
  <2>4. Holds(c, g) => c.by = cs[k].by /\ c.by # <<>>
    BY <2>3 DEF FlagsHeld
  <2> HIDE DEF c
  <2>5. Op(c.op).flag # g
    BY <2>1, <2>4, HoldsOwn
  <2>6. c.by # <<>> /\ OwnerFlag(c.by) = g => \E n \in DOMAIN rest : rest[n].by = c.by
    BY <2>1, <2>3, <2>4, HoldsOwn
  <2>7. g \notin DownAfter(c, rest)
    BY <2>5, <2>6 DEF DownAfter, OwnerFlag
  <2> QED BY <2>7 DEF c
<1>3. \A g \in OwnFlags : g \in Flags
  BY OwnFlagsFit
<1> QED BY <1>1, <1>2, <1>3 DEF FlagsHeld

\* Loads hold no change's own signal, but the one of the handler that awaits them:
\* then nobody else holds that.
LEMMA FlagsGrown ==
    ASSUME IsPage, NEW u, NEW v, NEW cs, NEW t, NEW os \in SUBSET Loads, NEW key, NEW by,
           GoodCalls(t), FlagsHeld(u, cs), Grown(t, cs, os, key, by),
           \A g \in OwnFlags : u.busy[g] # "off" => v.busy[g] # "off",
           \A g \in OwnFlags : by # <<>> /\ OwnerFlag(by) = g =>
             v.busy[g] # "off" /\ \A j \in DOMAIN cs : ~Holds(cs[j], g)
    PROVE  FlagsHeld(v, t)
<1>1. ASSUME NEW g \in OwnFlags, NEW i \in DOMAIN t \ DOMAIN cs, Holds(t[i], g)
      PROVE  t[i].by = by /\ by # <<>> /\ OwnerFlag(by) = g
  <2>1. t[i].op \in os /\ t[i].by = by
    BY DEF Grown, Sent
  <2>2. t[i] \in Requests /\ CallOK(t[i])
    BY GoodCall
  <2> QED BY <1>1, <2>1, <2>2, HoldsOwn
<1>2. \A i \in DOMAIN cs : i \in DOMAIN t /\ t[i] = cs[i]
  BY DEF Grown
<1> SUFFICES ASSUME NEW g \in OwnFlags, NEW i \in DOMAIN t, Holds(t[i], g)
             PROVE  /\ v.busy[g] # "off"
                    /\ \A j \in DOMAIN t \ {i} :
                         Holds(t[j], g) => t[i].by = t[j].by /\ t[i].by # <<>>
  BY DEF FlagsHeld
<1>3. CASE i \in DOMAIN cs
  <2>1. Holds(cs[i], g)
    BY <1>2, <1>3
  <2>2. v.busy[g] # "off"
    BY <1>3, <2>1 DEF FlagsHeld
  <2>3. ASSUME NEW j \in DOMAIN t \ {i}, Holds(t[j], g)
        PROVE  t[i].by = t[j].by /\ t[i].by # <<>>
    <3>1. j \in DOMAIN cs
      BY <1>1, <1>3, <2>1, <2>3
    <3>2. Holds(cs[j], g)
      BY <1>2, <2>3, <3>1
    <3>3. cs[i].by = cs[j].by /\ cs[i].by # <<>>
      BY <1>3, <2>1, <3>1, <3>2 DEF FlagsHeld
    <3> QED BY <1>2, <1>3, <3>1, <3>3
  <2> QED BY <2>2, <2>3
<1>4. CASE i \notin DOMAIN cs
  <2>1. t[i].by = by /\ by # <<>> /\ OwnerFlag(by) = g
    BY <1>1, <1>4
  <2>2. v.busy[g] # "off" /\ \A j \in DOMAIN cs : ~Holds(cs[j], g)
    BY <2>1
  <2>3. ASSUME NEW j \in DOMAIN t \ {i}, Holds(t[j], g)
        PROVE  t[i].by = t[j].by /\ t[i].by # <<>>
    <3>1. j \notin DOMAIN cs
      BY <1>2, <2>2, <2>3
    <3> QED BY <1>1, <2>1, <2>3, <3>1
  <2> QED BY <2>2, <2>3
<1> QED BY <1>3, <1>4

-----------------------------------------------------------------------------

\* The signals of exclusive changes stay up while their requests run: the constructor,
LEMMA FlagsInit ==
    ASSUME IsPage, PageInit
    PROVE  FlagsHeld(ui, calls)
<1>1. GoodCalls(calls) /\ Grown(calls, <<>>, page.first, page.opens, <<>>)
  BY InitCalls
<1>2. FlagsHeld(ui, <<>>)
  BY DEF FlagsHeld
<1>3. page.first \in SUBSET Loads
  BY Places
<1> QED BY <1>1, <1>2, <1>3, FlagsGrown

\* ... a click,
LEMMA FlagsClick ==
    ASSUME IsPage, ui \in Signals, GoodCalls(calls), FlagsHeld(ui, calls),
           NEW o \in Ops, NEW r \in Rows(o), Click(o, r)
    PROVE  FlagsHeld(ui', calls')
<1>1. Raised(ui, ui', Starts(o)) /\ Enabled(o, r)
  BY ClickSignals DEF Click
<1>2. \A g \in OwnFlags : /\ ui.busy[g] # "off" => ui'.busy[g] # "off"
                          /\ Op(o).flag = g => ui'.busy[g] # "off"
  BY <1>1, OwnFlagsFit DEF Raised, FlagsOf, Starts
<1>3. ASSUME NEW g \in OwnFlags, Op(o).flag = g
      PROVE  \A j \in DOMAIN calls : ~Holds(calls[j], g)
  <2>1. ui.busy[g] = "off"
    BY <1>1, <1>3, OwnEnabled
  <2> QED BY <2>1 DEF FlagsHeld
<1>4. CASE Op(o).asks
  <2>1. /\ GoodCalls(calls')
        /\ \A i \in DOMAIN calls : i \in DOMAIN calls' /\ calls'[i] = calls[i]
    BY <1>4, ClickAsks
  <2>2. PICK n \in DOMAIN calls' \ DOMAIN calls :
          /\ Sent(calls'[n], o, Target(o), r, <<>>)
          /\ \A i \in DOMAIN calls' : i \in DOMAIN calls \/ i = n
    BY <1>4, ClickAsks
  <2>3. calls'[n] \in Requests /\ CallOK(calls'[n]) /\ calls'[n].op = o /\ calls'[n].by = <<>>
    BY <2>2 DEF Sent
  <2>4. \A g \in OwnFlags : Holds(calls'[n], g) => Op(o).flag = g
    BY <2>3, HoldsOwn
  <2> SUFFICES ASSUME NEW g \in OwnFlags, NEW i \in DOMAIN calls', Holds(calls'[i], g)
               PROVE  /\ ui'.busy[g] # "off"
                      /\ \A j \in DOMAIN calls' \ {i} :
                           Holds(calls'[j], g) => calls'[i].by = calls'[j].by /\ calls'[i].by # <<>>
    BY DEF FlagsHeld
  <2>5. CASE Op(o).flag = g
    <3>1. i = n /\ \A j \in DOMAIN calls' \ {i} : ~Holds(calls'[j], g)
      BY <1>3, <2>1, <2>2, <2>5
    <3> QED BY <1>2, <2>5, <3>1
  <2>6. CASE Op(o).flag # g
    <3>1. \A j \in DOMAIN calls' : Holds(calls'[j], g) =>
            j \in DOMAIN calls /\ calls'[j] = calls[j] /\ Holds(calls[j], g)
      BY <2>1, <2>2, <2>4, <2>6
    <3>2. ui'.busy[g] # "off"
      BY <1>2, <3>1 DEF FlagsHeld
    <3>3. ASSUME NEW j \in DOMAIN calls' \ {i}, Holds(calls'[j], g)
          PROVE  calls'[i].by = calls'[j].by /\ calls'[i].by # <<>>
      <4>1. calls[i].by = calls[j].by /\ calls[i].by # <<>>
        BY <3>1, <3>3 DEF FlagsHeld
      <4> QED BY <3>1, <3>3, <4>1
    <3> QED BY <3>2, <3>3
  <2> QED BY <2>5, <2>6
<1>5. CASE ~Op(o).asks
  <2>1. /\ GoodCalls(calls')
        /\ Grown(calls', calls, Op(o).reloads, ui.open, <<o, r>>)
    BY <1>5, ClickRefreshes
  <2>2. OwnerFlag(<<o, r>>) = Op(o).flag
    BY DEF OwnerFlag
  <2>3. Op(o).reloads \in SUBSET Loads
    BY Attributes
  <2> QED BY <1>2, <1>3, <2>1, <2>2, <2>3, FlagsGrown
<1> QED BY <1>4, <1>5

\* ... a choice,
LEMMA FlagsSelect ==
    ASSUME IsPage, ui \in Signals, GoodCalls(calls), FlagsHeld(ui, calls),
           NEW k \in page.keys, Select(k)
    PROVE  FlagsHeld(ui', calls')
<1>1. CASE ui'.busy = ui.busy /\ calls' = calls
  BY <1>1 DEF FlagsHeld
<1>2. CASE /\ Raised(ui, ui', Due(k)) /\ GoodCalls(calls')
           /\ Grown(calls', calls, Due(k), k, <<>>)
  <2>1. \A g \in OwnFlags : ui.busy[g] # "off" => ui'.busy[g] # "off"
    BY <1>2, OwnFlagsFit DEF Raised
  <2>2. Due(k) \in SUBSET Loads
    BY Places DEF Due
  <2> QED BY <1>2, <2>1, <2>2, FlagsGrown
<1> QED BY <1>1, <1>2, SelectSignals

\* ... the server,
LEMMA FlagsServe ==
    ASSUME IsPage, ui \in Signals, GoodCalls(calls), FlagsHeld(ui, calls),
           NEW i \in DOMAIN calls, Serve(i)
    PROVE  FlagsHeld(ui', calls')
<1>1. ui'.busy = ui.busy
  BY ServeSignals
<1>2. DOMAIN calls' = DOMAIN calls /\ \A j \in DOMAIN calls : Same(calls'[j], calls[j])
  BY ServeCalls DEF Served, OutdatedBy
<1>3. \A j \in DOMAIN calls : calls'[j].by = calls[j].by /\ \A g : Holds(calls'[j], g) <=> Holds(calls[j], g)
  BY <1>2, SameHolds
<1> QED BY <1>1, <1>2, <1>3 DEF FlagsHeld

\* ... an answer,
LEMMA FlagsLand ==
    ASSUME IsPage, ui \in Signals, GoodCalls(calls), FlagsHeld(ui, calls),
           NEW i \in DOMAIN calls, NEW shut, Landing(i, shut)
    PROVE  FlagsHeld(ui', calls')
<1> DEFINE c == calls[i]
           loads == Op(c.op).reloads
           rest == Rest(i)
<1>1. c \in Requests /\ CallOK(c)
  BY GoodCall
<1>2. /\ GoodCalls(calls') /\ Grown(calls', rest, loads, KeyAfter(i, shut), <<c.op, c.row>>)
      /\ loads = {} => \A j \in DOMAIN calls' : j \in DOMAIN rest
  BY LandCalls
<1>3. Fewer(rest, calls, i)
  BY RestIs
<1>4. /\ loads # {} => Raised(ui, ui', loads)
      /\ loads = {} => \A g \in Flags : ui'.busy[g] = IF g \in DownAfter(c, calls') THEN "off" ELSE ui.busy[g]
  BY LandSignals
<1>5. FlagsHeld(ui, rest)
  BY <1>3, FlagsFewer
<1>6. CASE loads = {}
  <2>1. DOMAIN calls' = DOMAIN rest /\ \A j \in DOMAIN rest : calls'[j] = rest[j]
    BY <1>2, <1>6 DEF Grown
  <2>2. DownAfter(c, calls') = DownAfter(c, rest)
    BY <2>1 DEF DownAfter
  <2> HIDE DEF c, loads, rest
  <2>3. FlagsHeld(ui', rest)
    BY <1>3, <1>4, <1>6, <2>2, FlagsDown DEF c
  <2> QED BY <2>1, <2>3 DEF FlagsHeld
<1>7. CASE loads # {}
  <2>1. c.by = <<>> /\ c.op \in Ops
    BY <1>1, <1>7, AwaitedIs
  <2>2. loads \in SUBSET Loads
    BY <2>1, Attributes
  <2>3. \A g \in OwnFlags : ui.busy[g] # "off" => ui'.busy[g] # "off"
    BY <1>4, <1>7, OwnFlagsFit DEF Raised
  <2>4. ASSUME NEW g \in OwnFlags, OwnerFlag(<<c.op, c.row>>) = g
        PROVE  ui'.busy[g] # "off" /\ \A j \in DOMAIN rest : ~Holds(rest[j], g)
    <3>1. Holds(c, g)
      BY <1>1, <2>1, <2>4, HoldsOwn DEF OwnerFlag
    <3>2. ui.busy[g] # "off" /\ \A j \in DOMAIN calls \ {i} : ~Holds(calls[j], g)
      BY <2>1, <3>1 DEF FlagsHeld
    <3>3. \A j \in DOMAIN rest : \E k \in DOMAIN calls \ {i} : Same(rest[j], calls[k])
      BY <1>3 DEF Fewer
    <3>4. \A j \in DOMAIN rest : ~Holds(rest[j], g)
      BY <3>2, <3>3, SameHolds
    <3> QED BY <2>3, <3>2, <3>4
  <2> HIDE DEF c, loads, rest
  <2> QED BY <1>2, <1>5, <2>2, <2>3, <2>4, FlagsGrown
<1> QED BY <1>6, <1>7

\* ... a failure.
LEMMA FlagsFail ==
    ASSUME IsPage, ui \in Signals, GoodCalls(calls), FlagsHeld(ui, calls),
           NEW i \in DOMAIN calls, Fail(i)
    PROVE  FlagsHeld(ui', calls')
<1>1. Fewer(calls', calls, i)
  BY FailCalls
<1>2. \A g \in Flags : ui'.busy[g] = IF g \in DownAfter(calls[i], calls') THEN "off" ELSE ui.busy[g]
  BY FailSignals
<1> QED BY <1>1, <1>2, FlagsDown

\* Whatever signal is up once loads are sent is held by an earlier request, by a
\* load, or by the handler that awaits them.
LEMMA WorkingGrown ==
    ASSUME NEW v, NEW cs, NEW t, NEW os, NEW key, NEW by, Grown(t, cs, os, key, by),
           \A g \in Flags : v.busy[g] # "off" =>
             \/ \E j \in DOMAIN cs : Holds(cs[j], g)
             \/ g \in FlagsOf(os)
             \/ by # <<>> /\ os # {} /\ OwnerFlag(by) = g
    PROVE  Working(v, t)
<1> SUFFICES ASSUME NEW g \in Flags, v.busy[g] # "off"
             PROVE  \E i \in DOMAIN t : Holds(t[i], g)
  BY DEF Working
<1>1. CASE \E j \in DOMAIN cs : Holds(cs[j], g)
  BY <1>1 DEF Grown
<1>2. ASSUME NEW o \in os PROVE \E i \in DOMAIN t : t[i].op = o /\ t[i].by = by
  <2>1. PICK i \in DOMAIN t \ DOMAIN cs : t[i].op = o
    BY DEF Grown
  <2>2. t[i].by = by
    BY DEF Grown, Sent
  <2> QED BY <2>1, <2>2
<1>3. CASE g \in FlagsOf(os)
  <2>1. PICK o \in os : Op(o).flag = g
    BY <1>3 DEF FlagsOf
  <2>2. PICK i \in DOMAIN t : t[i].op = o
    BY <1>2
  <2>3. o \in Behind(t[i])
    BY <2>2 DEF Behind
  <2>4. Holds(t[i], g)
    BY <2>1, <2>3 DEF Holds
  <2> QED BY <2>4
<1>4. CASE by # <<>> /\ os # {} /\ OwnerFlag(by) = g
  <2>1. PICK o : o \in os
    BY <1>4
  <2>2. PICK i \in DOMAIN t : t[i].by = by
    BY <1>2, <2>1
  <2>3. by[1] \in Behind(t[i])
    BY <1>4, <2>2 DEF Behind
  <2>4. Holds(t[i], g)
    BY <1>4, <2>3 DEF Holds, OwnerFlag
  <2> QED BY <2>4
<1> QED BY <1>1, <1>3, <1>4

\* A request that ends takes down the signals that it alone holds.
LEMMA WorkingDown ==
    ASSUME IsPage, NEW u, NEW v, NEW cs, GoodCalls(cs), NEW rest, NEW i \in DOMAIN cs,
           Working(u, cs), Fewer(rest, cs, i),
           \A g \in Flags : v.busy[g] = IF g \in DownAfter(cs[i], rest) THEN "off" ELSE u.busy[g]
    PROVE  Working(v, rest)
<1> SUFFICES ASSUME NEW g \in Flags, v.busy[g] # "off"
             PROVE  \E j \in DOMAIN rest : Holds(rest[j], g)
  BY DEF Working
<1> DEFINE c == cs[i]
<1>1. c \in Requests /\ CallOK(c)
  BY GoodCall
<1>2. g \notin DownAfter(c, rest) /\ u.busy[g] # "off"
  OBVIOUS
<1>3. PICK k \in DOMAIN cs : Holds(cs[k], g)
  BY <1>2 DEF Working
<1>4. CASE k # i
  <2>1. PICK j \in DOMAIN rest : Same(rest[j], cs[k])
    BY <1>4 DEF Fewer
  <2> QED BY <1>3, <2>1, SameHolds
<1>5. CASE k = i
  <2>1. Holds(c, g)
    BY <1>3, <1>5
  <2> HIDE DEF c
  <2>2. Op(c.op).flag # g
    BY <1>2 DEF DownAfter
  <2>3. c.by # <<>> /\ OwnerFlag(c.by) = g
    BY <1>1, <2>1, <2>2, AwaitedIs DEF Holds, OwnerFlag
  <2>4. PICK j \in DOMAIN rest : rest[j].by = c.by
    BY <1>2, <2>3 DEF DownAfter, OwnerFlag
  <2>5. c.by[1] \in Behind(rest[j])
    BY <2>3, <2>4 DEF Behind
  <2>6. Holds(rest[j], g)
    BY <2>3, <2>5 DEF Holds, OwnerFlag
  <2> QED BY <2>6
<1> QED BY <1>4, <1>5

\* A signal that is up has a request behind it: the constructor,
LEMMA WorkingInit ==
    ASSUME IsPage, PageInit
    PROVE  Working(ui, calls)
<1>1. Grown(calls, <<>>, page.first, page.opens, <<>>) /\ Raised(Blank, ui, page.first)
  BY InitCalls, InitSignals
<1>2. \A g \in Flags : Blank.busy[g] = "off"
  BY DEF Blank
<1>3. \A g \in Flags : ui.busy[g] # "off" => g \in FlagsOf(page.first)
  BY <1>1, <1>2 DEF Raised
<1> QED BY <1>1, <1>3, WorkingGrown

\* ... a click,
LEMMA WorkingClick ==
    ASSUME IsPage, ui \in Signals, GoodCalls(calls), Working(ui, calls),
           NEW o \in Ops, NEW r \in Rows(o), Click(o, r)
    PROVE  Working(ui', calls')
<1>1. Raised(ui, ui', Starts(o))
  BY ClickSignals
<1>2. ASSUME NEW g \in Flags, ui'.busy[g] # "off"
      PROVE  (\E j \in DOMAIN calls : Holds(calls[j], g)) \/ g \in FlagsOf(Starts(o))
  BY <1>1, <1>2 DEF Raised, Working
<1>3. CASE Op(o).asks
  <2>1. \A i \in DOMAIN calls : i \in DOMAIN calls' /\ calls'[i] = calls[i]
    BY <1>3, ClickAsks
  <2>2. PICK n \in DOMAIN calls' \ DOMAIN calls : Sent(calls'[n], o, Target(o), r, <<>>)
    BY <1>3, ClickAsks
  <2>3. o \in Behind(calls'[n])
    BY <2>2 DEF Sent, Behind
  <2>4. \A g \in FlagsOf(Starts(o)) : Holds(calls'[n], g)
    BY <1>3, <2>3 DEF FlagsOf, Starts, Holds
  <2> QED BY <1>2, <2>1, <2>2, <2>4 DEF Working
<1>4. CASE ~Op(o).asks
  <2>1. Grown(calls', calls, Op(o).reloads, ui.open, <<o, r>>) /\ Op(o).reloads # {}
    BY <1>4, ClickRefreshes
  <2>2. OwnerFlag(<<o, r>>) = Op(o).flag
    BY DEF OwnerFlag
  <2>3. \A g \in FlagsOf(Starts(o)) : g \in FlagsOf(Op(o).reloads) \/ OwnerFlag(<<o, r>>) = g
    BY <1>4, <2>2 DEF FlagsOf, Starts
  <2>4. <<o, r>> # <<>>
    OBVIOUS
  <2> DEFINE by == <<o, r>>
  <2> HIDE DEF by
  <2>5. \A g \in Flags : ui'.busy[g] # "off" =>
             \/ \E j \in DOMAIN calls : Holds(calls[j], g)
             \/ g \in FlagsOf(Op(o).reloads)
             \/ by # <<>> /\ Op(o).reloads # {} /\ OwnerFlag(by) = g
    BY <1>2, <2>1, <2>3, <2>4 DEF by
  <2>6. Grown(calls', calls, Op(o).reloads, ui.open, by)
    BY <2>1 DEF by
  <2> QED BY <2>5, <2>6, WorkingGrown
<1> QED BY <1>3, <1>4

\* ... a choice,
LEMMA WorkingSelect ==
    ASSUME IsPage, ui \in Signals, GoodCalls(calls), Working(ui, calls),
           NEW k \in page.keys, Select(k)
    PROVE  Working(ui', calls')
<1>1. CASE ui'.busy = ui.busy /\ calls' = calls
  BY <1>1 DEF Working
<1>2. CASE /\ Raised(ui, ui', Due(k))
           /\ Grown(calls', calls, Due(k), k, <<>>)
  <2>1. \A g \in Flags : ui'.busy[g] # "off" =>
          (\E j \in DOMAIN calls : Holds(calls[j], g)) \/ g \in FlagsOf(Due(k))
    BY <1>2 DEF Raised, Working
  <2> QED BY <1>2, <2>1, WorkingGrown
<1> QED BY <1>1, <1>2, SelectSignals

\* ... the server,
LEMMA WorkingServe ==
    ASSUME IsPage, ui \in Signals, GoodCalls(calls), Working(ui, calls),
           NEW i \in DOMAIN calls, Serve(i)
    PROVE  Working(ui', calls')
<1>1. ui'.busy = ui.busy
  BY ServeSignals
<1>2. DOMAIN calls' = DOMAIN calls /\ \A j \in DOMAIN calls : Same(calls'[j], calls[j])
  BY ServeCalls DEF Served, OutdatedBy
<1>3. \A j \in DOMAIN calls : \A g : Holds(calls'[j], g) <=> Holds(calls[j], g)
  BY <1>2, SameHolds
<1> QED BY <1>1, <1>2, <1>3 DEF Working

\* ... an answer,
LEMMA WorkingLand ==
    ASSUME IsPage, ui \in Signals, GoodCalls(calls), Working(ui, calls),
           NEW i \in DOMAIN calls, NEW shut, Landing(i, shut)
    PROVE  Working(ui', calls')
<1> DEFINE c == calls[i]
           loads == Op(c.op).reloads
           rest == Rest(i)
<1>1. c \in Requests /\ CallOK(c)
  BY GoodCall
<1>2. /\ GoodCalls(calls') /\ Grown(calls', rest, loads, KeyAfter(i, shut), <<c.op, c.row>>)
      /\ loads = {} => \A j \in DOMAIN calls' : j \in DOMAIN rest
  BY LandCalls
<1>3. Fewer(rest, calls, i)
  BY RestIs
<1>4. /\ loads # {} => Raised(ui, ui', loads)
      /\ loads = {} => \A g \in Flags : ui'.busy[g] = IF g \in DownAfter(c, calls') THEN "off" ELSE ui.busy[g]
  BY LandSignals
<1>6. CASE loads = {}
  <2>1. DOMAIN calls' = DOMAIN rest /\ \A j \in DOMAIN rest : calls'[j] = rest[j]
    BY <1>2, <1>6 DEF Grown
  <2>2. DownAfter(c, calls') = DownAfter(c, rest)
    BY <2>1 DEF DownAfter
  <2> HIDE DEF c, loads, rest
  <2>3. Working(ui', rest)
    BY <1>3, <1>4, <1>6, <2>2, WorkingDown DEF c
  <2> QED BY <2>1, <2>3 DEF Working
<1>7. CASE loads # {}
  <2>1. c.by = <<>>
    BY <1>1, <1>7, AwaitedIs
  <2>2. \A g : Holds(c, g) => OwnerFlag(<<c.op, c.row>>) = g
    BY <1>1, <2>1, AwaitedIs DEF Holds, OwnerFlag
  <2>3. ASSUME NEW g \in Flags, ui.busy[g] # "off"
        PROVE  (\E j \in DOMAIN rest : Holds(rest[j], g)) \/ Holds(c, g)
    <3>1. PICK k \in DOMAIN calls : Holds(calls[k], g)
      BY <2>3 DEF Working
    <3>2. k # i => \E j \in DOMAIN rest : Same(rest[j], calls[k])
      BY <1>3 DEF Fewer
    <3> HIDE DEF rest
    <3> QED BY <3>1, <3>2, SameHolds
  <2> DEFINE by == <<c.op, c.row>>
  <2>4. by # <<>>
    OBVIOUS
  <2>5. Grown(calls', rest, loads, KeyAfter(i, shut), by)
    BY <1>2
  <2>6. \A g : Holds(c, g) => OwnerFlag(by) = g
    BY <2>2
  <2> HIDE DEF c, loads, rest, by
  <2>7. \A g \in Flags : ui'.busy[g] # "off" =>
             \/ \E j \in DOMAIN rest : Holds(rest[j], g)
             \/ g \in FlagsOf(loads)
             \/ by # <<>> /\ loads # {} /\ OwnerFlag(by) = g
    BY <1>4, <1>7, <2>3, <2>4, <2>6 DEF Raised
  <2> QED BY <2>5, <2>7, WorkingGrown
<1> QED BY <1>6, <1>7

\* ... a failure.
LEMMA WorkingFail ==
    ASSUME IsPage, ui \in Signals, GoodCalls(calls), Working(ui, calls),
           NEW i \in DOMAIN calls, Fail(i)
    PROVE  Working(ui', calls')
<1>1. Fewer(calls', calls, i)
  BY FailCalls
<1>2. \A g \in Flags : ui'.busy[g] = IF g \in DownAfter(calls[i], calls') THEN "off" ELSE ui.busy[g]
  BY FailSignals
<1> QED BY <1>1, <1>2, WorkingDown

-----------------------------------------------------------------------------
(* What the user is told of every field.                                     *)

\* The key with which the field is on the screen.
Where(u, f) == IF f \in Tabbed THEN page.tab[f] ELSE u.open

\* A banner about the field is up, and shown where the field is.
Warned(u, f) ==
  \E o \in page.about[f] :
    Op(o).error \in u.banners /\ Where(u, f) \in Op(o).at /\ InForm(u, o)

\* The tab of the field was never opened, or its load failed there: it will be read when
\* the tab is opened.
Untouched(u, f, cs) ==
  /\ f \in Tabbed /\ page.tab[f] # u.open
  /\ \E l \in page.choice.runs : f \in Op(l).shows /\ page.tab[f] \in Op(l).at /\ l \notin u.loaded
  /\ \A i \in DOMAIN cs : f \notin Targets(cs[i].op)

\* Of every field that is on the screen, or will be without being read again, the
\* user is told, or it is being put right.
Told(u, f, cs) ==
  (f \in page.keyed => u.open # none) =>
     u.view[f].why # none \/ Warned(u, f) \/ UnderRepair(u, f, cs) \/ Untouched(u, f, cs)

\* What a handler sets are fields.
LEMMA TargetsTyped == ASSUME IsPage, NEW o \in Ops PROVE Targets(o) \subseteq Fields
<1>1. Op(o).shows \subseteq Fields /\ Reloaded(o) \subseteq Fields
  BY Attributes DEF Reloaded
<1> QED BY <1>1 DEF Targets

\* A handler that has to do with a field speaks of it, if its failure has a banner.
LEMMA ChangesSpeak ==
    ASSUME IsPage, NEW o \in Ops, NEW f \in Op(o).changes, ~Gap(o, f), Op(o).error # none
    PROVE  f \in Fields /\ o \in page.about[f] /\ Speaks(o, f)
<1>1. f \in Fields
  BY Attributes
<1>2. o \in page.about[f]
  BY <1>1, Described
<1> QED BY <1>1, <1>2 DEF Speaks

\* A load sets what it shows.
LEMMA LoadTargets == ASSUME IsPage, NEW l \in Loads PROVE Targets(l) = Op(l).shows
BY LoadAttributes DEF Targets, Reloaded

\* The handlers of a page of tabs are on the tab of what they set.
LEMMA TabOf ==
    ASSUME IsPage, NEW o \in Ops, NEW f, f \in Targets(o), Tabbed # {}
    PROVE  Op(o).at = {page.tab[f]}
<1>1. InTab(o)
  BY PagesFit DEF Tells, HandlerTells
<1> QED BY <1>1 DEF InTab

\* A page of tabs holds no field per key.
LEMMA TabsOpen ==
    ASSUME IsPage, Tabbed # {}
    PROVE  Tabbed = Fields /\ page.keyed = {} /\ page.choice.clears = {}
BY PagesFit DEF Tells, TabsTell

\* A field is for the key that is open, whatever that is, or held per key.
LEMMA KeyStays ==
    ASSUME NEW f, NEW k, NEW l, f \in page.keyed => k = l
    PROVE  KeyOf(f, k) = KeyOf(f, l)
BY DEF KeyOf

\* Some request sets the field to what the server holds.
Setting(f, open, cs) == \E i \in DOMAIN cs : Sets(cs[i], f, open)

\* A field is repaired by a request, or holds what the server does.
LEMMA RepairIs ==
    ASSUME NEW u, NEW f, NEW cs
    PROVE  UnderRepair(u, f, cs) <=>
             \/ Setting(f, u.open, cs)
             \/ u.view[f].of = KeyOf(f, u.open) /\ u.view[f].as = "new"
BY DEF UnderRepair, Setting

\* A request just sent sets what it shows.
LEMMA SentSets ==
    ASSUME NEW c, NEW o, NEW key, NEW row, NEW by, Sent(c, o, key, row, by), NEW f \in Op(o).shows,
           NEW k, KeyOf(f, key) = KeyOf(f, k)
    PROVE  Sets(c, f, k)
BY DEF Sets, Sent

\* All requests of `cs` are among `ds`.
Among(ds, cs) == \A i \in DOMAIN cs : \E j \in DOMAIN ds : ds[j] = cs[i]

\* A field that one will set is still set while more are sent.
LEMMA MoreSetting ==
    ASSUME NEW ds, NEW cs, Among(ds, cs), NEW f, NEW k, NEW l, KeyOf(f, l) = KeyOf(f, k),
           Setting(f, k, cs)
    PROVE  Setting(f, l, ds)
<1>1. PICK i \in DOMAIN cs : Sets(cs[i], f, k)
  BY DEF Setting
<1>2. PICK j \in DOMAIN ds : ds[j] = cs[i]
  BY DEF Among
<1>3. Sets(cs[i], f, l)
  BY <1>1 DEF Sets
<1> QED BY <1>2, <1>3 DEF Setting

\* A field under repair stays so while more requests are sent.
LEMMA MoreRepair ==
    ASSUME NEW u, NEW v, NEW ds, NEW cs, Among(ds, cs), NEW f, UnderRepair(u, f, cs),
           KeyOf(f, v.open) = KeyOf(f, u.open),
           v.view[f].of = u.view[f].of, v.view[f].as = u.view[f].as
    PROVE  UnderRepair(v, f, ds)
<1>1. CASE Setting(f, u.open, cs)
  BY <1>1, MoreSetting, RepairIs
<1>2. CASE u.view[f].of = KeyOf(f, u.open) /\ u.view[f].as = "new"
  BY <1>2, RepairIs
<1> QED BY <1>1, <1>2, RepairIs

\* A tab never opened stays so while only requests for other tabs are sent.
LEMMA StillUntouched ==
    ASSUME NEW u, NEW v, NEW f, NEW cs, NEW ds, Untouched(u, f, cs), page.tab[f] # v.open,
           \A l \in v.loaded : l \in u.loaded \/ f \notin Op(l).shows,
           \A j \in DOMAIN ds :
             \/ \E i \in DOMAIN cs : Targets(ds[j].op) \subseteq Targets(cs[i].op)
             \/ f \in Targets(ds[j].op) => page.tab[f] = v.open
    PROVE  Untouched(v, f, ds)
<1>1. \A j \in DOMAIN ds : f \notin Targets(ds[j].op)
  BY DEF Untouched
<1> QED BY <1>1 DEF Untouched

\* With nothing open, what is held per key is not on the screen.
Kept(u, f) == f \in page.keyed => u.open # none

\* Why the field may be wrong: it says so, or the user is told, or it is repaired.
Excused(u, f, cs) ==
  u.view[f].why # none \/ Warned(u, f) \/ UnderRepair(u, f, cs) \/ Untouched(u, f, cs)

\* What Told says, in these words.
LEMMA ToldIs == ASSUME NEW u, NEW f, NEW cs PROVE Told(u, f, cs) <=> (Kept(u, f) => Excused(u, f, cs))
BY DEF Told, Kept, Excused

\* A field that is on the screen is where its banners are looked for.
LEMMA VisibleIs ==
    ASSUME IsPage, NEW u, NEW f
    PROVE  /\ Visible(u, f) <=> SeenAt(u.open, f)
           /\ Kept(u, f) /\ f \notin Tabbed => Visible(u, f)
           /\ Visible(u, f) => Where(u, f) = u.open
           /\ Visible(u, f) => (Warned(u, f) <=> Announced(u, f))
           /\ f \notin Tabbed => (Warned(u, f) <=> Announced(u, f))
BY DEF Visible, SeenAt, Kept, Where, Warned, Announced, OnScreen, Tabbed

\* The field is as wrong as it was, and said to be.
AsWrong(v, u, f) ==
  /\ v.view[f].of = u.view[f].of /\ v.view[f].as = u.view[f].as
  /\ u.view[f].why # none => v.view[f].why # none

\* Signals that keep a field's cell and the banners keep its excuse.
LEMMA SameExcused ==
    ASSUME IsPage, NEW u, NEW v, NEW f, NEW cs, Excused(u, f, cs), AsWrong(v, u, f),
           v.open = u.open, v.loaded = u.loaded,
           Warned(u, f) => Warned(v, f) \/ UnderRepair(u, f, cs)
    PROVE  Excused(v, f, cs)
<1>1. UnderRepair(u, f, cs) => UnderRepair(v, f, cs)
  BY RepairIs DEF AsWrong
<1>2. Untouched(u, f, cs) => Untouched(v, f, cs)
  <2> SUFFICES ASSUME Untouched(u, f, cs) PROVE Untouched(v, f, cs)
    OBVIOUS
  <2>1. page.tab[f] # v.open
    BY DEF Untouched
  <2> QED BY <2>1, StillUntouched
<1> QED BY <1>1, <1>2 DEF Excused, AsWrong

\* A wrong field whose banner was taken down says so.
LEMMA QuietMarks ==
    ASSUME IsPage, NEW u, NEW v \in Signals, NEW f \in Fields, NEW cs,
           Visible(v, f), Announced(u, f), ~Announced(v, f), ~UnderRepair(v, f, cs)
    PROVE  Quieted(u, v, cs).view[f].why # none
<1> DEFINE W == {g \in Fields : /\ ~Right(v, g) /\ Visible(v, g)
                                /\ Announced(u, g) /\ ~Announced(v, g)
                                /\ ~UnderRepair(v, g, cs)}
           view == [g \in Fields |-> IF g \in W THEN [v.view[g] EXCEPT !.why = "wiped"]
                                     ELSE v.view[g]]
<1>1. ~Right(v, f)
  <2> SUFFICES ASSUME Right(v, f) PROVE UnderRepair(v, f, cs)
    OBVIOUS
  <2>1. v.view[f].of = KeyOf(f, v.open) /\ v.view[f].as = "new"
    BY DEF Right, Fresh
  <2> QED BY <2>1, RepairIs
<1>2. f \in W
  BY <1>1
<1>3. Quieted(u, v, cs) = [v EXCEPT !.view = view]
  BY DEF Quieted
<1> HIDE DEF W
<1>4. view[f] = [v.view[f] EXCEPT !.why = "wiped"] /\ v.view[f] \in Cells
  BY <1>2 DEF Signals
<1> HIDE DEF view
<1>5. Quieted(u, v, cs).view[f].why = "wiped"
  BY <1>3, <1>4 DEF Signals, Cells
<1> QED BY <1>5 DEF none

\* What excuses a field, or announced it before the banners went down, still does.
LEMMA QuietTold ==
    ASSUME IsPage, NEW u, NEW v \in Signals, NEW f \in Fields, NEW cs,
           Kept(v, f) => Excused(v, f, cs) \/ (Visible(v, f) /\ Announced(u, f))
    PROVE  Told(Quieted(u, v, cs), f, cs)
<1> DEFINE w == Quieted(u, v, cs)
<1>1. /\ w.open = v.open /\ w.banners = v.banners /\ w.forms = v.forms /\ w.loaded = v.loaded
      /\ \A h \in Fields : /\ w.view[h].of = v.view[h].of /\ w.view[h].as = v.view[h].as
                           /\ w.view[h].why \in {v.view[h].why, "wiped"}
  BY QuietedIs DEF AsQuiet
<1>2. ~UnderRepair(v, f, cs) /\ Visible(v, f) /\ Announced(u, f) /\ ~Announced(v, f) => w.view[f].why # none
  BY QuietMarks
<1> HIDE DEF w
<1>3. AsWrong(w, v, f)
  BY <1>1 DEF AsWrong, none
<1>4. Warned(w, f) <=> Warned(v, f)
  BY <1>1 DEF Warned, Where, InForm
<1>5. Excused(v, f, cs) => Excused(w, f, cs)
  BY <1>1, <1>3, <1>4, SameExcused
<1>6. Kept(w, f) <=> Kept(v, f)
  BY <1>1 DEF Kept
<1>7. ASSUME Visible(v, f), Announced(u, f), ~Excused(v, f, cs) PROVE Excused(w, f, cs)
  <2>1. ~Announced(v, f) /\ ~UnderRepair(v, f, cs)
    BY <1>7, VisibleIs DEF Excused
  <2> QED BY <1>2, <1>7, <2>1 DEF Excused
<1>8. Told(w, f, cs)
  BY <1>5, <1>6, <1>7, ToldIs
<1> QED BY <1>8 DEF w

\* Banners that are taken down take no excuse with them,
LEMMA LowerTold ==
    ASSUME IsPage, NEW u \in Signals, NEW bs, NEW cs, NEW f \in Fields, Told(u, f, cs),
           \/ Visible(u, f)
           \/ f \notin Tabbed
           \/ UnderRepair(u, f, cs)
           \/ \A p \in page.about[f] : Op(p).error \notin bs
    PROVE  Told(Lowered(u, bs, cs), f, cs)
<1> DEFINE v == [u EXCEPT !.banners = u.banners \ bs]
<1>1. /\ v \in Signals /\ v.open = u.open /\ v.busy = u.busy /\ v.view = u.view
      /\ v.banners = u.banners \ bs /\ v.forms = u.forms /\ v.loaded = u.loaded
  BY DEF Signals
<1>2. Lowered(u, bs, cs) = Quieted(u, v, cs)
  BY DEF Lowered
<1> HIDE DEF v
<1>3. Visible(v, f) <=> Visible(u, f)
  BY <1>1 DEF Visible
<1>4. Kept(v, f) <=> Kept(u, f)
  BY <1>1 DEF Kept
<1>5. AsWrong(v, u, f)
  BY <1>1 DEF AsWrong
<1>6. ASSUME Kept(v, f), ~(Visible(v, f) /\ Announced(u, f)) PROVE Excused(v, f, cs)
  <2>1. Excused(u, f, cs)
    BY <1>4, <1>6, ToldIs
  <2>2. Warned(u, f) => Warned(v, f) \/ UnderRepair(u, f, cs)
    <3> SUFFICES ASSUME Warned(u, f), ~UnderRepair(u, f, cs) PROVE Warned(v, f)
      OBVIOUS
    <3>1. ~Visible(u, f)
      BY <1>3, <1>6, VisibleIs
    <3>2. f \in Tabbed
      BY <1>4, <1>6, <3>1, VisibleIs
    <3>3. \A p \in page.about[f] : Op(p).error \notin bs
      BY <3>1, <3>2
    <3> QED BY <1>1, <3>3 DEF Warned, Where, InForm
  <2> QED BY <1>1, <1>5, <2>1, <2>2, SameExcused
<1>7. Told(Quieted(u, v, cs), f, cs)
  BY <1>1, <1>6, QuietTold
<1> QED BY <1>2, <1>7

\* ... and neither do handlers that start.
LEMMA StartTold ==
    ASSUME IsPage, NEW u \in Signals, NEW os \in SUBSET Ops, NEW key, NEW row \in RowIds, NEW cs,
           NEW f \in Fields, Told(u, f, cs),
           f \in BlanksOf(os) => Setting(f, u.open, cs) \/ KeyOf(f, key) # KeyOf(f, u.open),
           \/ Visible(u, f)
           \/ f \notin Tabbed
           \/ UnderRepair(u, f, cs)
           \/ \A o \in os : \A p \in page.about[f] : Op(p).error \notin Op(o).clears
    PROVE  Told(Started(u, os, key, row, cs), f, cs)
<1> DEFINE v == Lowered(u, ClearsOf(os), cs)
           w == Started(u, os, key, row, cs)
<1>1. AsStarted(w, v, u, os, key, row)
  BY StartedIs
<1>2. Told(v, f, cs)
  <2>1. (\A o \in os : \A p \in page.about[f] : Op(p).error \notin Op(o).clears) =>
          \A p \in page.about[f] : Op(p).error \notin ClearsOf(os)
    BY DEF ClearsOf
  <2> QED BY <2>1, LowerTold
<1>3. AsLowered(v, u, ClearsOf(os))
  BY LoweredIs
<1> HIDE DEF v, w
<1>4. /\ w.open = v.open /\ w.banners = v.banners /\ w.open = u.open
      /\ w.forms = v.forms /\ w.loaded = v.loaded
      /\ \A h \in Fields : w.view[h] = IF h \in BlanksOf(os) THEN Replaced(u, Nothing, h, key) ELSE v.view[h]
  BY <1>1, <1>3 DEF AsStarted, AsLowered
<1>5. Kept(w, f) <=> Kept(v, f)
  BY <1>4 DEF Kept
<1>6. ASSUME f \in BlanksOf(os) PROVE Told(w, f, cs)
  <2>1. ASSUME Setting(f, u.open, cs) PROVE Told(w, f, cs)
    <3>1. UnderRepair(w, f, cs)
      BY <1>4, <2>1, RepairIs
    <3> QED BY <3>1, ToldIs DEF Excused
  <2>2. ASSUME KeyOf(f, key) # KeyOf(f, u.open) PROVE Told(w, f, cs)
    <3>1. w.view[f].why # none
      BY <1>4, <1>6, <2>2, NothingTyped, ReplacedIs DEF none
    <3> QED BY <3>1, ToldIs DEF Excused
  <2> QED BY <1>6, <2>1, <2>2
<1>7. ASSUME f \notin BlanksOf(os) PROVE Told(w, f, cs)
  <2>1. AsWrong(w, v, f)
    BY <1>4, <1>7 DEF AsWrong
  <2>2. Warned(v, f) => Warned(w, f)
    BY <1>4 DEF Warned, Where, InForm
  <2>3. Excused(v, f, cs) => Excused(w, f, cs)
    BY <1>4, <2>1, <2>2, SameExcused
  <2> QED BY <1>2, <1>5, <2>3, ToldIs
<1>8. Told(w, f, cs)
  BY <1>6, <1>7
<1> QED BY <1>8 DEF w

\* More requests take no excuse away, if they are not for a tab never opened.
LEMMA MoreTold ==
    ASSUME IsPage, NEW u, NEW f, NEW cs, NEW ds, Told(u, f, cs), Among(ds, cs),
           f \in Tabbed =>
             \A j \in DOMAIN ds :
               \/ \E i \in DOMAIN cs : Targets(ds[j].op) \subseteq Targets(cs[i].op)
               \/ f \in Targets(ds[j].op) => page.tab[f] = u.open
    PROVE  Told(u, f, ds)
<1>1. UnderRepair(u, f, cs) => UnderRepair(u, f, ds)
  BY MoreRepair
<1>2. Untouched(u, f, cs) => Untouched(u, f, ds)
  <2> SUFFICES ASSUME Untouched(u, f, cs) PROVE Untouched(u, f, ds)
    OBVIOUS
  <2>1. page.tab[f] # u.open /\ f \in Tabbed
    BY DEF Untouched
  <2> QED BY <2>1, StillUntouched
<1> QED BY <1>1, <1>2, ToldIs DEF Excused

\* Loads just sent set what they show.
LEMMA GrownSets ==
    ASSUME NEW t, NEW cs, NEW os, NEW key, NEW by, Grown(t, cs, os, key, by),
           NEW o \in os, NEW f \in Op(o).shows, NEW k, KeyOf(f, key) = KeyOf(f, k)
    PROVE  Setting(f, k, t)
<1>1. PICK i \in DOMAIN t \ DOMAIN cs : t[i].op = o
  BY DEF Grown
<1>2. Sent(t[i], o, key, none, by)
  BY <1>1 DEF Grown
<1>3. Sets(t[i], f, k)
  BY <1>2, SentSets
<1> QED BY <1>1, <1>3 DEF Setting

\* The requests that were in flight are so beside those just sent.
LEMMA GrownAmong ==
    ASSUME NEW t, NEW cs, NEW os, NEW key, NEW by, Grown(t, cs, os, key, by)
    PROVE  Among(t, cs)
BY DEF Grown, Among

\* Handlers of one tab set nothing of another.
LEMMA OtherTab ==
    ASSUME IsPage, Tabbed # {}, NEW o \in Ops, NEW k \in Op(o).at
    PROVE  \A h \in Fields : h \in Targets(o) => page.tab[h] = k
BY TabOf

\* What a handler that the tab shows empties or takes down is of that tab.
LEMMA ClearsInTab ==
    ASSUME IsPage, NEW o \in Ops, NEW u, NEW f \in Fields, u.open \in Op(o).at
    PROVE  \/ Visible(u, f)
           \/ f \notin Tabbed
           \/ \A p \in page.about[f] : Op(p).error \notin Op(o).clears
<1> SUFFICES ASSUME f \in Tabbed, NEW p \in page.about[f], Op(p).error \in Op(o).clears
             PROVE  Visible(u, f)
  OBVIOUS
<1>1. InTab(o) /\ Tabbed # {}
  BY PagesFit DEF Tells, HandlerTells
<1>2. Op(o).at \subseteq {page.tab[f]}
  BY <1>1 DEF InTab
<1>3. page.keyed = {}
  BY <1>1, TabsOpen
<1> QED BY <1>2, <1>3 DEF Visible

\* The constructor reads what is on the screen,
LEMMA ToldInit ==
    ASSUME IsPage, PageInit, NEW f \in Fields
    PROVE  Told(ui, f, calls)
<1>1. /\ ui = Started(Blank, page.first, page.opens, none, <<>>)
      /\ Blank \in Signals /\ page.first \in SUBSET Ops /\ page.first \subseteq Loads
  BY InitSignals, BlankTyped, Places, LoadAttributes
<1>2. AsStarted(ui, Lowered(Blank, ClearsOf(page.first), <<>>), Blank, page.first, page.opens, none)
  BY <1>1, NoneTyped, StartedIs
<1>4. Blank.open = page.opens /\ Blank.loaded = {}
  BY DEF Blank
<1>5. ui.open = page.opens /\ ui.loaded = {}
  BY <1>2, <1>4 DEF AsStarted
<1>7. Grown(calls, <<>>, page.first, page.opens, <<>>)
  BY InitCalls
<1>8. ASSUME NEW l \in page.first, f \in Op(l).shows PROVE Told(ui, f, calls)
  <2>1. Setting(f, ui.open, calls)
    BY <1>5, <1>7, <1>8, GrownSets
  <2> QED BY <2>1, RepairIs, ToldIs DEF Excused
<1>9. ChoiceTells /\ TabsTell
  BY PagesFit DEF Tells
<1>10. CASE f \notin Tabbed
  <2>1. CASE Kept(ui, f)
    <3>1. SeenAt(page.opens, f)
      BY <1>5, <1>10, <2>1 DEF SeenAt, Kept
    <3>2. \E l \in page.first : f \in Op(l).shows
      BY <1>9, <1>10, <3>1 DEF ChoiceTells
    <3> QED BY <1>8, <3>2
  <2>2. CASE ~Kept(ui, f)
    BY <2>2, ToldIs
  <2> QED BY <2>1, <2>2
<1>11. CASE f \in Tabbed
  <2>1. CASE \E l \in page.first : f \in Op(l).shows
    BY <1>8, <2>1
  <2>2. CASE ~\E l \in page.first : f \in Op(l).shows
    <3>1. /\ page.tab[f] # page.opens
          /\ \E l \in page.choice.runs : f \in Op(l).shows /\ page.tab[f] \in Op(l).at
      BY <1>9, <1>11, <2>2 DEF TabsTell
    <3>2. ASSUME NEW i \in DOMAIN calls PROVE f \notin Targets(calls[i].op)
      <4>1. calls[i].op \in page.first
        BY <1>7 DEF Grown
      <4> QED BY <1>1, <2>2, <4>1, LoadTargets
    <3>3. Untouched(ui, f, calls)
      BY <1>5, <1>11, <3>1, <3>2 DEF Untouched
    <3> QED BY <3>3, ToldIs DEF Excused
  <2> QED BY <2>1, <2>2
<1> QED BY <1>10, <1>11

\* ... a click leaves the user told,
LEMMA ToldClick ==
    ASSUME IsPage, ui \in Signals, GoodCalls(calls), NEW f \in Fields, Told(ui, f, calls),
           NEW o \in Ops, NEW r \in Rows(o), Click(o, r)
    PROVE  Told(ui', f, calls')
<1>1. Enabled(o, r)
  BY DEF Click
<1>2. ui.open \in Op(o).at
  BY <1>1 DEF Enabled, OnScreen
<1>3. ui' = Started(ui, Starts(o), ui.open, r, calls') /\ Starts(o) \in SUBSET Ops /\ r \in RowIds
  BY ClickSignals, RowsTyped
<1>4. BlanksOpen(o) /\ InTab(o)
  BY PagesFit DEF Tells, HandlerTells
<1>5. CASE Op(o).asks
  <2>1. Starts(o) = {o}
    BY <1>5 DEF Starts
  <2>2. /\ \A i \in DOMAIN calls : i \in DOMAIN calls' /\ calls'[i] = calls[i]
        /\ \E n \in DOMAIN calls' \ DOMAIN calls :
             /\ Sent(calls'[n], o, Target(o), r, <<>>)
             /\ \A i \in DOMAIN calls' : i \in DOMAIN calls \/ i = n
    BY <1>5, ClickAsks
  <2>3. PICK n \in DOMAIN calls' \ DOMAIN calls :
             /\ Sent(calls'[n], o, Target(o), r, <<>>)
             /\ \A i \in DOMAIN calls' : i \in DOMAIN calls \/ i = n
    BY <2>2
  <2>4. calls'[n].op = o
    BY <2>3 DEF Sent
  <2>5. Among(calls', calls)
    BY <2>2 DEF Among
  <2>6. Told(ui, f, calls')
    <3>1. f \in Tabbed /\ f \in Targets(o) => page.tab[f] = ui.open
      BY <1>2, OtherTab
    <3> QED BY <2>2, <2>3, <2>4, <2>5, <3>1, MoreTold
  <2>7. ASSUME f \in BlanksOf(Starts(o)) PROVE Setting(f, ui.open, calls')
    <3>1. f \in Op(o).blanks
      BY <2>1, <2>7 DEF BlanksOf
    <3>2. f \in Op(o).shows /\ Target(o) = ui.open
      BY <1>1, <1>4, <3>1, Attributes, TargetTyped DEF BlanksOpen
    <3>3. Sets(calls'[n], f, ui.open)
      BY <2>3, <3>2, SentSets
    <3> QED BY <3>3 DEF Setting
  <2>8. \/ Visible(ui, f)
        \/ f \notin Tabbed
        \/ \A l \in Starts(o) : \A p \in page.about[f] : Op(p).error \notin Op(l).clears
    BY <1>2, <2>1, ClearsInTab
  <2> QED BY <1>3, <2>6, <2>7, <2>8, StartTold
<1>6. CASE ~Op(o).asks
  <2>1. Tabbed = {}
    BY <1>4, <1>6 DEF InTab
  <2>2. Grown(calls', calls, Op(o).reloads, ui.open, <<o, r>>)
    BY <1>6, ClickRefreshes
  <2>3. Told(ui, f, calls')
    BY <2>1, <2>2, GrownAmong, MoreTold
  <2>4. ASSUME f \in BlanksOf(Starts(o)) PROVE Setting(f, ui.open, calls')
    <3>1. PICK l \in Op(o).reloads : f \in Op(l).blanks
      BY <1>4, <1>6, <2>4 DEF BlanksOf, BlanksOpen, Starts
    <3>2. f \in Op(l).shows
      BY <3>1, Attributes
    <3> QED BY <2>2, <3>2, GrownSets
  <2> QED BY <1>3, <2>1, <2>3, <2>4, StartTold
<1> QED BY <1>5, <1>6

\* ... and so does a form that is not sent,
LEMMA ToldReject ==
    ASSUME IsPage, ui \in Signals, GoodCalls(calls), NEW f \in Fields, Told(ui, f, calls),
           NEW o \in Ops, Reject(o)
    PROVE  Told(ui', f, calls')
<1>1. PICK up : /\ ui' = Quieted(ui, [ui EXCEPT !.banners = (ui.banners \ Op(o).clears) \cup up], calls)
                /\ [ui EXCEPT !.banners = (ui.banners \ Op(o).clears) \cup up] \in Signals
  BY RejectSignals
<1> DEFINE v == [ui EXCEPT !.banners = (ui.banners \ Op(o).clears) \cup up]
<1>2. /\ v \in Signals /\ v.open = ui.open /\ v.view = ui.view
      /\ v.banners = (ui.banners \ Op(o).clears) \cup up /\ v.forms = ui.forms /\ v.loaded = ui.loaded
  BY <1>1 DEF Signals
<1>3. ui' = Quieted(ui, v, calls)
  BY <1>1
<1> HIDE DEF v
<1>4. calls' = calls /\ ui.open \in Op(o).at
  BY DEF Reject, Enabled, OnScreen
<1>5. (Visible(v, f) <=> Visible(ui, f)) /\ (Kept(v, f) <=> Kept(ui, f)) /\ AsWrong(v, ui, f)
  BY <1>2 DEF Visible, Kept, AsWrong
<1>6. ASSUME Kept(v, f), ~(Visible(v, f) /\ Announced(ui, f)) PROVE Excused(v, f, calls)
  <2>1. Excused(ui, f, calls)
    BY <1>5, <1>6, ToldIs
  <2>2. ASSUME Warned(ui, f) PROVE Warned(v, f)
    <3>1. ~Visible(ui, f)
      BY <1>5, <1>6, <2>2, VisibleIs
    <3>2. f \in Tabbed
      BY <1>5, <1>6, <3>1, VisibleIs
    <3>3. \A p \in page.about[f] : Op(p).error \notin Op(o).clears
      BY <1>4, <3>1, <3>2, ClearsInTab
    <3> QED BY <1>2, <2>2, <3>3 DEF Warned, Where, InForm
  <2> QED BY <1>2, <1>5, <2>1, <2>2, SameExcused
<1> QED BY <1>2, <1>3, <1>4, <1>6, QuietTold

\* ... and a form that is opened or cancelled: no page of tabs has any,
LEMMA ToldForm ==
    ASSUME IsPage, ui \in Signals, NEW f \in Fields, Told(ui, f, calls),
           NEW x \in page.forms, OpenForm(x) \/ CloseForm(x)
    PROVE  Told(ui', f, calls')
<1>1. PICK v \in Signals : /\ ui' = Quieted(ui, v, calls) /\ calls' = calls
                          /\ v.view = ui.view /\ v.open = ui.open
  BY FormSignals
<1>2. Tabbed = {}
  <2>1. PICK o \in Ops : Op(o).form = x /\ x # none
    BY Described
  <2>2. InTab(o)
    BY PagesFit DEF Tells, HandlerTells
  <2> QED BY <2>1, <2>2 DEF InTab
<1>3. ASSUME Kept(v, f) PROVE Excused(v, f, calls) \/ (Visible(v, f) /\ Announced(ui, f))
  <2>1. Kept(ui, f) /\ Visible(v, f) /\ (Warned(ui, f) => Announced(ui, f)) /\ ~Untouched(ui, f, calls)
    BY <1>1, <1>2, <1>3, VisibleIs DEF Kept, Untouched
  <2>2. Excused(ui, f, calls)
    BY <2>1, ToldIs
  <2>3. UnderRepair(ui, f, calls) => UnderRepair(v, f, calls)
    BY <1>1, RepairIs
  <2> QED BY <1>1, <2>1, <2>2, <2>3 DEF Excused
<1> QED BY <1>1, <1>3, QuietTold

\* A change at the server reaches cells of its key only.
LEMMA OutdatedWhen ==
    ASSUME IsPage, NEW cell \in Cells, NEW f, NEW c \in Requests, NEW k, cell.of = KeyOf(f, k)
    PROVE  \/ Outdated(cell, f, c) = cell
           \/ Outdated(cell, f, c).why # none
           \/ /\ ~Gap(c.op, f) /\ (KeyOf(f, c.key) = KeyOf(f, k) \/ Op(c.op).everyKey)
              /\ Outdated(cell, f, c).why = cell.why
              /\ Outdated(cell, f, c).as = "old"
<1>1. Outdated(cell, f, c) # cell => KeyOf(f, c.key) = KeyOf(f, k) \/ Op(c.op).everyKey
  BY DEF Outdated
<1>2. "gap" # none
  BY DEF none
<1> QED BY <1>1, <1>2, OutdatedIs

\* What a request that was carried out has changed, it will set.
LEMMA ServedMends ==
    ASSUME IsPage, NEW c \in Requests, NEW e, Served(e, c), NEW f \in Op(c.op).changes,
           ~Gap(c.op, f), NEW k, KeyOf(f, c.key) = KeyOf(f, k) \/ Op(c.op).everyKey
    PROVE  Sets(e, f, k)
<1>1. c.op \in Ops /\ c.key \in Anywhere
  BY DEF Requests
<1>2. Mends(c.op)
  BY <1>1, PagesFit DEF Tells, HandlerTells
<1>3. f \in Targets(c.op) /\ Op(c.op).error # none /\ (Op(c.op).everyKey => f \notin page.keyed)
  BY <1>2 DEF Mends
<1>4. KeyOf(f, c.key) = KeyOf(f, k)
  BY <1>3 DEF KeyOf
<1>5. e.op = c.op /\ e.key = c.key
  BY DEF Served, Same
<1>6. CASE f \in Op(c.op).shows
  <2>1. f \in DOMAIN c.got
    BY <1>5, <1>6 DEF Served, CallOK
  <2>2. e.got[f].as = "new"
    BY <1>1, <2>1, FreshTyped DEF Served
  <2> QED BY <1>4, <1>5, <1>6, <2>2 DEF Sets
<1>7. CASE f \in Reloaded(c.op)
  <2>1. Speaks(c.op, f)
    BY <1>1, <1>3, ChangesSpeak
  <2> QED BY <1>4, <1>5, <1>7, <2>1 DEF Sets, Reloaded
<1> QED BY <1>3, <1>6, <1>7 DEF Targets

\* A request sets a field with its answer, or with the loads that follow.
AnswerSets(c, f, open) ==
  /\ f \in Op(c.op).shows /\ KeyOf(f, c.key) = KeyOf(f, open)
  /\ c.done => c.got[f].as = "new" \/ c.got[f].why # none

\* ... the loads, for the open key; and its failure has a banner about the field.
Rereads(c, f, open) ==
  /\ f \in Reloaded(c.op) /\ Speaks(c.op, f)
  /\ Op(c.op).sameKey => KeyOf(f, c.key) = KeyOf(f, open)

\* These are the two ways.
LEMMA SetsIs ==
    ASSUME NEW c, NEW f, NEW open
    PROVE  Sets(c, f, open) <=> AnswerSets(c, f, open) \/ Rereads(c, f, open)
BY DEF Sets, AnswerSets, Rereads, Reloaded

\* ... the server, whose changes are set by the request that makes them,
LEMMA ToldServe ==
    ASSUME IsPage, ui \in Signals, GoodCalls(calls), NEW f \in Fields,
           Told(ui, f, calls), NEW i \in DOMAIN calls, Serve(i)
    PROVE  Told(ui', f, calls')
<1> DEFINE c == calls[i]
<1>1. c \in Requests /\ CallOK(c) /\ c.op \in Ops
  <2>1. c \in Requests /\ CallOK(c)
    BY LenProperties DEF GoodCalls
  <2> QED BY <2>1 DEF Requests
<1>2. /\ ui' \in Signals /\ ui'.open = ui.open /\ ui'.banners = ui.banners
      /\ ui'.forms = ui.forms /\ ui'.loaded = ui.loaded
      /\ \A h \in Fields : ui'.view[h] = IF h \in Op(c.op).changes THEN Outdated(ui.view[h], h, c)
                                         ELSE ui.view[h]
  BY ServeSignals
<1>3. /\ GoodCalls(calls') /\ DOMAIN calls' = DOMAIN calls
      /\ Served(calls'[i], c)
      /\ \A j \in DOMAIN calls \ {i} : OutdatedBy(calls'[j], calls[j], c)
  BY ServeCalls
<1>4. \A j \in DOMAIN calls : Same(calls'[j], calls[j])
  BY <1>3 DEF Served, OutdatedBy
<1> HIDE DEF c
<1>5. \A h \in Fields : ui.view[h] \in Cells
  BY DEF Signals
<1>6. \A h \in Fields : ui'.view[h].of = ui.view[h].of /\ (ui.view[h].why # none => ui'.view[h].why # none)
  <2>1. \A h \in Fields : /\ Outdated(ui.view[h], h, c).of = ui.view[h].of
                          /\ ui.view[h].why # none => Outdated(ui.view[h], h, c).why # none
    BY <1>1, <1>5, OutdatedIs DEF none
  <2> QED BY <1>2, <2>1
<1>7. ASSUME Setting(f, ui.open, calls') PROVE Excused(ui', f, calls')
  BY <1>2, <1>7, RepairIs DEF Excused
<1>8. ASSUME f \in Op(c.op).changes, ~Gap(c.op, f), KeyOf(f, c.key) = KeyOf(f, ui.open) \/ Op(c.op).everyKey
      PROVE  Setting(f, ui.open, calls')
  <2>1. Sets(calls'[i], f, ui.open)
    BY <1>1, <1>3, <1>8, ServedMends
  <2> QED BY <1>3, <2>1 DEF Setting
<1>9. ASSUME NEW j \in DOMAIN calls, Sets(calls[j], f, ui.open) PROVE Setting(f, ui.open, calls')
  <2> DEFINE d == calls[j]
             e == calls'[j]
  <2>1. Same(e, d)
    BY <1>4
  <2>2. d \in Requests /\ CallOK(d) /\ d.op \in Ops
    <3>1. d \in Requests /\ CallOK(d)
      BY LenProperties DEF GoodCalls
    <3> QED BY <3>1 DEF Requests
  <2>3. Rereads(d, f, ui.open) \/ AnswerSets(d, f, ui.open)
    BY <1>9, SetsIs
  <2>4. CASE Rereads(d, f, ui.open)
    <3>1. Rereads(e, f, ui.open)
      BY <2>1, <2>4 DEF Rereads, Same
    <3> QED BY <1>3, <3>1, SetsIs DEF Setting
  <2>5. ASSUME AnswerSets(d, f, ui.open), e.done, e.got[f].as # "new", e.got[f].why = none
        PROVE  Setting(f, ui.open, calls')
    <3>1. /\ f \in Op(d.op).shows /\ KeyOf(f, d.key) = KeyOf(f, ui.open)
          /\ d.done => d.got[f].as = "new" \/ d.got[f].why # none
      BY <2>5 DEF AnswerSets
    <3>2. f \in DOMAIN d.got
      BY <2>2, <3>1 DEF CallOK
    <3>3. j # i
      <4> SUFFICES ASSUME j = i PROVE FALSE
        OBVIOUS
      <4>1. e.got[f] = Fresh(f, c.key) /\ c.key \in Anywhere
        BY <1>1, <1>3, <3>2 DEF Served, Requests, c
      <4>2. e.got[f].as = "new"
        BY <4>1, FreshTyped
      <4> QED BY <2>5, <4>2
    <3>4. OutdatedBy(e, d, c)
      BY <1>3, <3>3
    <3>5. d.done /\ e.got[f] = LaterIn(d, c, f)
      BY <2>5, <3>2, <3>4 DEF OutdatedBy
    <3>6. e.got[f] # d.got[f]
      BY <2>5, <3>1, <3>5
    <3>7. f \in Op(c.op).changes /\ e.got[f] = Outdated(d.got[f], f, c)
      BY <3>5, <3>6 DEF LaterIn
    <3>8. d.got[f] \in Cells /\ d.got[f].of = KeyOf(f, ui.open)
      BY <2>2, <3>1, <3>2, <3>5 DEF CallOK, Requests, Answers
    <3>9. ~Gap(c.op, f) /\ (KeyOf(f, c.key) = KeyOf(f, ui.open) \/ Op(c.op).everyKey)
      BY <1>1, <2>5, <3>6, <3>7, <3>8, OutdatedWhen
    <3> QED BY <1>8, <3>7, <3>9
  <2>6. ASSUME AnswerSets(d, f, ui.open), e.done => e.got[f].as = "new" \/ e.got[f].why # none
        PROVE  Setting(f, ui.open, calls')
    <3>1. AnswerSets(e, f, ui.open)
      BY <2>1, <2>6 DEF AnswerSets, Same
    <3> QED BY <1>3, <3>1, SetsIs DEF Setting
  <2> QED BY <2>3, <2>4, <2>5, <2>6
<1>10. ASSUME ui.view[f].of = KeyOf(f, ui.open), ui.view[f].as = "new"
       PROVE  Excused(ui', f, calls')
  <2>1. CASE ui'.view[f] = ui.view[f]
    BY <1>2, <1>10, <2>1, RepairIs DEF Excused
  <2>2. CASE ui'.view[f] # ui.view[f]
    <3>1. f \in Op(c.op).changes /\ ui'.view[f] = Outdated(ui.view[f], f, c)
      BY <1>2, <2>2
    <3>2. \/ ui'.view[f].why # none
          \/ ~Gap(c.op, f) /\ (KeyOf(f, c.key) = KeyOf(f, ui.open) \/ Op(c.op).everyKey)
      BY <1>1, <1>5, <1>10, <2>2, <3>1, OutdatedWhen
    <3>3. CASE ui'.view[f].why # none
      BY <3>3 DEF Excused
    <3> QED BY <1>7, <1>8, <3>1, <3>2, <3>3
  <2> QED BY <2>1, <2>2
<1>11. UnderRepair(ui, f, calls) => Excused(ui', f, calls')
  <2>1. Setting(f, ui.open, calls) => Excused(ui', f, calls')
    BY <1>7, <1>9 DEF Setting
  <2> QED BY <1>10, <2>1, RepairIs
<1>12. Untouched(ui, f, calls) => Untouched(ui', f, calls')
  <2> SUFFICES ASSUME Untouched(ui, f, calls) PROVE Untouched(ui', f, calls')
    OBVIOUS
  <2>1. page.tab[f] # ui'.open
    BY <1>2 DEF Untouched
  <2>2. \A j \in DOMAIN calls' : Targets(calls'[j].op) \subseteq Targets(calls[j].op)
    BY <1>3, <1>4 DEF Same
  <2> QED BY <1>2, <1>3, <2>1, <2>2, StillUntouched
<1>13. Warned(ui, f) => Warned(ui', f)
  BY <1>2 DEF Warned, Where, InForm
<1>14. Kept(ui', f) <=> Kept(ui, f)
  BY <1>2 DEF Kept
<1>15. Excused(ui, f, calls) => Excused(ui', f, calls')
  BY <1>6, <1>11, <1>12, <1>13 DEF Excused
<1> QED BY <1>14, <1>15, ToldIs

\* ... a failure, whose banner goes up,
LEMMA ToldFail ==
    ASSUME IsPage, ui \in Signals, GoodCalls(calls), NEW f \in Fields, Told(ui, f, calls),
           NEW i \in DOMAIN calls, Fail(i)
    PROVE  Told(ui', f, calls')
<1> DEFINE c == calls[i]
<1>1. c \in Requests /\ CallOK(c) /\ c.op \in Ops /\ Op(c.op).asks
  <2>1. c \in Requests /\ CallOK(c)
    BY LenProperties DEF GoodCalls
  <2> QED BY <2>1 DEF Requests, CallOK, Sendable
<1>2. /\ ui' \in Signals /\ ui'.open = ui.open
      /\ ui'.banners = Refused(ui, c).banners /\ ui'.view = Refused(ui, c).view
      /\ ui'.forms = ui.forms /\ ui'.loaded = ui.loaded
  BY FailSignals
<1>3. /\ \A j \in DOMAIN calls' : \E k \in DOMAIN calls \ {i} : calls'[j] = calls[k]
      /\ \A k \in DOMAIN calls \ {i} : \E j \in DOMAIN calls' : calls'[j] = calls[k]
  BY FailCalls
<1>4. \A j \in DOMAIN calls : j # i \/ calls[j] = c
  OBVIOUS
<1> HIDE DEF c
<1>5. /\ ui'.banners = ui.banners \cup ({Op(c.op).error} \ {none})
      /\ \A h \in Fields : ui'.view[h] = IF h \in Op(c.op).loses THEN Nothing
                                         ELSE IF h \in Unseen(ui, c) THEN [ui.view[h] EXCEPT !.why = "unseen"]
                                         ELSE ui.view[h]
  BY <1>1, <1>2, RefusedIs
<1>6. \A h \in Fields : ui.view[h] \in Cells
  BY DEF Signals
<1>7. Kept(ui', f) <=> Kept(ui, f)
  BY <1>2 DEF Kept
<1> SUFFICES ASSUME Kept(ui, f) PROVE Excused(ui', f, calls')
  BY <1>7, ToldIs
<1>8. ASSUME f \in Unseen(ui, c), f \notin Op(c.op).loses PROVE Excused(ui', f, calls')
  <2>1. ui'.view[f].why = "unseen"
    BY <1>5, <1>6, <1>8 DEF Cells
  <2> QED BY <2>1 DEF Excused, none
<1>9. ASSUME NEW p \in page.about[f], Op(p).error = Op(c.op).error, Op(c.op).error # none,
             Where(ui', f) \in Op(p).at, InForm(ui', p)
      PROVE  Excused(ui', f, calls')
  <2>1. Op(p).error \in ui'.banners
    BY <1>5, <1>9
  <2> QED BY <1>9, <2>1 DEF Excused, Warned
<1>10. ASSUME NEW p \in page.about[f], Op(p).error = Op(c.op).error, Op(c.op).error # none, Covers(p, f)
       PROVE  Excused(ui', f, calls')
  <2>1. InForm(ui', p)
    BY <1>10 DEF Covers, InForm
  <2>2. CASE f \notin Tabbed
    <3>1. SeenAt(ui.open, f)
      BY <2>2, VisibleIs
    <3>2. ui.open \in Opens
      BY DEF Signals
    <3> QED BY <1>2, <1>9, <1>10, <2>1, <2>2, <3>1, <3>2 DEF Covers, Where
  <2>3. CASE f \in Tabbed
    <3>1. page.keyed = {} /\ page.tab[f] \in page.keys
      BY <2>3, PagesFit DEF Tells, TabsTell
    <3>2. SeenAt(page.tab[f], f) /\ page.tab[f] \in Opens
      BY <3>1, Places DEF SeenAt
    <3> QED BY <1>9, <1>10, <2>1, <2>3, <3>2 DEF Covers, Where
  <2> QED BY <2>2, <2>3
<1>11. ASSUME c.op \in page.about[f], Op(c.op).error # none,
              f \in Op(c.op).changes \ (Op(c.op).loses \cup Tabbed)
       PROVE  Excused(ui', f, calls')
  <2>1. CASE OnScreen(ui, c.op)
    BY <1>2, <1>9, <1>11, <2>1 DEF Where, OnScreen, InForm
  <2>2. CASE Right(ui, f) /\ f \notin Unseen(ui, c)
    <3>1. ui'.view[f] = Fresh(f, ui.open)
      BY <1>5, <1>11, <2>2 DEF Right
    <3>2. ui'.view[f].of = KeyOf(f, ui'.open) /\ ui'.view[f].as = "new"
      BY <1>2, <3>1 DEF Fresh
    <3> QED BY <3>2, RepairIs DEF Excused
  <2>3. CASE ~OnScreen(ui, c.op) /\ ~Right(ui, f)
    <3>1. Visible(ui, f)
      BY <1>11, VisibleIs
    <3>2. f \in Unseen(ui, c)
      BY <1>11, <2>3, <3>1 DEF Unseen
    <3> QED BY <1>8, <1>11, <3>2
  <2> QED BY <1>8, <1>11, <2>1, <2>2, <2>3
<1>12. CASE f \notin Op(c.op).shows /\ ~Sets(c, f, ui.open) /\ f \notin Unseen(ui, c)
  <2>1. f \notin Op(c.op).loses
    BY <1>1, <1>12, Attributes
  <2>2. ui'.view[f] = ui.view[f]
    BY <1>5, <1>12, <2>1
  <2>3. Warned(ui, f) => Warned(ui', f)
    BY <1>2, <1>5 DEF Warned, Where, InForm
  <2>4. ASSUME NEW j \in DOMAIN calls, Sets(calls[j], f, ui.open) PROVE Setting(f, ui.open, calls')
    <3>1. j # i
      BY <1>4, <1>12, <2>4 DEF c
    <3>2. PICK m \in DOMAIN calls' : calls'[m] = calls[j]
      BY <1>3, <3>1
    <3> QED BY <2>4, <3>2 DEF Setting
  <2>5. UnderRepair(ui, f, calls) => UnderRepair(ui', f, calls')
    <3>1. Setting(f, ui.open, calls) => Setting(f, ui.open, calls')
      BY <2>4 DEF Setting
    <3> QED BY <1>2, <2>2, <3>1, RepairIs
  <2>6. Untouched(ui, f, calls) => Untouched(ui', f, calls')
    <3> SUFFICES ASSUME Untouched(ui, f, calls) PROVE Untouched(ui', f, calls')
      OBVIOUS
    <3>1. page.tab[f] # ui'.open
      BY <1>2 DEF Untouched
    <3>2. \A j \in DOMAIN calls' : \E k \in DOMAIN calls :
            Targets(calls'[j].op) \subseteq Targets(calls[k].op)
      BY <1>3
    <3> QED BY <1>2, <3>1, <3>2, StillUntouched
  <2>7. Excused(ui, f, calls)
    BY ToldIs
  <2> QED BY <2>2, <2>3, <2>5, <2>6, <2>7 DEF Excused
<1>13. ASSUME f \notin Op(c.op).shows, ~Sets(c, f, ui.open)
       PROVE  Excused(ui', f, calls')
  <2>1. f \notin Op(c.op).loses
    BY <1>1, <1>13, Attributes
  <2> QED BY <1>8, <1>12, <1>13, <2>1
<1>14. CASE f \notin Targets(c.op)
  <2>1. f \notin Op(c.op).shows /\ ~Sets(c, f, ui.open)
    BY <1>14, SetsIs DEF Targets, AnswerSets, Rereads
  <2> QED BY <1>13, <2>1
<1>15. CASE f \in Targets(c.op)
  <2>1. Announces(c.op)
    BY <1>1, PagesFit DEF Tells, HandlerTells
  <2>2. /\ Op(c.op).error # none
        /\ \/ c.op \in page.about[f] /\ f \in Op(c.op).changes \ (Op(c.op).loses \cup Tabbed)
           \/ \E p \in page.about[f] : Op(p).error = Op(c.op).error /\ Covers(p, f)
           \/ f \notin Op(c.op).shows /\ ~Speaks(c.op, f)
    BY <1>1, <1>15, <2>1 DEF Announces
  <2>3. f \notin Op(c.op).shows /\ ~Speaks(c.op, f) => ~Sets(c, f, ui.open)
    BY SetsIs DEF AnswerSets, Rereads
  <2> QED BY <1>10, <1>11, <1>13, <2>2, <2>3
<1> QED BY <1>14, <1>15

\* Another key is open, and the loads due for it are sent.
LEMMA ToldOpen ==
    ASSUME IsPage, ui \in Signals, GoodCalls(calls), NEW f \in Fields, Told(ui, f, calls),
           NEW k \in page.keys, NEW v \in Signals, v.open = k, v.view = ui.view, v.banners = ui.banners,
           v.forms = ui.forms, v.loaded = ui.loaded, NEW sent, Grown(sent, calls, Due(k), k, <<>>)
    PROVE  Told(v, f, sent)
<1>1. ChoiceTells /\ TabsTell
  BY PagesFit DEF Tells
<1>2. Among(sent, calls)
  BY GrownAmong
<1>3. ASSUME NEW l \in Due(k), f \in Op(l).shows PROVE Told(v, f, sent)
  <2>1. Setting(f, v.open, sent)
    BY <1>3, GrownSets
  <2> QED BY <2>1, RepairIs, ToldIs DEF Excused
<1>4. ASSUME f \notin page.keyed PROVE UnderRepair(ui, f, calls) => UnderRepair(v, f, sent)
  <2>1. KeyOf(f, v.open) = KeyOf(f, ui.open)
    BY <1>4, KeyStays
  <2> QED BY <1>2, <2>1, MoreRepair
<1>5. f \notin page.keyed => Excused(ui, f, calls)
  BY ToldIs DEF Kept
<1>6. CASE f \in page.keyed
  <2>1. ~page.choice.lazy /\ \E l \in page.choice.runs : f \in Op(l).shows /\ k \in Op(l).at
    BY <1>1, <1>6 DEF ChoiceTells
  <2> QED BY <1>3, <2>1 DEF Due
<1>7. CASE f \notin page.keyed /\ f \notin Tabbed
  <2>1. Warned(ui, f) => Warned(v, f)
    <3> SUFFICES ASSUME Warned(ui, f) PROVE Warned(v, f)
      OBVIOUS
    <3>1. PICK o \in page.about[f] : Op(o).error \in ui.banners /\ InForm(ui, o)
      BY DEF Warned
    <3>2. o \in Ops
      BY Described
    <3>3. StaysUp(o)
      BY <3>2, PagesFit DEF Tells, HandlerTells
    <3>4. k \in Op(o).at
      BY <1>7, <3>3 DEF StaysUp
    <3> QED BY <1>7, <3>1, <3>4 DEF Warned, Where, InForm
  <2>2. ~Untouched(ui, f, calls)
    BY <1>7 DEF Untouched
  <2> QED BY <1>4, <1>5, <1>7, <2>1, <2>2, ToldIs DEF Excused
<1>8. CASE f \in Tabbed
  <2>1. f \notin page.keyed
    BY <1>8, TabsOpen
  <2>2. Warned(ui, f) => Warned(v, f)
    BY <1>8 DEF Warned, Where, InForm
  <2>3. ASSUME Untouched(ui, f, calls) PROVE Told(v, f, sent)
    <3>1. CASE page.tab[f] = k
      <4>1. PICK l \in page.choice.runs :
              f \in Op(l).shows /\ page.tab[f] \in Op(l).at /\ l \notin ui.loaded
        BY <2>3 DEF Untouched
      <4>2. l \in Due(k)
        BY <3>1, <4>1 DEF Due
      <4> QED BY <1>3, <4>1, <4>2
    <3>2. CASE page.tab[f] # k
      <4>1. ASSUME NEW j \in DOMAIN sent
            PROVE  \/ \E m \in DOMAIN calls : Targets(sent[j].op) \subseteq Targets(calls[m].op)
                   \/ f \in Targets(sent[j].op) => page.tab[f] = v.open
        <5>1. CASE j \in DOMAIN calls
          BY <5>1 DEF Grown
        <5>2. CASE j \notin DOMAIN calls
          <6>1. sent[j].op \in Due(k)
            BY <5>2 DEF Grown
          <6>2. sent[j].op \in Ops /\ k \in Op(sent[j].op).at
            BY <6>1, Places, LoadAttributes DEF Due
          <6> QED BY <1>8, <6>2, OtherTab
        <5> QED BY <5>1, <5>2
      <4>2. Untouched(v, f, sent)
        BY <2>3, <3>2, <4>1, StillUntouched
      <4> QED BY <4>2, ToldIs DEF Excused
    <3> QED BY <3>1, <3>2
  <2> QED BY <1>4, <1>5, <2>1, <2>2, <2>3, ToldIs DEF Excused
<1> QED BY <1>6, <1>7, <1>8

\* ... a choice, which reads what it opens,
LEMMA ToldSelect ==
    ASSUME IsPage, ui \in Signals, GoodCalls(calls), NEW f \in Fields, Told(ui, f, calls),
           NEW k \in page.keys, Select(k)
    PROVE  Told(ui', f, calls')
<1>1. CASE /\ k = ui.open /\ page.choice.same = "close"
           /\ ui' = Quieted(ui, Closed(ui), calls)
           /\ calls' = calls
  <2> DEFINE v == Closed(ui)
  <2>1. none \in Opens /\ page.choice.leaves \subseteq page.keyed
    BY <1>1, Places
  <2>2. /\ v \in Signals /\ v.open = none
        /\ \A h \in Fields : v.view[h] = IF h \in page.choice.leaves THEN Nothing ELSE ui.view[h]
    BY <2>1, ClosedIs
  <2>3. ui' = Quieted(ui, v, calls)
    BY <1>1
  <2> HIDE DEF v
  <2>4. Tabbed = {}
    BY <1>1, PagesFit DEF Tells, ChoiceTells
  <2>5. ASSUME Kept(v, f) PROVE Excused(v, f, calls) \/ (Visible(v, f) /\ Announced(ui, f))
    <3>1. f \notin page.keyed
      BY <2>2, <2>5 DEF Kept
    <3>2. Visible(v, f)
      BY <2>4, <2>5, VisibleIs
    <3>3. v.view[f] = ui.view[f]
      BY <2>1, <2>2, <3>1
    <3>4. UnderRepair(ui, f, calls) => UnderRepair(v, f, calls)
      <4>1. Among(calls, calls) /\ KeyOf(f, v.open) = KeyOf(f, ui.open)
        BY <3>1, KeyStays DEF Among
      <4> QED BY <3>3, <4>1, MoreRepair
    <3>5. Excused(ui, f, calls)
      BY <3>1, ToldIs DEF Kept
    <3>6. ~Untouched(ui, f, calls) /\ (Warned(ui, f) => Announced(ui, f))
      BY <2>4, VisibleIs DEF Untouched
    <3> QED BY <3>2, <3>3, <3>4, <3>5, <3>6 DEF Excused
  <2> QED BY <1>1, <2>2, <2>3, <2>5, QuietTold
<1>2. CASE /\ ui' = Started(Lowered([ui EXCEPT !.open = k], page.choice.clears, calls'),
                            Due(k), k, none, calls')
           /\ Grown(calls', calls, Due(k), k, <<>>)
  <2> DEFINE v == [ui EXCEPT !.open = k]
             w == Lowered(v, page.choice.clears, calls')
  <2>1. /\ v \in Signals /\ v.open = k /\ v.view = ui.view /\ v.banners = ui.banners
        /\ v.forms = ui.forms /\ v.loaded = ui.loaded
    BY Places DEF Signals
  <2>2. ui' = Started(w, Due(k), k, none, calls')
    BY <1>2
  <2> HIDE DEF v
  <2>3. Told(v, f, calls')
    BY <1>2, <2>1, ToldOpen
  <2>4. w \in Signals /\ w.open = k
    BY <2>1, LoweredIs DEF AsLowered
  <2>5. Told(w, f, calls')
    BY <2>1, <2>3, TabsOpen, LowerTold
  <2> HIDE DEF w
  <2>6. Due(k) \in SUBSET Ops /\ \A l \in Due(k) : l \in Ops /\ k \in Op(l).at
    BY Places, LoadAttributes DEF Due
  <2>7. ASSUME f \in BlanksOf(Due(k)) PROVE Setting(f, w.open, calls')
    <3>1. PICK l \in Due(k) : f \in Op(l).blanks
      BY <2>7 DEF BlanksOf
    <3>2. f \in Op(l).shows
      BY <2>6, <3>1, Attributes
    <3> QED BY <1>2, <2>4, <3>2, GrownSets
  <2>8. \/ Visible(w, f)
        \/ f \notin Tabbed
        \/ \A l \in Due(k) : \A p \in page.about[f] : Op(p).error \notin Op(l).clears
    BY <2>4, <2>6, ClearsInTab
  <2> QED BY <2>2, <2>4, <2>5, <2>6, <2>7, <2>8, NoneTyped, StartTold
<1> QED BY <1>1, <1>2, SelectCalls

\* Who was going to set the field still is, or has just answered.
LEMMA LandSetting ==
    ASSUME IsPage, ui \in Signals, GoodCalls(calls), NEW f, NEW i \in DOMAIN calls,
           NEW shut, Landing(i, shut), NEW l, l = Shown(ui, calls[i], shut).open,
           NEW k, KeyOf(f, l) = KeyOf(f, k), Setting(f, k, calls)
    PROVE  Setting(f, l, calls') \/ AnswerSets(calls[i], f, k)
<1>1. PICK j \in DOMAIN calls : Sets(calls[j], f, k)
  BY DEF Setting
<1>2. Grown(calls', Rest(i), Op(calls[i].op).reloads, KeyAfter(i, shut), <<calls[i].op, calls[i].row>>)
  BY LandCalls
<1>3. KeyAfter(i, shut) = IF Op(calls[i].op).sameKey THEN calls[i].key ELSE l
  BY DEF KeyAfter
<1>4. CASE j = i
  <2>1. CASE AnswerSets(calls[i], f, k)
    BY <2>1
  <2>2. CASE Rereads(calls[i], f, k)
    <3>1. PICK o \in Op(calls[i].op).reloads : f \in Op(o).shows
      BY <2>2 DEF Rereads, Reloaded
    <3>2. KeyOf(f, KeyAfter(i, shut)) = KeyOf(f, l)
      BY <1>3, <2>2 DEF Rereads
    <3> QED BY <1>2, <3>1, <3>2, GrownSets
  <2> QED BY <1>1, <1>4, <2>1, <2>2, SetsIs
<1>5. CASE j # i
  <2>1. PICK m \in DOMAIN Rest(i) : AgainKept(Rest(i)[m], calls[j])
    BY <1>5, RestIs
  <2> DEFINE e == Rest(i)[m]
             d == calls[j]
  <2>2. m \in DOMAIN calls' /\ calls'[m] = e
    BY <1>2 DEF Grown
  <2>3. e.op = d.op /\ e.key = d.key /\ e.done = d.done /\ e.got = d.got
    BY <2>1 DEF AgainKept, Same
  <2>4. CASE Rereads(d, f, k)
    <3>1. Rereads(e, f, l)
      BY <2>3, <2>4 DEF Rereads
    <3> QED BY <2>2, <3>1, SetsIs DEF Setting
  <2>5. CASE AnswerSets(d, f, k)
    <3>1. AnswerSets(e, f, l)
      BY <2>3, <2>5 DEF AnswerSets
    <3> QED BY <2>2, <3>1, SetsIs DEF Setting
  <2> QED BY <1>1, <2>4, <2>5, SetsIs
<1> QED BY <1>4, <1>5

\* What an answer leaves of a tab's excuses.
LEMMA LandTargets ==
    ASSUME IsPage, ui \in Signals, GoodCalls(calls), NEW i \in DOMAIN calls,
           NEW shut, Landing(i, shut), NEW l \in DOMAIN calls'
    PROVE  \E j \in DOMAIN calls : Targets(calls'[l].op) \subseteq Targets(calls[j].op)
<1> DEFINE c == calls[i]
<1>1. Grown(calls', Rest(i), Op(c.op).reloads, KeyAfter(i, shut), <<c.op, c.row>>)
  BY LandCalls
<1>2. CASE l \in DOMAIN Rest(i)
  <2>1. calls'[l] = Rest(i)[l]
    BY <1>1, <1>2 DEF Grown
  <2>2. PICK j \in DOMAIN calls \ {i} : AgainKept(Rest(i)[l], calls[j])
    BY <1>2, RestIs
  <2> QED BY <2>1, <2>2 DEF AgainKept, Same
<1>3. CASE l \notin DOMAIN Rest(i)
  <2>1. calls'[l].op \in Op(c.op).reloads
    BY <1>1, <1>3 DEF Grown
  <2>2. c.op \in Ops
    BY GoodCall DEF Requests
  <2>3. calls'[l].op \in Loads
    BY <2>1, <2>2, Attributes
  <2>4. Targets(calls'[l].op) = Op(calls'[l].op).shows
    BY <2>3, LoadTargets
  <2>5. Targets(calls'[l].op) \subseteq Targets(c.op)
    BY <2>1, <2>4 DEF Targets, Reloaded
  <2> QED BY <2>5
<1> QED BY <1>2, <1>3

\* Once an answer is shown, who sees the field is told, or was before.
LEMMA ToldShown ==
    ASSUME IsPage, ui \in Signals, GoodCalls(calls), NEW f \in Fields, Told(ui, f, calls),
           NEW i \in DOMAIN calls, NEW shut, Landing(i, shut), Tabbed # {} => shut = {},
           Kept(Shown(ui, calls[i], shut), f)
    PROVE  \/ Excused(Shown(ui, calls[i], shut), f, calls')
           \/ Visible(Shown(ui, calls[i], shut), f) /\ Announced(ui, f)
<1> DEFINE c == calls[i]
           u == Shown(ui, c, shut)
<1>1. c \in Requests /\ CallOK(c) /\ c.op \in Ops /\ c.done /\ c.key \in Anywhere
  <2>1. c \in Requests /\ CallOK(c)
    BY LenProperties DEF GoodCalls
  <2>2. c.done
    BY DEF Landing
  <2> QED BY <2>1, <2>2 DEF Requests
<1>2. AsShown(u, ui, c, shut)
  BY <1>1, ShownIs
<1>3. ASSUME Setting(f, ui.open, calls), KeyOf(f, u.open) = KeyOf(f, ui.open),
             ~Setting(f, u.open, calls')
      PROVE  AnswerSets(c, f, ui.open)
  BY <1>3, LandSetting
<1>4. HandlerTells(c.op)
  BY <1>1, PagesFit DEF Tells
<1>5. \A l \in DOMAIN calls' : \E j \in DOMAIN calls : Targets(calls'[l].op) \subseteq Targets(calls[j].op)
  BY LandTargets
<1>6. Kept(u, f) /\ c = calls[i]
  OBVIOUS
<1> HIDE DEF c, u
<1>7. /\ u \in Signals /\ u.forms = ui.forms \ shut
      /\ \A l \in u.loaded : l \in ui.loaded \/ l = c.op
      /\ ~Closes(ui, c) => /\ u.open = ui.open /\ u.banners = Healed(ui, c, shut)
                           /\ u.view[f] = Landed(ui, c, f)
      /\ Closes(ui, c) => /\ u.open = none
                          /\ u.view[f] = IF f \in page.choice.leaves THEN Nothing ELSE Landed(ui, c, f)
  BY <1>2 DEF AsShown
<1>8. /\ u.view[f] = Landed(ui, c, f) /\ KeyOf(f, u.open) = KeyOf(f, ui.open) /\ Kept(ui, f)
      /\ f \in Tabbed => u.open = ui.open /\ u.banners = ui.banners /\ u.forms = ui.forms
  <2>1. f \in Tabbed => ~Op(c.op).heals /\ ~Op(c.op).closes /\ shut = {}
    BY <1>4 DEF HandlerTells, InTab
  <2>2. BannersOf({}) = {}
    BY DEF BannersOf
  <2>3. f \in Tabbed => Healed(ui, c, shut) = ui.banners
    BY <2>1, <2>2 DEF Healed
  <2>4. CASE ~Closes(ui, c)
    BY <1>6, <1>7, <2>1, <2>3, <2>4 DEF Kept
  <2>5. CASE Closes(ui, c)
    <3>1. f \notin page.keyed
      BY <1>6, <1>7, <2>5 DEF Kept
    <3>2. f \notin page.choice.leaves
      BY <3>1, Places
    <3> QED BY <1>7, <2>1, <2>5, <3>1, <3>2, KeyStays DEF Kept, Closes
  <2> QED BY <2>4, <2>5
<1>9. Excused(ui, f, calls)
  BY <1>8, ToldIs
<1> SUFFICES ASSUME ~(Visible(u, f) /\ Announced(ui, f)), u.view[f].why = none
             PROVE  Excused(u, f, calls')
  BY DEF Excused, u, c
<1>10. ASSUME Warned(ui, f) PROVE Excused(u, f, calls')
  <2>1. CASE f \in Tabbed
    BY <1>8, <1>10, <2>1 DEF Warned, Where, InForm, Excused
  <2>2. CASE f \notin Tabbed
    BY <1>6, <1>10, <2>2, VisibleIs
  <2> QED BY <2>1, <2>2
<1>11. ASSUME Setting(f, u.open, calls') PROVE Excused(u, f, calls')
  BY <1>11, RepairIs DEF Excused
<1>12. ASSUME u.view[f].of = KeyOf(f, ui.open), u.view[f].as = "new" PROVE Excused(u, f, calls')
  BY <1>8, <1>12, RepairIs DEF Excused
<1>13. f \in Targets(c.op) => ~Untouched(ui, f, calls)
  BY <1>6 DEF Untouched
<1>14. CASE f \in Op(c.op).shows /\ Op(c.op).keeps /\ ~c.kept
  <2>1. u.view[f] = LeftIn(ui, f)
    BY <1>8, <1>14 DEF Landed
  <2>2. u.view[f] = Fresh(f, ui.open)
    BY <2>1, LeftInIs DEF none
  <2>3. u.view[f].of = KeyOf(f, ui.open) /\ u.view[f].as = "new"
    BY <2>2 DEF Fresh
  <2> QED BY <1>12, <2>3
<1>15. CASE f \in Op(c.op).shows /\ ~(Op(c.op).keeps /\ ~c.kept)
  <2> DEFINE new == c.got[f]
  <2>1. f \in DOMAIN c.got /\ new \in Cells /\ new.of = KeyOf(f, c.key)
    BY <1>1, <1>15 DEF CallOK, Requests, Answers
  <2>2. u.view[f] = Replaced(ui, new, f, c.key)
    BY <1>8, <1>15 DEF Landed
  <2>3. AnswerSets(c, f, ui.open) /\ c.done => new.as = "new" \/ new.why # none
    BY DEF AnswerSets
  <2> HIDE DEF new
  <2>4. /\ u.view[f].of = new.of /\ u.view[f].as = new.as
        /\ u.view[f].why = IF new.why = none /\ new.as = "old" THEN ui.view[f].why ELSE new.why
        /\ KeyOf(f, c.key) = KeyOf(f, ui.open)
        /\ ~(ui.view[f].of = new.of /\ ui.view[f].as = "new" /\ new.as = "old")
    BY <2>1, <2>2, ReplacedIs DEF none
  <2>5. u.view[f].of = KeyOf(f, ui.open) /\ new.why = none /\ new.as \in {"new", "old"}
    BY <2>1, <2>4 DEF Cells
  <2>6. CASE new.as = "new"
    BY <1>12, <2>4, <2>5, <2>6
  <2>7. CASE new.as = "old"
    <3>1. ui.view[f].why = none
      BY <2>4, <2>5, <2>7
    <3>2. ~AnswerSets(c, f, ui.open)
      BY <1>1, <2>3, <2>5, <2>7
    <3>3. ~Untouched(ui, f, calls)
      BY <1>13, <1>15 DEF Targets
    <3>4. UnderRepair(ui, f, calls) \/ Warned(ui, f)
      BY <1>9, <3>1, <3>3 DEF Excused
    <3>5. UnderRepair(ui, f, calls) => Setting(f, ui.open, calls)
      BY <2>1, <2>4, <2>7, RepairIs
    <3> QED BY <1>3, <1>8, <1>10, <1>11, <3>2, <3>4, <3>5
  <2> QED BY <2>5, <2>6, <2>7
<1>16. CASE f \notin Op(c.op).shows
  <2>1. u.view[f] = ui.view[f]
    BY <1>8, <1>16 DEF Landed
  <2>2. ASSUME Setting(f, ui.open, calls) PROVE Excused(u, f, calls')
    <3>1. ~AnswerSets(c, f, ui.open)
      BY <1>16 DEF AnswerSets
    <3> QED BY <1>3, <1>8, <1>11, <2>2, <3>1
  <2>3. UnderRepair(ui, f, calls) => Excused(u, f, calls')
    BY <1>12, <2>1, <2>2, RepairIs
  <2>4. ASSUME Untouched(ui, f, calls) PROVE Untouched(u, f, calls')
    <3>1. page.tab[f] # u.open
      BY <1>8, <2>4 DEF Untouched
    <3>2. \A l \in u.loaded : l \in ui.loaded \/ f \notin Op(l).shows
      BY <1>7, <1>16
    <3> QED BY <1>5, <2>4, <3>1, <3>2, StillUntouched
  <2> QED BY <1>9, <1>10, <2>1, <2>3, <2>4 DEF Excused
<1> QED BY <1>14, <1>15, <1>16

\* ... and an answer, whatever it was overtaken by.
LEMMA ToldLand ==
    ASSUME IsPage, ui \in Signals, GoodCalls(calls), NEW f \in Fields, Told(ui, f, calls),
           NEW i \in DOMAIN calls, NEW shut, Landing(i, shut), Tabbed # {} => shut = {}
    PROVE  Told(ui', f, calls')
<1> DEFINE c == calls[i]
           u == Shown(ui, c, shut)
           loads == Op(c.op).reloads
           v == IF loads = {} THEN Ended(u, c, calls')
                ELSE Started(u, loads, KeyAfter(i, shut), none, calls')
<1>1. ui' = Quieted(ui, v, calls') /\ u \in Signals /\ v \in Signals /\ v.open = u.open
  BY LandSignals
<1>2. Kept(u, f) => Excused(u, f, calls') \/ (Visible(u, f) /\ Announced(ui, f))
  BY ToldShown
<1>3. c.op \in Ops
  <2>1. c \in Requests
    BY LenProperties DEF GoodCalls
  <2> QED BY <2>1 DEF Requests
<1>4. Grown(calls', Rest(i), loads, KeyAfter(i, shut), <<c.op, c.row>>)
  BY LandCalls
<1>5. loads \subseteq Loads /\ loads \subseteq Ops
  BY <1>3, Attributes
<1>6. v = IF loads = {} THEN Ended(u, c, calls') ELSE Started(u, loads, KeyAfter(i, shut), none, calls')
  OBVIOUS
<1> HIDE DEF c, u, loads, v
<1>7. (Visible(v, f) <=> Visible(u, f)) /\ (Kept(v, f) <=> Kept(u, f))
  BY <1>1 DEF Visible, Kept
<1>8. ASSUME Told(u, f, calls') PROVE Told(v, f, calls')
  <2>1. CASE loads = {}
    <3>1. /\ v.open = u.open /\ v.banners = u.banners /\ v.view = u.view
          /\ v.forms = u.forms /\ v.loaded = u.loaded
      BY <1>1, <1>6, <2>1, EndedIs
    <3>2. AsWrong(v, u, f) /\ (Warned(u, f) => Warned(v, f))
      BY <3>1 DEF AsWrong, Warned, Where, InForm
    <3>3. Excused(u, f, calls') => Excused(v, f, calls')
      BY <3>1, <3>2, SameExcused
    <3> QED BY <1>7, <1>8, <3>3, ToldIs
  <2>2. CASE loads # {}
    <3>1. v = Started(u, loads, KeyAfter(i, shut), none, calls')
      BY <1>6, <2>2
    <3>2. ASSUME NEW l \in loads, f \in Op(l).shows, KeyOf(f, KeyAfter(i, shut)) = KeyOf(f, u.open)
          PROVE  Setting(f, u.open, calls')
      BY <1>4, <3>2, GrownSets
    <3>3. ASSUME f \in BlanksOf(loads)
          PROVE  Setting(f, u.open, calls') \/ KeyOf(f, KeyAfter(i, shut)) # KeyOf(f, u.open)
      <4>1. PICK l \in loads : f \in Op(l).blanks
        BY <3>3 DEF BlanksOf
      <4>2. f \in Op(l).shows
        BY <1>5, <4>1, Attributes
      <4> QED BY <3>2, <4>2
    <3>4. \/ f \notin Tabbed
          \/ UnderRepair(u, f, calls')
          \/ \A o \in loads : \A p \in page.about[f] : Op(p).error \notin Op(o).clears
      <4> SUFFICES ASSUME f \in Tabbed, NEW o \in loads, NEW p \in page.about[f],
                          Op(p).error \in Op(o).clears
                   PROVE  UnderRepair(u, f, calls')
        OBVIOUS
      <4>1. o \in Ops /\ o \in Loads
        BY <1>5
      <4>2. InTab(o)
        BY <4>1, PagesFit DEF Tells, HandlerTells
      <4>3. f \in Op(o).shows /\ page.keyed = {}
        BY <4>1, <4>2, TabsOpen DEF InTab
      <4>4. KeyOf(f, KeyAfter(i, shut)) = KeyOf(f, u.open)
        BY <4>3 DEF KeyOf
      <4> QED BY <3>2, <4>3, <4>4, RepairIs
    <3> QED BY <1>1, <1>5, <1>8, <3>1, <3>3, <3>4, NoneTyped, StartTold
  <2> QED BY <2>1, <2>2
<1>9. Kept(v, f) => Excused(v, f, calls') \/ (Visible(v, f) /\ Announced(ui, f))
  BY <1>2, <1>7, <1>8, ToldIs
<1> QED BY <1>1, <1>9, QuietTold

\* A page whose user is told shows nothing wrong in silence.
LEMMA PageTells ==
    ASSUME IsPage, \A f \in Fields : Told(ui, f, calls)
    PROVE  NeverSilentlyWrong
<1> SUFFICES ASSUME NEW f \in Fields, Visible(ui, f)
             PROVE  \/ ui.view[f].why # none
                    \/ Announced(ui, f)
                    \/ UnderRepair(ui, f, calls)
  BY DEF NeverSilentlyWrong
<1>1. Kept(ui, f) /\ ~Untouched(ui, f, calls)
  BY DEF Visible, Kept, Untouched, Tabbed
<1>2. Excused(ui, f, calls)
  BY <1>1, ToldIs
<1> QED BY <1>1, <1>2, VisibleIs DEF Excused

\* What always holds of a page that runs.
PageInv ==
  /\ IsPage
  /\ ui \in Signals /\ GoodCalls(calls)
  /\ FlagsHeld(ui, calls) /\ Working(ui, calls)
  /\ \A f \in Fields : Told(ui, f, calls)

\* A page's description is read alike before and after a step.
LEMMA Described2 ==
    ASSUME page' = page
    PROVE  /\ IsPage' <=> IsPage
           /\ Flags' = Flags /\ Fields' = Fields /\ Ops' = Ops /\ Banners' = Banners
           /\ Opens' = Opens /\ Loads' = Loads
           /\ \A o : Op(o)' = Op(o)
BY DEF IsPage, Running, Flags, Fields, Ops, Banners, Opens, Loads, Op

\* The page never changes, so what is said of the next signals and requests can be said with
\* the page of now: their types,
LEMMA StillSignals ==
    ASSUME page' = page
    PROVE  (ui \in Signals)' <=> ui' \in Signals
BY Described2 DEF Signals, Cells
\* ... the requests,
LEMMA StillCalls ==
    ASSUME page' = page
    PROVE  GoodCalls(calls)' <=> GoodCalls(calls')
<1>1. Requests' = Requests
  <2>1. Cells' = Cells /\ Callers' = Callers /\ RowIds' = RowIds
    BY Described2 DEF Callers, Cells, RowIds
  <2>2. Fields' = Fields /\ Ops' = Ops
    BY Described2
  <2>3. Answers' = Answers
    BY <2>1, <2>2 DEF Answers
  <2> QED BY <2>1, <2>2, <2>3 DEF Requests
<1>2. ASSUME NEW i PROVE CallOK(calls[i])' <=> CallOK(calls'[i])
  BY Described2 DEF CallOK, Sendable, Awaited, Loads, KeyOf
<1> QED BY <1>1, <1>2 DEF GoodCalls
\* ... the signals they hold,
LEMMA StillFlags ==
    ASSUME page' = page
    PROVE  /\ FlagsHeld(ui, calls)' <=> FlagsHeld(ui', calls')
<1>1. OwnFlags' = OwnFlags
  BY Described2 DEF OwnFlags, Exclusive
<1>2. \A i : \A g : Holds(calls[i], g)' <=> Holds(calls'[i], g)
  BY Described2 DEF Holds, Behind
<1> QED BY <1>1, <1>2 DEF FlagsHeld
\* ... what they are up for,
LEMMA StillWorking ==
    ASSUME page' = page
    PROVE  Working(ui, calls)' <=> Working(ui', calls')
<1>1. \A i : \A g : Holds(calls[i], g)' <=> Holds(calls'[i], g)
  BY Described2 DEF Holds, Behind
<1> QED BY <1>1, Described2 DEF Working
\* ... and what the user is told.
LEMMA StillTold ==
    ASSUME page' = page
    PROVE  (\A f \in Fields : Told(ui, f, calls))' <=> \A f \in Fields : Told(ui', f, calls')
<1>1. /\ \A f : \A k : KeyOf(f, k)' = KeyOf(f, k)
      /\ Tabbed' = Tabbed /\ \A o : Targets(o)' = Targets(o)
  BY Described2 DEF KeyOf, Tabbed, Targets, Reloaded
<1>2. \A o : \A f : Speaks(o, f)' <=> Speaks(o, f)
  BY Described2 DEF Speaks
<1>4. \A f : \A i : Sets(calls[i], f, ui.open)' <=> Sets(calls'[i], f, ui'.open)
  BY <1>1, <1>2, Described2 DEF Sets
<1>5. \A f : UnderRepair(ui, f, calls)' <=> UnderRepair(ui', f, calls')
  BY <1>1, <1>4 DEF UnderRepair
<1>6. \A f : Warned(ui, f)' <=> Warned(ui', f)
  BY <1>1, Described2 DEF Warned, Where, InForm
<1>7. \A f : Untouched(ui, f, calls)' <=> Untouched(ui', f, calls')
  BY <1>1, Described2 DEF Untouched
<1>8. \A f : Told(ui, f, calls)' <=> Told(ui', f, calls')
  BY <1>5, <1>6, <1>7 DEF Told
<1> QED BY <1>8, Described2

\* The constructor establishes the invariant of a page.
LEMMA PageInitInv == PageInit => PageInv
<1> SUFFICES ASSUME PageInit PROVE PageInv
  OBVIOUS
<1>1. IsPage
  BY DEF PageInit, IsPage
<1> QED BY <1>1, InitSignals, InitCalls, FlagsInit, WorkingInit, ToldInit DEF PageInv

\* Every step of a page keeps what holds of it.
LEMMA PageStep ==
    ASSUME PageInv, PageNext
    PROVE  PageInv'
<1> USE DEF PageInv
<1>1. ASSUME NEW o \in Ops, NEW r \in Rows(o), Click(o, r)
      PROVE  /\ page' = page /\ ui' \in Signals /\ GoodCalls(calls')
             /\ FlagsHeld(ui', calls') /\ Working(ui', calls')
             /\ \A f \in Fields : Told(ui', f, calls')
  <2>1. page' = page
    BY <1>1 DEF Click
  <2> QED BY <1>1, <2>1, ClickSignals, ClickAsks, ClickRefreshes, FlagsClick, WorkingClick, ToldClick
<1>2. ASSUME NEW o \in Ops, Reject(o)
      PROVE  /\ page' = page /\ ui' \in Signals /\ GoodCalls(calls')
             /\ FlagsHeld(ui', calls') /\ Working(ui', calls')
             /\ \A f \in Fields : Told(ui', f, calls')
  <2>1. page' = page /\ calls' = calls
    BY <1>2 DEF Reject
  <2>2. ui' \in Signals /\ ui'.busy = ui.busy
    BY <1>2, RejectSignals
  <2>3. FlagsHeld(ui', calls) /\ Working(ui', calls)
    BY <2>2 DEF FlagsHeld, Working
  <2> QED BY <1>2, <2>1, <2>2, <2>3, ToldReject
<1>3. ASSUME NEW k \in page.keys, Select(k)
      PROVE  /\ page' = page /\ ui' \in Signals /\ GoodCalls(calls')
             /\ FlagsHeld(ui', calls') /\ Working(ui', calls')
             /\ \A f \in Fields : Told(ui', f, calls')
  <2>1. page' = page
    BY <1>3 DEF Select
  <2> QED BY <1>3, <2>1, SelectSignals, FlagsSelect, WorkingSelect, ToldSelect
<1>4. ASSUME NEW i \in DOMAIN calls, Serve(i) \/ Land(i) \/ Fail(i)
      PROVE  /\ page' = page /\ ui' \in Signals /\ GoodCalls(calls')
             /\ FlagsHeld(ui', calls') /\ Working(ui', calls')
             /\ \A f \in Fields : Told(ui', f, calls')
  <2>1. CASE Serve(i)
    <3>1. page' = page
      BY <2>1 DEF Serve
    <3> QED BY <2>1, <3>1, ServeSignals, ServeCalls, FlagsServe, WorkingServe,
          ToldServe
  <2>2. CASE Land(i)
    <3>1. page' = page
      BY <2>2 DEF Land
    <3>2. PICK shut : Landing(i, shut) /\ (Tabbed # {} => shut = {})
      BY <2>2, LandIs
    <3> QED BY <3>1, <3>2, LandSignals, LandCalls, FlagsLand, WorkingLand, ToldLand
  <2>3. CASE Fail(i)
    <3>1. page' = page
      BY <2>3 DEF Fail
    <3> QED BY <2>3, <3>1, FailSignals, FailCalls, FlagsFail, WorkingFail,
          ToldFail
  <2> QED BY <1>4, <2>1, <2>2, <2>3
<1>5. ASSUME NEW x \in page.forms, OpenForm(x) \/ CloseForm(x)
      PROVE  /\ page' = page /\ ui' \in Signals /\ GoodCalls(calls')
             /\ FlagsHeld(ui', calls') /\ Working(ui', calls')
             /\ \A f \in Fields : Told(ui', f, calls')
  <2>1. page' = page
    BY <1>5 DEF OpenForm, CloseForm, ShowForm
  <2>2. calls' = calls /\ ui' \in Signals /\ ui'.busy = ui.busy
    BY <1>5, FormSignals
  <2>3. FlagsHeld(ui', calls) /\ Working(ui', calls)
    BY <2>2 DEF FlagsHeld, Working
  <2> QED BY <1>5, <2>1, <2>2, <2>3, ToldForm
<1>6. /\ page' = page /\ ui' \in Signals /\ GoodCalls(calls')
      /\ FlagsHeld(ui', calls') /\ Working(ui', calls')
      /\ \A f \in Fields : Told(ui', f, calls')
  BY <1>1, <1>2, <1>3, <1>4, <1>5 DEF PageNext
<1>7. IsPage'
  BY <1>6, Described2
<1> QED BY <1>6, <1>7, StillSignals, StillCalls, StillFlags, StillWorking, StillTold

\* A step of another part leaves it.
LEMMA PageStays ==
    ASSUME PageInv, UNCHANGED pageVars
    PROVE  PageInv'
<1>1. page' = page /\ ui' = ui /\ calls' = calls
  BY DEF pageVars
<1>2. /\ IsPage /\ ui' \in Signals /\ GoodCalls(calls')
      /\ FlagsHeld(ui', calls') /\ Working(ui', calls')
      /\ \A f \in Fields : Told(ui', f, calls')
  BY <1>1 DEF PageInv
<1>3. IsPage'
  BY <1>1, <1>2, Described2
<1> QED BY <1>1, <1>2, <1>3, StillSignals, StillCalls, StillFlags, StillWorking, StillTold DEF PageInv

-----------------------------------------------------------------------------

\* A page whose invariant holds is typed,
LEMMA PageTyped == PageInv => PageTypeOK
<1> SUFFICES ASSUME PageInv PROVE PageTypeOK
  OBVIOUS
<1>1. IsPage /\ ui \in Signals /\ GoodCalls(calls)
  BY DEF PageInv
<1>2. page.name \in DOMAIN Pages
  BY <1>1, Described
<1>3. /\ ui.open \in Anywhere /\ ui.banners \subseteq Banners
      /\ ui.forms \subseteq page.forms /\ ui.loaded \subseteq Ops
  BY <1>1, Places DEF Signals
<1>4. \A g \in Flags : ui.busy[g] \in {"off", "on"} \cup Keys
  BY <1>1 DEF Signals
<1>5. \A f \in Fields : ui.view[f].of \in Anywhere \cup {"nothing"}
  BY <1>1 DEF Signals, Cells
<1>6. ASSUME NEW i \in DOMAIN calls PROVE calls[i].op \in Ops /\ calls[i].key \in Anywhere
  BY <1>1, GoodCall DEF Requests
<1> QED BY <1>2, <1>3, <1>4, <1>5, <1>6 DEF PageTypeOK

\* ... turns no spinner for nothing,
LEMMA PageWorks == PageInv => SpinnerMeansWork
BY DEF PageInv, Working, SpinnerMeansWork, Holds

\* The request of a change that disables its button is awaited by nobody.
LEMMA SentAlone ==
    ASSUME IsPage, GoodCalls(calls), NEW i \in DOMAIN calls, Exclusive(calls[i].op)
    PROVE  calls[i].by = <<>> /\ Op(calls[i].op).flag \in OwnFlags
<1>1. calls[i] \in Requests /\ CallOK(calls[i])
  BY GoodCall
<1>2. calls[i].op \in Ops
  BY <1>1 DEF Requests
<1>3. Op(calls[i].op).flag \in OwnFlags
  BY <1>2 DEF OwnFlags
<1>4. calls[i].by = <<>>
  BY <1>1, <1>3, HoldsOwn
<1> QED BY <1>3, <1>4

\* ... and sends no change twice.
LEMMA PageSendsOnce == PageInv => NoDoubleSubmit
<1> SUFFICES ASSUME PageInv, NEW o \in Ops, Exclusive(o)
             PROVE  LET sent == {i \in DOMAIN calls : calls[i].op = o}
                        awaiting == \E i \in DOMAIN calls : calls[i].op # o /\ o \in Behind(calls[i])
                    IN  Cardinality(sent) + (IF awaiting THEN 1 ELSE 0) <= 1
  BY DEF NoDoubleSubmit, Exclusive
<1> DEFINE sent == {i \in DOMAIN calls : calls[i].op = o}
           awaiting == \E i \in DOMAIN calls : calls[i].op # o /\ o \in Behind(calls[i])
           g == Op(o).flag
<1>1. IsPage /\ GoodCalls(calls) /\ FlagsHeld(ui, calls) /\ g \in OwnFlags
  BY DEF PageInv, OwnFlags
<1>2. \A i \in sent : calls[i].by = <<>> /\ Holds(calls[i], g)
  BY <1>1, SentAlone DEF Holds, Behind
<1>3. ASSUME NEW i \in sent, NEW j \in sent PROVE i = j
  BY <1>1, <1>2 DEF FlagsHeld
<1>4. ASSUME awaiting, NEW i \in sent PROVE FALSE
  <2>1. PICK m \in DOMAIN calls : calls[m].op # o /\ o \in Behind(calls[m])
    BY <1>4
  <2>2. Holds(calls[m], g) /\ i # m
    BY <1>4, <2>1 DEF Holds
  <2> QED BY <1>1, <1>2, <2>1, <2>2 DEF FlagsHeld
<1> HIDE DEF sent, awaiting, g
<1>5. CASE sent = {}
  <2>1. Cardinality(sent) = 0
    BY <1>5, FS_EmptySet
  <2> QED BY <2>1 DEF sent, awaiting
<1>6. CASE sent # {}
  <2>1. PICK i : i \in sent
    BY <1>6
  <2>2. sent = {i} /\ ~awaiting
    BY <1>3, <1>4, <2>1
  <2>3. Cardinality(sent) = 1
    BY <2>2, FS_Singleton
  <2> QED BY <2>2, <2>3 DEF sent, awaiting
<1> QED BY <1>5, <1>6

\* The route a navigation ends at is /login or one whose guard admits the user,
\* whatever was asked for (the redirections of requireRole and guestGuard).
LEMMA ResolveAdmits ==
  ASSUME NEW r \in Routes, NEW u \in Roles \cup {"none"}
  PROVE  /\ Resolve(r, u) \in Routes
         /\ Resolve(r, u) \in DOMAIN Guards => roleGrants(u, Guards[Resolve(r, u)])
<1>1. CASE u = "none"
  BY <1>1 DEF Resolve, Routes, Guards
<1>2. CASE u # "none" /\ (r = "login" \/ ~roleGrants(u, Guards[r]))
  <2>1. Resolve(r, u) = "dashboard"
    BY <1>2 DEF Resolve
  <2>2. roleGrants(u, Guards["dashboard"])
    BY <1>2 DEF roleGrants, Rank, Guards, Roles
  <2> QED
    BY <2>1, <2>2 DEF Routes, Guards
<1>3. CASE u # "none" /\ r # "login" /\ roleGrants(u, Guards[r])
  BY <1>3 DEF Resolve, Routes
<1> QED
  BY <1>1, <1>2, <1>3

\* The probe is in flight only while a navigation waits for it.
ProbeAwaited == requests["me"] # "idle" => nav \in Routes

\* A request that is sent carries the cookie of the moment.
LEMMA SendTyped ==
  ASSUME SessionTypeOK, NEW k \in Kinds, Send(k)
  PROVE  requests' \in [Kinds -> {"idle", "good", "bad"}]
BY DEF SessionTypeOK, Send, Carried

\* A request that is answered or lost is in flight no more.
LEMMA ArrivesTyped ==
  ASSUME SessionTypeOK, NEW k \in Kinds, NEW outcome, Arrives(k, outcome)
  PROVE  /\ requests' \in [Kinds -> {"idle", "good", "bad"}]
         /\ requests'["me"] # "idle" => requests["me"] # "idle"
BY DEF SessionTypeOK, Arrives, Kinds

\* The session starts well typed, with the probe in flight.
LEMMA SessionInitTyped == SessionInit => SessionTypeOK /\ ProbeAwaited
BY DEF SessionInit, SessionTypeOK, ProbeAwaited, Idle, Carried, Kinds, Routes

\* Every step keeps the types, and a navigation waiting for the probe.
LEMMA SessionStepTyped ==
  ASSUME SessionTypeOK, ProbeAwaited, [SessionNext]_sessionVars
  PROVE  SessionTypeOK' /\ ProbeAwaited'
<1> USE DEF SessionTypeOK, ProbeAwaited
<1>1. CASE Reload \/ SignInWithOidc
  <2>1. PICK r \in Routes, good \in BOOLEAN : BootAt(r, good)
    BY <1>1 DEF Reload, SignInWithOidc, Routes, Guards
  <2> QED
    BY <2>1 DEF BootAt, Idle, Kinds
<1>2. ASSUME NEW r \in Routes, Navigate(r)
      PROVE  SessionTypeOK' /\ ProbeAwaited'
  <2>1. Resolve(r, user) \in Routes
    BY ResolveAdmits
  <2> QED
    BY <1>2, <2>1 DEF Navigate, serverVars, authVars
<1>3. CASE PageCall \/ Poll \/ SubmitLogin \/ MenuLogout \/ onSignIn
  <2>1. PICK k \in Kinds \ {"me"} : Send(k)
    BY <1>3 DEF PageCall, Poll, SubmitLogin, MenuLogout, onSignIn, Kinds
  <2>2. requests' \in [Kinds -> {"idle", "good", "bad"}]
    BY <2>1, SendTyped
  <2>3. requests'["me"] = requests["me"]
    BY <2>1 DEF Send, Kinds
  <2>4. UNCHANGED <<serverVars, authVars, routeVars, expired>>
    BY <1>3 DEF PageCall, Poll, SubmitLogin, MenuLogout, onSignIn
  <2> QED
    BY <2>2, <2>3, <2>4 DEF serverVars, authVars, routeVars
<1>4. ASSUME NEW outcome \in Outcomes, NEW k \in {"page", "poll"}, CallEnds(k, outcome)
      PROVE  SessionTypeOK' /\ ProbeAwaited'
  BY <1>4, ArrivesTyped DEF CallEnds, serverVars, authVars, routeVars, Kinds
<1>5. ASSUME NEW outcome \in Outcomes, refreshSession(outcome)
      PROVE  SessionTypeOK' /\ ProbeAwaited'
  <2>1. requests' \in [Kinds -> {"idle", "good", "bad"}] /\ requests'["me"] = "idle"
    BY <1>5, ArrivesTyped DEF refreshSession, Arrives, Kinds
  <2>2. nav \in Routes /\ user' \in Roles \cup {"none"}
    BY <1>5 DEF refreshSession, Arrives
  <2>3. route' \in Routes
    BY <1>5, <2>2, ResolveAdmits DEF refreshSession
  <2> QED
    BY <1>5, <2>1, <2>2, <2>3 DEF refreshSession, serverVars
<1>6. ASSUME NEW outcome \in Outcomes, NEW k \in {"menuLogout", "dialogLogout"},
             Logout(k, outcome), expired' \in BOOLEAN
      PROVE  SessionTypeOK' /\ ProbeAwaited'
  <2>1. route' = route \/ route' \in Routes
    BY <1>6, ResolveAdmits DEF Logout, Routes
  <2>2. requests' \in [Kinds -> {"idle", "good", "bad"}] /\ requests'["me"] = requests["me"]
    BY <1>6, ArrivesTyped DEF Logout, Arrives, Kinds
  <2> QED
    BY <1>6, <2>1, <2>2 DEF Logout
<1>7. CASE LoginSucceeds
  <2>1. route' \in Routes
    BY <1>7, ResolveAdmits DEF LoginSucceeds, Routes, Guards
  <2>2. requests' \in [Kinds -> {"idle", "good", "bad"}] /\ requests'["me"] = requests["me"]
    BY <1>7 DEF LoginSucceeds, Kinds
  <2> QED
    BY <1>7, <2>1, <2>2 DEF LoginSucceeds
<1>8. CASE LoginFails
  BY <1>8 DEF LoginFails, serverVars, authVars, routeVars, Kinds
<1>9. CASE Expire
  <2>1. requests' \in [Kinds -> {"idle", "good", "bad"}]
        /\ (requests'["me"] # "idle" => requests["me"] # "idle")
    BY <1>9 DEF Expire, InFlight, Kinds
  <2> QED
    BY <1>9, <2>1 DEF Expire, authVars, routeVars
<1>10. CASE ChangeRole
  BY <1>10 DEF ChangeRole, authVars, routeVars
<1>11. CASE UNCHANGED sessionVars
  BY <1>11 DEF sessionVars
<1>12. ASSUME NEW outcome \in Outcomes, MenuLogoutEnds(outcome) \/ onSignInEnds(outcome)
       PROVE  SessionTypeOK' /\ ProbeAwaited'
  BY <1>12, <1>6 DEF MenuLogoutEnds, onSignInEnds
<1> QED
  BY <1>1, <1>2, <1>3, <1>4, <1>5, <1>7, <1>8, <1>9, <1>10, <1>11, <1>12 DEF SessionNext

\* A step that enters a guarded route leaves a user whose role its guard admits:
\* requireRole and authGuard decide after the probe and on every redirection.
LEMMA StepEnters ==
  ASSUME SessionTypeOK, ProbeAwaited, [SessionNext]_sessionVars,
         route' # route, route' \in DOMAIN Guards
  PROVE  roleGrants(user', Guards[route'])
<1> USE DEF SessionTypeOK
<1>1. PICK r \in Routes : route' = Resolve(r, user') /\ user' \in Roles \cup {"none"}
  <2>1. ASSUME NEW r \in Routes, Navigate(r)
        PROVE  route' = Resolve(r, user') /\ user' \in Roles \cup {"none"}
    BY <2>1 DEF Navigate, authVars
  <2>2. ASSUME NEW outcome \in Outcomes, refreshSession(outcome)
        PROVE  \E r \in Routes : route' = Resolve(r, user') /\ user' \in Roles \cup {"none"}
    BY <2>2 DEF refreshSession, Arrives, ProbeAwaited
  <2>3. ASSUME NEW outcome \in Outcomes, NEW k, Logout(k, outcome)
        PROVE  \E r \in Routes : route' = Resolve(r, user') /\ user' \in Roles \cup {"none"}
    BY <2>3 DEF Logout, Routes
  <2>4. CASE LoginSucceeds
    BY <2>4 DEF LoginSucceeds, Routes, Guards
  <2>5. ~(Reload \/ SignInWithOidc)
    BY DEF Reload, SignInWithOidc, BootAt, Guards
  <2>6. ~(PageCall \/ Poll \/ SubmitLogin \/ MenuLogout \/ onSignIn
          \/ LoginFails \/ Expire \/ ChangeRole \/ UNCHANGED sessionVars)
    BY DEF PageCall, Poll, SubmitLogin, MenuLogout, onSignIn, LoginFails, Expire, ChangeRole,
           routeVars, sessionVars
  <2>7. \A outcome : \A k : ~CallEnds(k, outcome)
    BY DEF CallEnds, routeVars
  <2> QED
    BY <2>1, <2>2, <2>3, <2>4, <2>5, <2>6, <2>7 DEF SessionNext, MenuLogoutEnds, onSignInEnds
<1> QED
  BY <1>1, ResolveAdmits

\* The dialog goes only with a step that leaves no user, whatever the answer.
LEMMA StepSignsOut ==
  ASSUME SessionNext, expired, ~expired'
  PROVE  user' = "none"
<1>1. CASE Reload
  BY <1>1 DEF Reload, BootAt
<1>2. ~SignInWithOidc
  BY DEF SignInWithOidc
<1>3. ASSUME NEW outcome \in Outcomes, onSignInEnds(outcome)
      PROVE  user' = "none"
  BY <1>3 DEF onSignInEnds, Logout
<1>4. \A outcome : /\ \A k : ~CallEnds(k, outcome)
                   /\ ~refreshSession(outcome)
                   /\ ~MenuLogoutEnds(outcome)
  BY DEF CallEnds, refreshSession, MenuLogoutEnds
<1>5. \A r : ~Navigate(r)
  BY DEF Navigate
<1> QED
  BY <1>1, <1>2, <1>3, <1>4, <1>5
  DEF SessionNext, PageCall, Poll, SubmitLogin, MenuLogout, onSignIn, LoginSucceeds,
      LoginFails, Expire, ChangeRole

\* The requests of the bell.
Messages == [kind : {"refresh", "dismiss", "dismissAll", "restart"}, area : Areas \cup {"none"},
             mine : BOOLEAN, done : BOOLEAN, got : SUBSET Areas]

\* What always holds of the bell.
BellInv ==
  /\ pending \in SUBSET Areas /\ items \in SUBSET Areas
  /\ mounted \in BOOLEAN /\ restarting \in BOOLEAN /\ restartError \in BOOLEAN
  /\ asks \in Seq(Messages)
  /\ RestartingMeansWork

\* A request of the bell.
LEMMA AskTyped ==
    ASSUME NEW kind \in {"refresh", "dismiss", "dismissAll", "restart"}, NEW a \in Areas \cup {"none"}
    PROVE  Ask(kind, a) \in Messages /\ Ask(kind, a).mine = (kind = "restart")
BY DEF Ask, Messages

\* The bell starts, or stays away, with nothing asked.
LEMMA BellInits == BellInit \/ NoBell => BellInv
<1>1. BellInit => BellInv
  <2>1. Ask("refresh", "none") \in Messages
    BY AskTyped
  <2>2. <<Ask("refresh", "none")>> \in Seq(Messages)
    BY <2>1
  <2> QED BY <2>2 DEF BellInit, BellInv, RestartingMeansWork
<1>2. NoBell => BellInv
  <2>1. <<>> \in Seq(Messages)
    OBVIOUS
  <2> QED BY <2>1 DEF NoBell, BellInv, RestartingMeansWork
<1> QED BY <1>1, <1>2

\* The requests in flight that are asked, and one more.
LEMMA AsksTyped ==
    ASSUME BellInv, NEW kind \in {"refresh", "dismiss", "dismissAll", "restart"},
           NEW a \in Areas \cup {"none"}, asks' = Append(asks, Ask(kind, a))
    PROVE  /\ asks' \in Seq(Messages)
           /\ restarting \/ kind = "restart" => \E i \in DOMAIN asks' : asks'[i].mine
<1>1. Ask(kind, a) \in Messages /\ Ask(kind, a).mine = (kind = "restart") /\ asks \in Seq(Messages)
  BY AskTyped DEF BellInv
<1>2. /\ asks' \in Seq(Messages)
      /\ \A i \in DOMAIN asks : i \in DOMAIN asks' /\ asks'[i] = asks[i]
      /\ \E n \in DOMAIN asks' : asks'[n] = Ask(kind, a)
  BY <1>1, Appending
<1>3. restarting => \E i \in DOMAIN asks : asks[i].mine
  BY DEF BellInv, RestartingMeansWork
<1> QED BY <1>1, <1>2, <1>3

\* An answered or lost request of the bell takes its own flag down with it.
LEMMA AskEnds ==
    ASSUME BellInv, NEW i \in DOMAIN asks, NEW failed \in BOOLEAN,
           RestartEnds(asks[i], failed), asks' = RemoveAt(asks, i)
    PROVE  /\ asks' \in Seq(Messages) /\ asks[i] \in Messages
           /\ restarting' \in BOOLEAN /\ restartError' \in BOOLEAN
           /\ RestartingMeansWork'
<1>1. asks \in Seq(Messages) /\ asks[i] \in Messages
  BY LenProperties DEF BellInv
<1>2. asks' \in Seq(Messages)
  BY <1>1, Removal
<1>3. \A k \in DOMAIN asks \ {i} : \E j \in DOMAIN asks' : asks'[j] = asks[k]
  BY <1>1, Remaining
<1>4. restarting' \in BOOLEAN /\ restartError' \in BOOLEAN
  BY DEF RestartEnds, BellInv
<1>5. ASSUME restarting' PROVE \E j \in DOMAIN asks' : asks'[j].mine
  <2>1. ~asks[i].mine /\ restarting
    BY <1>5 DEF RestartEnds
  <2>2. PICK k \in DOMAIN asks : asks[k].mine
    BY <2>1 DEF BellInv, RestartingMeansWork
  <2> QED BY <1>3, <2>1, <2>2
<1> QED BY <1>1, <1>2, <1>4, <1>5 DEF RestartingMeansWork

\* Each step of the bell preserves its invariant,
LEMMA BellStep ==
    ASSUME BellInv, [BellNext]_bellVars
    PROVE  BellInv'
<1>1. ASSUME NEW kind \in {"refresh", "dismiss", "dismissAll", "restart"}, NEW a \in Areas \cup {"none"},
             Asks(kind, a), restartError' \in BOOLEAN,
             restarting' = (restarting \/ kind = "restart")
      PROVE  BellInv'
  <2>1. asks' = Append(asks, Ask(kind, a)) /\ UNCHANGED <<pending, items, mounted>>
    BY <1>1 DEF Asks
  <2>2. /\ asks' \in Seq(Messages)
        /\ restarting \/ kind = "restart" => \E i \in DOMAIN asks' : asks'[i].mine
    BY <2>1, AsksTyped
  <2> QED BY <1>1, <2>1, <2>2 DEF BellInv, RestartingMeansWork
<1>2. CASE BellPoll
  <2>1. Asks("refresh", "none") /\ UNCHANGED <<restarting, restartError>>
    BY <1>2 DEF BellPoll
  <2> QED BY <1>1, <2>1 DEF BellInv
<1>3. CASE onDismissAll
  <2>1. Asks("dismissAll", "none") /\ UNCHANGED <<restarting, restartError>>
    BY <1>3 DEF onDismissAll
  <2> QED BY <1>1, <2>1 DEF BellInv
<1>4. ASSUME NEW a \in Areas, onDismiss(a)
      PROVE  BellInv'
  <2>1. Asks("dismiss", a) /\ UNCHANGED <<restarting, restartError>>
    BY <1>4 DEF onDismiss
  <2> QED BY <1>1, <2>1 DEF BellInv
<1>5. CASE onRestart
  <2>1. Asks("restart", "none") /\ restarting' = TRUE /\ restartError' = FALSE
    BY <1>5 DEF onRestart
  <2> QED BY <1>1, <2>1
<1>6. CASE Unmount
  <2> DEFINE New(i) == [asks[i] EXCEPT !.mine = FALSE]
  <2>1. /\ mounted' = FALSE /\ restarting' = FALSE /\ restartError' = FALSE
        /\ asks' = [i \in DOMAIN asks |-> New(i)] /\ UNCHANGED <<pending, items>>
    BY <1>6 DEF Unmount
  <2>2. asks \in Seq(Messages) /\ \A i \in DOMAIN asks : asks[i] \in Messages
    BY LenProperties DEF BellInv
  <2>3. \A i \in DOMAIN asks : New(i) \in Messages
    BY <2>2 DEF Messages
  <2> HIDE DEF New
  <2>4. DOMAIN asks' = DOMAIN asks /\ \A i \in DOMAIN asks : asks'[i] = New(i)
    BY <2>1
  <2>5. asks' = [i \in DOMAIN asks |-> asks'[i]]
    BY <2>1, <2>4
  <2>6. asks' \in Seq(Messages)
    BY <2>2, <2>3, <2>4, <2>5, MapTyped
  <2> QED BY <2>1, <2>6 DEF BellInv, RestartingMeansWork
<1>7. CASE Mount
  <2>1. /\ mounted' = TRUE /\ asks' = Append(asks, Ask("refresh", "none"))
        /\ UNCHANGED <<pending, items, restarting, restartError>>
    BY <1>7 DEF Mount
  <2>2. /\ asks' \in Seq(Messages)
        /\ restarting => \E i \in DOMAIN asks' : asks'[i].mine
    BY <2>1, AsksTyped
  <2> QED BY <2>1, <2>2 DEF BellInv, RestartingMeansWork
<1>8. ASSUME NEW i \in DOMAIN asks, BellServe(i)
      PROVE  BellInv'
  <2> DEFINE new == [asks[i] EXCEPT !.done = TRUE, !.got = pending']
  <2>1. /\ pending' = Left(asks[i]) /\ asks' = [asks EXCEPT ![i] = new]
        /\ UNCHANGED <<items, mounted, restarting, restartError>>
    BY <1>8 DEF BellServe
  <2>2. asks \in Seq(Messages) /\ asks[i] \in Messages
    BY LenProperties DEF BellInv
  <2>3. pending' \in SUBSET Areas
    BY <2>1 DEF Left, BellInv
  <2>4. new \in Messages /\ new.mine = asks[i].mine
    BY <2>2, <2>3 DEF Messages
  <2> HIDE DEF new
  <2>5. asks' \in Seq(Messages) /\ DOMAIN asks' = DOMAIN asks
    BY <2>1, <2>2, <2>4
  <2>6. \A j \in DOMAIN asks : asks'[j].mine = asks[j].mine
    BY <2>1, <2>2, <2>4
  <2> QED BY <2>1, <2>3, <2>5, <2>6 DEF BellInv, RestartingMeansWork
<1>9. ASSUME NEW a \in Areas, MarkPending(a)
      PROVE  BellInv'
  BY <1>9 DEF MarkPending, BellInv, RestartingMeansWork
<1>10. ASSUME NEW i \in DOMAIN asks, BellLand(i)
       PROVE  BellInv'
  <2>1. /\ items' = Heard(asks[i]) /\ RestartEnds(asks[i], FALSE) /\ asks' = RemoveAt(asks, i)
        /\ UNCHANGED <<pending, mounted>>
    BY <1>10 DEF BellLand
  <2>2. /\ asks' \in Seq(Messages) /\ asks[i] \in Messages
        /\ restarting' \in BOOLEAN /\ restartError' \in BOOLEAN /\ RestartingMeansWork'
    BY <2>1, AskEnds
  <2>3. items' \in SUBSET Areas
    BY <2>1, <2>2 DEF Heard, BellInv, Messages
  <2> QED BY <2>1, <2>2, <2>3 DEF BellInv
<1>11. ASSUME NEW i \in DOMAIN asks, BellFail(i)
       PROVE  BellInv'
  <2>1. /\ RestartEnds(asks[i], TRUE) /\ asks' = RemoveAt(asks, i)
        /\ UNCHANGED <<pending, items, mounted>>
    BY <1>11 DEF BellFail
  <2>2. /\ asks' \in Seq(Messages)
        /\ restarting' \in BOOLEAN /\ restartError' \in BOOLEAN /\ RestartingMeansWork'
    BY <2>1, AskEnds
  <2> QED BY <2>1, <2>2 DEF BellInv
<1>12. CASE UNCHANGED bellVars
  BY <1>12 DEF bellVars, BellInv, RestartingMeansWork
<1> QED
  BY <1>2, <1>3, <1>4, <1>5, <1>6, <1>7, <1>8, <1>9, <1>10, <1>11, <1>12 DEF BellNext

\* ... which types it.
LEMMA BellTyped == BellInv => BellTypeOK
<1> SUFFICES ASSUME BellInv PROVE BellTypeOK
  OBVIOUS
<1>1. \A i \in DOMAIN asks : asks[i] \in Messages
  BY LenProperties DEF BellInv
<1> QED BY <1>1 DEF BellInv, BellTypeOK, Messages

-----------------------------------------------------------------------------
(* The override files.                                                       *)

FileRows == Seq({"new", "old"})
FileRequests ==
  [op : DOMAIN SignalOf, file : Files \cup {"every"}, done : BOOLEAN, mixed : SUBSET Files,
   got : UNION {[F -> FileRows] : F \in SUBSET Files}]
SignalNames == {SignalOf[op] : op \in DOMAIN SignalOf}

\* A request is for one file or for all, and has an answer for each of them.
FileRequestOK(c) ==
  /\ c.op \in RowOps => c.file \in Files
  /\ DOMAIN c.got = AboutFiles(c)
  /\ c.op = "saveFile" /\ c.done => c.got[c.file] # <<>>

\* What a request about a file, which no other in flight is about, is sure of: the
\* answer it has, and the rows it was sent for.
SureOf(c, n, disk, rows) ==
  /\ c.done => c.got[n] = IF n \in disk THEN <<"new">> ELSE <<>>
  /\ c.done /\ c.op = "deleteFile" => n \notin disk
  /\ c.done /\ c.op \in {"saveFile", "createFile"} => n \in disk
  /\ c.op = "saveFile" => rows # <<>>
  /\ c.op = "createFile" => rows = <<>>

Sure(c, disk, list) == \A n \in AboutFiles(c) \ c.mixed : SureOf(c, n, disk, list[n])

\* Of a row that is wrong the reason is known, and a file that is listed twice is in doubt.
RowKnown(n) ==
  /\ RightRows(n) \/ n \in told \/ PendingFile(n) \/ n \in doubted
  /\ Len(listed[n]) <= 1 \/ n \in doubted

\* The types, and what the requests in flight are sure of.
FilesTyped ==
  /\ onDisk \in SUBSET Files /\ told \in SUBSET Files /\ doubted \in SUBSET Files
  /\ listed \in [Files -> FileRows]
  /\ signal \in [SignalNames -> {"off", "on"} \cup Files]

AskedTyped ==
  /\ asked \in Seq(FileRequests)
  /\ \A i \in DOMAIN asked : FileRequestOK(asked[i])

\* Two requests about one file both know that they overlap.
OverlapsKnown ==
  \A i, j \in DOMAIN asked :
    i # j => AboutFiles(asked[i]) \cap AboutFiles(asked[j]) \subseteq asked[i].mixed

FilesInv ==
  /\ FilesTyped /\ AskedTyped /\ OverlapsKnown
  /\ \A i \in DOMAIN asked : Sure(asked[i], onDisk, listed)
  /\ \A n \in Files : RowKnown(n)

\* A request in flight is a request.
LEMMA FileAsked ==
    ASSUME AskedTyped, NEW i \in DOMAIN asked
    PROVE  /\ asked[i] \in FileRequests /\ FileRequestOK(asked[i])
           /\ asked[i].op \in DOMAIN SignalOf /\ asked[i].mixed \in SUBSET Files
           /\ AboutFiles(asked[i]) \in SUBSET Files
<1>1. asked[i] \in FileRequests /\ FileRequestOK(asked[i])
  BY LenProperties DEF AskedTyped
<1>2. asked[i].op \in DOMAIN SignalOf /\ asked[i].mixed \in SUBSET Files
  BY <1>1 DEF FileRequests
<1>3. AboutFiles(asked[i]) \in SUBSET Files
  BY <1>1, <1>2 DEF FileRequestOK, AboutFiles, SignalOf, RowOps, WholeOps
<1> QED BY <1>1, <1>2, <1>3

\* The rows of a file that is there, and of one that is not.
LEMMA HeldIs ==
    ASSUME NEW n
    PROVE  HeldRows(n) \in FileRows /\ Len(HeldRows(n)) <= 1 /\ (n \in onDisk => HeldRows(n) = <<"new">>)
<1>1. /\ <<>> \in FileRows /\ <<"new">> \in FileRows /\ Len(<<>>) = 0 /\ Len(<<"new">>) = 1
  BY DEF FileRows
<1> QED BY <1>1 DEF HeldRows

\* A request just made, whichever it overlaps.
LEMMA FileRequestIs ==
    ASSUME NEW op \in DOMAIN SignalOf, NEW n,
           (op \in WholeOps /\ n = "every") \/ (op \in RowOps /\ n \in Files),
           NEW mixed \in SUBSET Files,
           NEW c, c = FileRequest(op, n) \/ c = [FileRequest(op, n) EXCEPT !.mixed = mixed]
    PROVE  c \in FileRequests /\ FileRequestOK(c) /\ c.op = op /\ ~c.done /\ c.file = n
<1> DEFINE about == IF op \in WholeOps THEN Files ELSE {n}
           got == [m \in about |-> <<>>]
<1>1. about \in SUBSET Files
  BY DEF WholeOps, RowOps
<1>2. got \in [about -> FileRows]
  <2>1. <<>> \in FileRows
    BY DEF FileRows
  <2> QED BY <2>1
<1>3. DOMAIN got = about /\ got \in UNION {[F -> FileRows] : F \in SUBSET Files}
  <2> HIDE DEF about, got
  <2>1. DOMAIN got = about
    BY <1>2
  <2> QED BY <1>1, <1>2, <2>1
<1>4. FileRequest(op, n) = [op |-> op, file |-> n, done |-> FALSE, mixed |-> {}, got |-> got]
  BY DEF FileRequest
<1> HIDE DEF got
<1>5. c.op = op /\ c.file = n /\ c.done = FALSE /\ c.got = got
  BY <1>4
<1>6. c \in FileRequests
  <2>1. PICK known \in SUBSET Files :
          c = [op |-> op, file |-> n, done |-> FALSE, mixed |-> known, got |-> got]
    BY <1>4
  <2>2. n \in Files \cup {"every"}
    OBVIOUS
  <2> QED BY <1>3, <2>1, <2>2 DEF FileRequests
<1>7. AboutFiles(c) = about
  BY <1>5 DEF AboutFiles
<1>8. FileRequestOK(c)
  BY <1>3, <1>5, <1>7 DEF FileRequestOK, WholeOps, RowOps
<1> QED BY <1>5, <1>6, <1>8

\* The page starts with the list on its way.
LEMMA FilesInits == FilesInit => FilesInv
<1> SUFFICES ASSUME FilesInit PROVE FilesInv
  OBVIOUS
<1> DEFINE c == FileRequest("load", "every")
<1>1. /\ c \in FileRequests /\ FileRequestOK(c) /\ c.op = "load" /\ ~c.done
  <2>1. "load" \in DOMAIN SignalOf /\ "load" \in WholeOps /\ {} \in SUBSET Files
    BY DEF SignalOf, WholeOps
  <2> HIDE DEF c
  <2> QED BY <2>1, FileRequestIs DEF c
<1>2. AboutFiles(c) = Files
  BY <1>1 DEF AboutFiles, WholeOps
<1> HIDE DEF c
<1>3. asked = <<c>> /\ DOMAIN asked = {1} /\ asked[1] = c
  BY DEF FilesInit, c
<1>4. AskedTyped
  BY <1>1, <1>3 DEF AskedTyped
<1>5. OverlapsKnown
  BY <1>3 DEF OverlapsKnown
<1>6. FilesTyped
  <2>1. <<>> \in FileRows
    BY DEF FileRows
  <2> QED BY <2>1 DEF FilesTyped, FilesInit, SignalNames
<1>7. Sure(c, onDisk, listed)
  BY <1>1 DEF Sure, SureOf
<1>8. ASSUME NEW n \in Files PROVE RowKnown(n)
  <2>1. PendingFile(n)
    BY <1>2, <1>3 DEF PendingFile
  <2>2. listed[n] = <<>> /\ Len(<<>>) = 0
    BY DEF FilesInit
  <2> QED BY <2>1, <2>2 DEF RowKnown
<1> QED BY <1>3, <1>4, <1>5, <1>6, <1>7, <1>8 DEF FilesInv

\* A row whose file was not touched is accounted for after the step, unless the request
\* that was about it is over and says nothing.
LEMMA RowStays ==
    ASSUME FilesInv, NEW n \in Files, NEW mixed, Doubt(mixed),
           listed'[n] = listed[n], HeldRows(n)' = HeldRows(n),
           PendingFile(n) => PendingFile(n)' \/ n \in told' \/ n \in mixed
    PROVE  RowKnown(n)'
<1>1. RightRows(n)' <=> RightRows(n)
  BY DEF RightRows
<1>2. ~RightRows(n)' /\ n \in doubted \cup told \cup mixed => n \in doubted'
  BY DEF Doubt
<1>3. RowKnown(n)
  BY DEF FilesInv
<1>4. Len(listed[n]) <= 1 \/ ~RightRows(n)
  BY HeldIs DEF RightRows
<1> QED BY <1>1, <1>2, <1>3, <1>4 DEF RowKnown

\* The files in doubt are files.
LEMMA DoubtTyped ==
    ASSUME FilesTyped, NEW mixed \in SUBSET Files, Doubt(mixed)
    PROVE  doubted' \in SUBSET Files
BY DEF Doubt, FilesTyped

\* The signal of a handler goes up, or down.
LEMMA SignalTyped ==
    ASSUME FilesTyped, NEW op, NEW v \in {"off", "on"} \cup Files,
           signal' = [signal EXCEPT ![SignalOf[op]] = v]
    PROVE  signal' \in [SignalNames -> {"off", "on"} \cup Files]
BY DEF FilesTyped

\* A request is sent: it and those in flight about the same file overlap.
LEMMA AskFilesInv ==
    ASSUME FilesInv, NEW op \in DOMAIN SignalOf, NEW n,
           (op \in WholeOps /\ n = "every") \/ (op \in RowOps /\ n \in Files),
           AskFiles(op, n)
    PROVE  FilesInv'
<1> DEFINE new == FileRequest(op, n)
           Common(d) == AboutFiles(d) \cap AboutFiles(new)
           others == UNION {Common(asked[i]) : i \in DOMAIN asked}
           c == [new EXCEPT !.mixed = others]
           Older(i) == [asked[i] EXCEPT !.mixed = asked[i].mixed \cup Common(asked[i])]
           older == [i \in DOMAIN asked |-> Older(i)]
<1>1. /\ asked' = Append(older, c) /\ told' = {} /\ Doubt({})
      /\ onDisk' = onDisk /\ listed' = listed
      /\ Offered(op, n)
  BY DEF AskFiles
<1>2. /\ signal' = [signal EXCEPT ![SignalOf[op]] = IF op \in {"saveFile", "deleteFile"} THEN n ELSE "on"]
  BY DEF AskFiles
<1>3. AskedTyped /\ FilesTyped /\ OverlapsKnown
  BY DEF FilesInv
<1>4. \A i \in DOMAIN asked : /\ asked[i] \in FileRequests /\ FileRequestOK(asked[i])
                              /\ asked[i].mixed \in SUBSET Files /\ AboutFiles(asked[i]) \in SUBSET Files
  BY <1>3, FileAsked
<1>5. others \in SUBSET Files
  BY <1>4
<1>6. /\ c \in FileRequests /\ FileRequestOK(c) /\ c.op = op /\ ~c.done /\ c.file = n
      /\ new \in FileRequests /\ new.op = op /\ new.file = n
  BY <1>5, FileRequestIs
<1>7. c.mixed = others /\ AboutFiles(c) = AboutFiles(new)
  <2>1. c.mixed = others
    BY DEF FileRequest
  <2> QED BY <1>6, <2>1 DEF AboutFiles
<1> HIDE DEF c, others
<1>8. ASSUME NEW i \in DOMAIN asked
      PROVE  /\ Older(i) \in FileRequests /\ FileRequestOK(Older(i))
             /\ AboutFiles(Older(i)) = AboutFiles(asked[i])
             /\ Older(i).mixed = asked[i].mixed \cup Common(asked[i])
             /\ Older(i).op = asked[i].op /\ Older(i).done = asked[i].done
             /\ Older(i).got = asked[i].got /\ Older(i).file = asked[i].file
  <2> DEFINE more == asked[i].mixed \cup Common(asked[i])
  <2>1. more \in SUBSET Files
    BY <1>4
  <2> HIDE DEF more
  <2>2. /\ [asked[i] EXCEPT !.mixed = more] \in FileRequests
        /\ [asked[i] EXCEPT !.mixed = more].mixed = more
        /\ [asked[i] EXCEPT !.mixed = more].op = asked[i].op
        /\ [asked[i] EXCEPT !.mixed = more].done = asked[i].done
        /\ [asked[i] EXCEPT !.mixed = more].got = asked[i].got
        /\ [asked[i] EXCEPT !.mixed = more].file = asked[i].file
    BY <1>4, <2>1 DEF FileRequests
  <2>3. Older(i) = [asked[i] EXCEPT !.mixed = more]
    BY DEF more
  <2>4. AboutFiles(Older(i)) = AboutFiles(asked[i])
    BY <2>2, <2>3 DEF AboutFiles
  <2>5. FileRequestOK(Older(i))
    BY <1>4, <2>2, <2>3, <2>4 DEF FileRequestOK
  <2> QED BY <2>2, <2>3, <2>4, <2>5 DEF more
<1>9. /\ older \in Seq(FileRequests) /\ DOMAIN older = DOMAIN asked
      /\ \A i \in DOMAIN asked : older[i] = Older(i)
  <2> HIDE DEF Older
  <2>1. DOMAIN older = DOMAIN asked /\ \A i \in DOMAIN asked : older[i] = Older(i)
    OBVIOUS
  <2>2. \A i \in DOMAIN asked : older[i] \in FileRequests
    BY <1>8, <2>1
  <2>3. asked \in Seq(FileRequests) /\ older = [i \in DOMAIN asked |-> older[i]]
    BY <1>3, <2>1 DEF AskedTyped
  <2> HIDE DEF older
  <2> QED BY <2>1, <2>2, <2>3, MapTyped
<1> HIDE DEF older
<1>10. /\ asked' \in Seq(FileRequests)
       /\ \A i \in DOMAIN asked : i \in DOMAIN asked' /\ asked'[i] = Older(i)
  <2> HIDE DEF Older
  <2> QED BY <1>1, <1>6, <1>9, Appending
<1>11. PICK m \in DOMAIN asked' \ DOMAIN asked :
         asked'[m] = c /\ \A i \in DOMAIN asked' : i \in DOMAIN asked \/ i = m
  BY <1>1, <1>6, <1>9, Appending
<1> HIDE DEF Older
<1>12. AskedTyped'
  <2>1. \A i \in DOMAIN asked' : FileRequestOK(asked'[i])
    BY <1>6, <1>8, <1>10, <1>11
  <2> QED BY <1>10, <2>1 DEF AskedTyped, FileRequestOK, AboutFiles
<1>13. FilesTyped'
  <2>1. (IF op \in {"saveFile", "deleteFile"} THEN n ELSE "on") \in {"off", "on"} \cup Files
    BY DEF WholeOps
  <2>2. signal' \in [SignalNames -> {"off", "on"} \cup Files]
    BY <1>2, <1>3, <2>1, SignalTyped
  <2>3. doubted' \in SUBSET Files
    BY <1>1, <1>3, DoubtTyped
  <2> QED BY <1>1, <1>3, <2>2, <2>3 DEF FilesTyped
<1>14. OverlapsKnown'
  <2>1. ASSUME NEW i \in DOMAIN asked', NEW j \in DOMAIN asked', i # j
        PROVE  AboutFiles(asked'[i]) \cap AboutFiles(asked'[j]) \subseteq asked'[i].mixed
    <3>1. CASE i \in DOMAIN asked /\ j \in DOMAIN asked
      BY <1>3, <1>8, <1>10, <2>1, <3>1 DEF OverlapsKnown
    <3>2. CASE i \in DOMAIN asked /\ j = m
      BY <1>7, <1>8, <1>10, <1>11, <3>2
    <3>3. CASE i = m /\ j \in DOMAIN asked
      <4>1. Common(asked[j]) \subseteq others
        BY <3>3 DEF others
      <4> QED BY <1>7, <1>8, <1>10, <1>11, <3>3, <4>1
    <3> QED BY <1>11, <2>1, <3>1, <3>2, <3>3
  <2> QED BY <2>1 DEF OverlapsKnown, AboutFiles
<1>15. ASSUME NEW i \in DOMAIN asked' PROVE Sure(asked'[i], onDisk', listed')
  <2>1. ASSUME NEW k \in AboutFiles(asked'[i]) \ asked'[i].mixed
        PROVE  SureOf(asked'[i], k, onDisk', listed'[k])
    <3>1. CASE i \in DOMAIN asked
      <4>1. k \in AboutFiles(asked[i]) \ asked[i].mixed
        BY <1>8, <1>10, <2>1, <3>1
      <4>2. SureOf(asked[i], k, onDisk, listed[k])
        BY <3>1, <4>1 DEF FilesInv, Sure
      <4> QED BY <1>1, <1>8, <1>10, <3>1, <4>2 DEF SureOf
    <3>2. CASE i = m
      <4>1. op \in RowOps => k = n
        BY <1>6, <1>7, <1>11, <2>1, <3>2 DEF AboutFiles, RowOps, WholeOps
      <4>2. /\ op = "saveFile" => listed[k] # <<>>
            /\ op = "createFile" => listed[k] = <<>>
        BY <1>1, <4>1 DEF Offered, RowOps
      <4> QED BY <1>1, <1>6, <1>11, <3>2, <4>2 DEF SureOf
    <3> QED BY <1>11, <3>1, <3>2
  <2> QED BY <2>1 DEF Sure
<1>16. ASSUME NEW k \in Files PROVE RowKnown(k)'
  <2>1. PendingFile(k) => PendingFile(k)'
    BY <1>8, <1>10 DEF PendingFile, AboutFiles
  <2>2. listed'[k] = listed[k] /\ HeldRows(k)' = HeldRows(k)
    BY <1>1 DEF HeldRows
  <2> QED BY <1>1, <2>1, <2>2, RowStays
<1> QED BY <1>12, <1>13, <1>14, <1>15, <1>16 DEF FilesInv

\* A refusal before anything is sent takes the banner down.
LEMMA RefuseInputInv ==
    ASSUME FilesInv, RefuseInput
    PROVE  FilesInv'
<1>1. /\ told' = {} /\ Doubt({})
      /\ onDisk' = onDisk /\ listed' = listed /\ signal' = signal /\ asked' = asked
  BY DEF RefuseInput
<1>2. FilesTyped'
  <2>1. doubted' \in SUBSET Files
    BY <1>1, DoubtTyped DEF FilesInv
  <2> QED BY <1>1, <2>1 DEF FilesTyped, FilesInv
<1>3. AskedTyped' /\ OverlapsKnown' /\ \A i \in DOMAIN asked' : Sure(asked'[i], onDisk', listed')
  BY <1>1 DEF FilesInv, AskedTyped, OverlapsKnown
<1>4. ASSUME NEW k \in Files PROVE RowKnown(k)'
  <2>1. PendingFile(k)' = PendingFile(k) /\ HeldRows(k)' = HeldRows(k)
    BY <1>1 DEF PendingFile, HeldRows
  <2> QED BY <1>1, <2>1, RowStays
<1> QED BY <1>2, <1>3, <1>4 DEF FilesInv

\* As many rows as there are, all alike.
LEMMA AlikeTyped ==
    ASSUME NEW rows \in FileRows, NEW x \in {"new", "old"}, NEW t, t = [j \in DOMAIN rows |-> x]
    PROVE  t \in FileRows /\ Len(t) = Len(rows) /\ DOMAIN t = DOMAIN rows /\ (t = <<>> <=> rows = <<>>)
<1>1. /\ DOMAIN t = DOMAIN rows /\ t = [j \in DOMAIN rows |-> t[j]]
      /\ \A j \in DOMAIN rows : t[j] \in {"new", "old"}
  OBVIOUS
<1>2. t \in Seq({"new", "old"}) /\ Len(t) = Len(rows)
  BY <1>1, MapTyped DEF FileRows
<1>3. t = <<>> <=> rows = <<>>
  BY <1>2, EmptySeq DEF FileRows
<1> QED BY <1>1, <1>2, <1>3 DEF FileRows

\* Rows read before a change are as many, and say that they are old.
LEMMA AgedIs ==
    ASSUME NEW rows \in FileRows
    PROVE  Aged(rows) \in FileRows /\ Len(Aged(rows)) = Len(rows) /\ (Aged(rows) = <<>> <=> rows = <<>>)
BY AlikeTyped DEF Aged

\* The server carries a request out: nothing is known of what others hold of its file, for
\* they overlap it.
LEMMA ServeFileInv ==
    ASSUME FilesInv, NEW i \in DOMAIN asked, ServeFile(i)
    PROVE  FilesInv'
<1> DEFINE c == asked[i]
           changed == IF c.op \in RowOps THEN {c.file} ELSE {}
           Older(n, rows) == IF n \in changed THEN Aged(rows) ELSE rows
           got(d) == [n \in DOMAIN d.got |-> Older(n, d.got[n])]
           answer == [n \in DOMAIN c.got |-> HeldRows(n)']
           Then(j) == IF j = i THEN [c EXCEPT !.done = TRUE, !.got = answer]
                      ELSE [asked[j] EXCEPT !.got = got(asked[j])]
           then == [j \in DOMAIN asked |-> Then(j)]
<1>1. /\ c.op = "deleteFile" => c.file \in onDisk
      /\ onDisk' = IF c.op = "deleteFile" THEN onDisk \ changed ELSE onDisk \cup changed
      /\ listed' = [n \in Files |-> Older(n, listed[n])]
      /\ asked' = then
      /\ signal' = signal /\ told' = told /\ Doubt({})
  BY DEF ServeFile
<1>2. AskedTyped /\ FilesTyped /\ OverlapsKnown
  BY DEF FilesInv
<1>3. ASSUME NEW j \in DOMAIN asked
      PROVE  /\ asked[j] \in FileRequests /\ FileRequestOK(asked[j])
             /\ asked[j].mixed \in SUBSET Files /\ AboutFiles(asked[j]) \in SUBSET Files
             /\ DOMAIN asked[j].got = AboutFiles(asked[j])
             /\ asked[j].got \in [AboutFiles(asked[j]) -> FileRows]
  <2>1. /\ asked[j] \in FileRequests /\ FileRequestOK(asked[j])
        /\ asked[j].mixed \in SUBSET Files /\ AboutFiles(asked[j]) \in SUBSET Files
    BY <1>2, FileAsked
  <2>2. asked[j].got \in UNION {[F -> FileRows] : F \in SUBSET Files}
    BY <2>1 DEF FileRequests
  <2>3. DOMAIN asked[j].got = AboutFiles(asked[j])
    BY <2>1 DEF FileRequestOK
  <2> QED BY <2>1, <2>2, <2>3
<1>4. changed \subseteq AboutFiles(c) /\ changed \in SUBSET Files
  BY <1>3 DEF AboutFiles, RowOps, WholeOps
<1>5. \A n \in changed : c.file = n /\ c.op \in RowOps /\ AboutFiles(c) = {n}
  BY DEF AboutFiles, RowOps, WholeOps
<1>6. \A n : n \notin changed => (n \in onDisk' <=> n \in onDisk)
  BY <1>1
<1>7. ASSUME NEW n, NEW rows \in FileRows PROVE Older(n, rows) \in FileRows
  BY AgedIs
<1>8. ASSUME NEW j \in DOMAIN asked
      PROVE  /\ Then(j) \in FileRequests
             /\ Then(j).op = asked[j].op /\ Then(j).file = asked[j].file /\ Then(j).mixed = asked[j].mixed
             /\ DOMAIN Then(j).got = AboutFiles(asked[j])
             /\ j = i => Then(j).done /\ \A n \in AboutFiles(c) : Then(j).got[n] = HeldRows(n)'
             /\ j # i => /\ Then(j).done = asked[j].done
                         /\ \A n \in AboutFiles(asked[j]) : Then(j).got[n] = Older(n, asked[j].got[n])
  <2> DEFINE F == AboutFiles(asked[j])
             g == IF j = i THEN answer ELSE got(asked[j])
             done == IF j = i THEN TRUE ELSE asked[j].done
  <2>1. F \in SUBSET Files /\ DOMAIN asked[j].got = F /\ asked[j].got \in [F -> FileRows]
    BY <1>3
  <2>2. /\ DOMAIN g = F /\ g \in [F -> FileRows]
        /\ j = i => \A n \in F : g[n] = HeldRows(n)'
        /\ j # i => \A n \in F : g[n] = Older(n, asked[j].got[n])
    <3>1. CASE j = i
      <4>1. \A n \in F : HeldRows(n)' \in FileRows
        <5>1. <<>> \in FileRows /\ <<"new">> \in FileRows
          BY DEF FileRows
        <5> QED BY <5>1 DEF HeldRows
      <4>2. g = [n \in F |-> HeldRows(n)']
        BY <2>1, <3>1
      <4> QED BY <3>1, <4>1, <4>2
    <3>2. CASE j # i
      <4> HIDE DEF Older
      <4>1. \A n \in F : Older(n, asked[j].got[n]) \in FileRows
        BY <1>7, <2>1
      <4>2. g = [n \in F |-> Older(n, asked[j].got[n])]
        BY <2>1, <3>2
      <4> QED BY <3>2, <4>1, <4>2
    <3> QED BY <3>1, <3>2
  <2>3. Then(j) = [asked[j] EXCEPT !.done = done, !.got = g]
    <3> HIDE DEF answer, got
    <3>1. CASE j = i
      BY <3>1
    <3>2. CASE j # i
      <4>1. asked[j] \in FileRequests
        BY <1>3
      <4> QED BY <3>2, <4>1 DEF FileRequests
    <3> QED BY <3>1, <3>2
  <2>4. asked[j] \in FileRequests /\ done \in BOOLEAN
    BY <1>3 DEF FileRequests
  <2>5. done = IF j = i THEN TRUE ELSE asked[j].done
    OBVIOUS
  <2> HIDE DEF g, done, Then
  <2>6. g \in UNION {[E -> FileRows] : E \in SUBSET Files}
    BY <2>1, <2>2
  <2> HIDE DEF F
  <2>7. /\ Then(j) \in FileRequests
        /\ Then(j).op = asked[j].op /\ Then(j).file = asked[j].file /\ Then(j).mixed = asked[j].mixed
        /\ Then(j).got = g /\ Then(j).done = done
    BY <2>3, <2>4, <2>6 DEF FileRequests
  <2> HIDE DEF Older
  <2> QED BY <2>2, <2>5, <2>7 DEF F
<1> HIDE DEF Then
<1>9. /\ asked' \in Seq(FileRequests) /\ DOMAIN asked' = DOMAIN asked
      /\ \A j \in DOMAIN asked : asked'[j] = Then(j) /\ AboutFiles(asked'[j]) = AboutFiles(asked[j])
  <2>1. DOMAIN then = DOMAIN asked /\ \A j \in DOMAIN asked : then[j] = Then(j)
    OBVIOUS
  <2>2. then = [j \in DOMAIN asked |-> then[j]]
    BY <2>1
  <2>3. \A j \in DOMAIN asked : then[j] \in FileRequests
    BY <1>8, <2>1
  <2>4. asked \in Seq(FileRequests)
    BY <1>2 DEF AskedTyped
  <2> HIDE DEF then
  <2>5. then \in Seq(FileRequests)
    BY <2>1, <2>2, <2>3, <2>4, MapTyped
  <2>6. \A j \in DOMAIN asked : AboutFiles(Then(j)) = AboutFiles(asked[j])
    BY <1>8 DEF AboutFiles
  <2> QED BY <1>1, <2>1, <2>5, <2>6
<1>10. AskedTyped'
  <2>1. ASSUME NEW j \in DOMAIN asked PROVE FileRequestOK(asked'[j])
    <3>1. FileRequestOK(asked[j]) /\ asked'[j] = Then(j) /\ AboutFiles(asked'[j]) = AboutFiles(asked[j])
      BY <1>3, <1>9
    <3>2. asked[j].op \in RowOps => asked[j].file \in AboutFiles(asked[j])
      BY DEF AboutFiles, RowOps, WholeOps
    <3>3. ASSUME asked[j].op = "saveFile", Then(j).done PROVE Then(j).got[asked[j].file] # <<>>
      <4>1. CASE j = i
        <5>1. c.file \in onDisk' /\ c.file \in AboutFiles(c)
          BY <1>1, <3>2, <3>3, <4>1 DEF RowOps
        <5> QED BY <1>8, <4>1, <5>1 DEF HeldRows
      <4>2. CASE j # i
        <5>1. /\ asked[j].got[asked[j].file] # <<>> /\ asked[j].got[asked[j].file] \in FileRows
              /\ Then(j).got[asked[j].file] = Older(asked[j].file, asked[j].got[asked[j].file])
          BY <1>3, <1>8, <3>1, <3>2, <3>3, <4>2 DEF FileRequestOK, RowOps
        <5> QED BY <5>1, AgedIs
      <4> QED BY <4>1, <4>2
    <3> QED BY <1>8, <3>1, <3>3 DEF FileRequestOK
  <2> QED BY <1>9, <2>1 DEF AskedTyped, FileRequestOK, AboutFiles
<1>11. OverlapsKnown'
  <2>1. ASSUME NEW j \in DOMAIN asked', NEW k \in DOMAIN asked', j # k
        PROVE  AboutFiles(asked'[j]) \cap AboutFiles(asked'[k]) \subseteq asked'[j].mixed
    <3>1. AboutFiles(asked[j]) \cap AboutFiles(asked[k]) \subseteq asked[j].mixed
      BY <1>2, <1>9, <2>1 DEF OverlapsKnown
    <3>2. asked'[j].mixed = asked[j].mixed
      BY <1>8, <1>9
    <3>3. AboutFiles(asked'[j]) = AboutFiles(asked[j]) /\ AboutFiles(asked'[k]) = AboutFiles(asked[k])
      BY <1>9
    <3> QED BY <3>1, <3>2, <3>3
  <2> QED BY <2>1 DEF OverlapsKnown, AboutFiles
<1> HIDE DEF changed
<1>12. FilesTyped'
  <2>1. \A n \in Files : Older(n, listed[n]) \in FileRows
    BY <1>2, <1>7 DEF FilesTyped
  <2> HIDE DEF Older
  <2>2. listed' \in [Files -> FileRows]
    BY <1>1, <2>1
  <2>3. onDisk' \in SUBSET Files
    BY <1>1, <1>2, <1>4 DEF FilesTyped
  <2>4. doubted' \in SUBSET Files
    BY <1>1, <1>2, DoubtTyped
  <2> QED BY <1>1, <1>2, <2>2, <2>3, <2>4 DEF FilesTyped
<1>13. ASSUME NEW j \in DOMAIN asked' PROVE Sure(asked'[j], onDisk', listed')
  <2>1. ASSUME NEW k \in AboutFiles(asked'[j]) \ asked'[j].mixed
        PROVE  SureOf(asked'[j], k, onDisk', listed'[k])
    <3>1. /\ k \in AboutFiles(asked[j]) \ asked[j].mixed /\ k \in Files
      BY <1>3, <1>8, <1>9, <2>1
    <3>2. SureOf(asked[j], k, onDisk, listed[k])
      BY <1>9, <3>1 DEF FilesInv, Sure
    <3>3. listed'[k] = Older(k, listed[k]) /\ listed[k] \in FileRows
      BY <1>1, <1>2, <3>1 DEF FilesTyped
    <3>4. listed'[k] = <<>> <=> listed[k] = <<>>
      BY <3>3, AgedIs
    <3>5. CASE j = i
      <4>1. asked'[j].done /\ asked'[j].got[k] = HeldRows(k)' /\ asked'[j].op = c.op
        BY <1>8, <1>9, <3>1, <3>5
      <4>2. /\ c.op \in RowOps => k \in changed
            /\ c.op = "deleteFile" => k \notin onDisk'
            /\ c.op \in {"saveFile", "createFile"} => k \in onDisk'
        BY <1>1, <3>1, <3>5 DEF changed, AboutFiles, RowOps, WholeOps
      <4> QED BY <3>2, <3>4, <3>5, <4>1, <4>2 DEF SureOf, HeldRows
    <3>6. CASE j # i
      <4>1. k \notin AboutFiles(c)
        BY <1>2, <1>9, <3>1, <3>6 DEF OverlapsKnown
      <4>2. k \notin changed
        BY <1>4, <4>1
      <4>3. /\ asked'[j].done = asked[j].done /\ asked'[j].op = asked[j].op
            /\ asked'[j].got[k] = asked[j].got[k] /\ listed'[k] = listed[k]
            /\ k \in onDisk' <=> k \in onDisk
        BY <1>6, <1>8, <1>9, <3>1, <3>3, <3>6, <4>2
      <4> QED BY <3>2, <4>3 DEF SureOf
    <3> QED BY <3>5, <3>6
  <2> QED BY <2>1 DEF Sure
<1>14. ASSUME NEW k \in Files PROVE RowKnown(k)'
  <2>1. PendingFile(k)' <=> PendingFile(k)
    BY <1>9 DEF PendingFile, AboutFiles
  <2>2. CASE k \notin changed
    <3>1. listed'[k] = listed[k] /\ HeldRows(k)' = HeldRows(k)
      BY <1>1, <1>6, <2>2 DEF HeldRows
    <3> QED BY <1>1, <2>1, <3>1, RowStays
  <2>3. CASE k \in changed
    <3>1. PendingFile(k)'
      BY <1>4, <2>1, <2>3 DEF PendingFile
    <3>2. listed[k] \in FileRows /\ listed'[k] = Aged(listed[k])
      BY <1>1, <1>2, <2>3 DEF FilesTyped
    <3>3. Len(listed'[k]) = Len(listed[k])
      BY <3>2, AgedIs
    <3>4. CASE Len(listed[k]) <= 1
      BY <3>1, <3>3, <3>4 DEF RowKnown
    <3>5. CASE ~(Len(listed[k]) <= 1)
      <4>1. k \in doubted
        BY <3>5 DEF FilesInv, RowKnown
      <4>2. Len(HeldRows(k)') <= 1
        BY DEF HeldRows
      <4>3. ~RightRows(k)'
        BY <3>3, <3>5, <4>2 DEF RightRows
      <4>4. k \in doubted'
        BY <1>1, <4>1, <4>3 DEF Doubt
      <4> QED BY <4>4 DEF RowKnown
    <3> QED BY <3>4, <3>5
  <2> QED BY <2>2, <2>3
<1> QED BY <1>10, <1>11, <1>12, <1>13, <1>14 DEF FilesInv

\* Of the requests left when `i` is over, each was in flight, and all others still are.
LEMMA FilesLeft ==
    ASSUME AskedTyped, OverlapsKnown, NEW i \in DOMAIN asked, asked' = RemoveAt(asked, i)
    PROVE  /\ AskedTyped' /\ OverlapsKnown'
           /\ \A j \in DOMAIN asked' : \E k \in DOMAIN asked \ {i} : asked'[j] = asked[k]
           /\ \A n \in Files : PendingFile(n) => PendingFile(n)' \/ n \in AboutFiles(asked[i])
<1>1. asked \in Seq(FileRequests) /\ \A j \in DOMAIN asked : FileRequestOK(asked[j])
  BY DEF AskedTyped
<1>2. asked' \in Seq(FileRequests)
  BY <1>1, Removal
<1>3. \A j \in DOMAIN asked' : \E k \in DOMAIN asked \ {i} : asked'[j] = asked[k]
  BY <1>1, Remaining
<1>4. \A k \in DOMAIN asked \ {i} : \E j \in DOMAIN asked' : asked'[j] = asked[k]
  BY <1>1, Remaining
<1>5. \A j \in DOMAIN asked' : FileRequestOK(asked'[j])
  BY <1>1, <1>3
<1>6. AskedTyped'
  BY <1>2, <1>5 DEF AskedTyped, FileRequestOK, AboutFiles
<1>7. ASSUME NEW j \in DOMAIN asked', NEW m \in DOMAIN asked', j # m
      PROVE  AboutFiles(asked'[j]) \cap AboutFiles(asked'[m]) \subseteq asked'[j].mixed
  <2>1. PICK k \in DOMAIN asked \ {i}, n \in DOMAIN asked \ {i} :
          k # n /\ asked'[j] = asked[k] /\ asked'[m] = asked[n]
    BY <1>1, <1>7, RemainingApart
  <2> QED BY <2>1 DEF OverlapsKnown
<1>8. OverlapsKnown'
  BY <1>7 DEF OverlapsKnown, AboutFiles
<1>9. \A n \in Files : PendingFile(n) => PendingFile(n)' \/ n \in AboutFiles(asked[i])
  BY <1>4 DEF PendingFile, AboutFiles
<1> QED BY <1>3, <1>6, <1>8, <1>9

\* An answer that no other request was in flight with is right about its file.
LEMMA LandFileInv ==
    ASSUME FilesInv, NEW i \in DOMAIN asked, LandFile(i)
    PROVE  FilesInv'
<1> DEFINE c == asked[i]
<1>1. /\ c.done
      /\ listed' = [n \in Files |-> IF n \in AboutFiles(c) THEN RowsAfter(c, n) ELSE listed[n]]
      /\ asked' = RemoveAt(asked, i)
      /\ signal' = [signal EXCEPT ![SignalOf[c.op]] = "off"]
      /\ onDisk' = onDisk /\ told' = told /\ Doubt(c.mixed)
  BY DEF LandFile
<1>2. AskedTyped /\ FilesTyped /\ OverlapsKnown
  BY DEF FilesInv
<1>3. /\ c \in FileRequests /\ FileRequestOK(c) /\ c.op \in DOMAIN SignalOf
      /\ c.mixed \in SUBSET Files /\ AboutFiles(c) \in SUBSET Files
  BY <1>2, FileAsked
<1>4. /\ AskedTyped' /\ OverlapsKnown'
      /\ \A j \in DOMAIN asked' : \E k \in DOMAIN asked \ {i} : asked'[j] = asked[k]
      /\ \A n \in Files : PendingFile(n) => PendingFile(n)' \/ n \in AboutFiles(c)
  BY <1>1, <1>2, FilesLeft
<1> HIDE DEF c
<1>5. ASSUME NEW n \in AboutFiles(c) PROVE c.got[n] \in FileRows
  <2>1. c.got \in UNION {[F -> FileRows] : F \in SUBSET Files} /\ DOMAIN c.got = AboutFiles(c)
    BY <1>3 DEF FileRequests, FileRequestOK
  <2> QED BY <2>1
<1>6. ASSUME NEW n \in AboutFiles(c), c.op # "saveFile" PROVE RowsAfter(c, n) \in FileRows
  <2>1. listed[n] \in FileRows /\ c.got[n] \in FileRows /\ <<>> \in FileRows
    BY <1>2, <1>3, <1>5 DEF FilesTyped, FileRows
  <2>2. listed[n] \o c.got[n] \in FileRows
    BY <2>1, ConcatProperties DEF FileRows
  <2> QED BY <1>3, <1>6, <2>1, <2>2 DEF RowsAfter, WholeOps, SignalOf
<1>7. ASSUME NEW n \in AboutFiles(c), c.op = "saveFile", c.got[n] # <<>>
      PROVE  /\ RowsAfter(c, n) \in FileRows /\ Len(RowsAfter(c, n)) = Len(listed[n])
             /\ \A j \in DOMAIN listed[n] : RowsAfter(c, n)[j] = c.got[n][1]
  <2> DEFINE t == [j \in DOMAIN listed[n] |-> c.got[n][1]]
  <2>1. c.got[n][1] \in {"new", "old"} /\ listed[n] \in Seq({"new", "old"})
    BY <1>2, <1>3, <1>5, <1>7, EmptySeq, LenProperties DEF FilesTyped, FileRows
  <2>2. t \in FileRows /\ Len(t) = Len(listed[n])
    BY <2>1, AlikeTyped DEF FileRows
  <2>3. RowsAfter(c, n) = t
    BY <1>7 DEF RowsAfter, WholeOps
  <2> QED BY <2>2, <2>3
<1>8. ASSUME NEW n \in AboutFiles(c) PROVE RowsAfter(c, n) \in FileRows
  <2>1. CASE c.op = "saveFile"
    <3>1. n = c.file
      BY <2>1 DEF AboutFiles, WholeOps
    <3>2. c.got[n] # <<>>
      BY <1>1, <1>3, <2>1, <3>1 DEF FileRequestOK, c
    <3> QED BY <1>7, <2>1, <3>2
  <2> QED BY <1>6, <2>1
<1>9. FilesTyped'
  <2>1. listed' \in [Files -> FileRows]
    <3>1. \A n \in Files : (IF n \in AboutFiles(c) THEN RowsAfter(c, n) ELSE listed[n]) \in FileRows
      BY <1>2, <1>8 DEF FilesTyped
    <3> QED BY <1>1, <3>1 DEF c
  <2>2. signal' \in [SignalNames -> {"off", "on"} \cup Files]
    BY <1>1, <1>2, SignalTyped
  <2>3. doubted' \in SUBSET Files
    BY <1>1, <1>2, <1>3, DoubtTyped DEF c
  <2> QED BY <1>1, <1>2, <2>1, <2>2, <2>3 DEF FilesTyped
<1>10. ASSUME NEW j \in DOMAIN asked' PROVE Sure(asked'[j], onDisk', listed')
  <2>1. PICK k \in DOMAIN asked \ {i} : asked'[j] = asked[k]
    BY <1>4
  <2>2. ASSUME NEW n \in AboutFiles(asked[k]) \ asked[k].mixed
        PROVE  SureOf(asked[k], n, onDisk', listed'[n])
    <3>1. SureOf(asked[k], n, onDisk, listed[n])
      BY <2>2 DEF FilesInv, Sure
    <3>2. n \notin AboutFiles(c) /\ n \in Files
      BY <1>2, <2>2, FileAsked DEF OverlapsKnown, c
    <3>3. listed'[n] = listed[n] /\ onDisk' = onDisk
      BY <1>1, <3>2 DEF c
    <3> QED BY <3>1, <3>3
  <2> QED BY <2>1, <2>2 DEF Sure
<1>11. ASSUME NEW n \in Files PROVE RowKnown(n)'
  <2>1. HeldRows(n)' = HeldRows(n)
    BY <1>1 DEF HeldRows
  <2>2. CASE n \notin AboutFiles(c)
    <3>1. listed'[n] = listed[n] /\ (PendingFile(n) => PendingFile(n)')
      BY <1>1, <1>4, <2>2 DEF c
    <3> QED BY <1>1, <2>1, <3>1, RowStays
  <2>3. CASE n \in AboutFiles(c) /\ (n \in c.mixed \/ n \in doubted)
    <3>1. RightRows(n)' \/ n \in doubted'
      BY <1>1, <2>3 DEF Doubt, c
    <3>2. RightRows(n)' => Len(listed'[n]) <= 1
      BY <2>1, HeldIs DEF RightRows
    <3> QED BY <3>1, <3>2 DEF RowKnown
  <2>4. CASE n \in AboutFiles(c) /\ n \notin c.mixed /\ n \notin doubted
    <3>1. SureOf(c, n, onDisk, listed[n]) /\ c.done /\ Len(listed[n]) <= 1 /\ listed[n] \in FileRows
      BY <1>1, <1>2, <2>4 DEF FilesInv, Sure, RowKnown, FilesTyped, c
    <3>2. listed'[n] = RowsAfter(c, n) /\ c.got[n] = HeldRows(n)
      BY <1>1, <2>4, <3>1 DEF SureOf, HeldRows, c
    <3>3. c.op \in WholeOps => listed'[n] = HeldRows(n)
      BY <3>2 DEF RowsAfter, WholeOps
    <3>4. ASSUME c.op = "saveFile" PROVE listed'[n] = HeldRows(n)
      <4>1. HeldRows(n) = <<"new">> /\ listed[n] # <<>>
        BY <3>1, <3>4, HeldIs DEF SureOf
      <4>2. /\ listed'[n] \in FileRows /\ Len(listed'[n]) = Len(listed[n])
            /\ \A j \in DOMAIN listed[n] : listed'[n][j] = "new"
        <5>1. c.got[n] = <<"new">> /\ c.got[n][1] = "new" /\ c.got[n] # <<>>
          BY <3>2, <4>1
        <5>2. /\ RowsAfter(c, n) \in FileRows /\ Len(RowsAfter(c, n)) = Len(listed[n])
              /\ \A j \in DOMAIN listed[n] : RowsAfter(c, n)[j] = c.got[n][1]
          BY <1>7, <2>4, <3>4, <5>1
        <5> QED BY <3>2, <5>1, <5>2
      <4>3. Len(listed[n]) = 1 /\ DOMAIN listed[n] = {1}
        BY <3>1, <4>1, EmptySeq, LenProperties DEF FileRows
      <4>4. listed'[n] = <<"new">>
        BY <4>2, <4>3, LenProperties DEF FileRows
      <4> QED BY <4>1, <4>4
    <3>5. ASSUME c.op = "deleteFile" PROVE listed'[n] = HeldRows(n)
      <4>1. HeldRows(n) = <<>> /\ listed'[n] = <<>>
        BY <3>1, <3>2, <3>5 DEF SureOf, HeldRows, RowsAfter, WholeOps
      <4> QED BY <4>1
    <3>6. ASSUME c.op = "createFile" PROVE listed'[n] = HeldRows(n)
      <4>1. HeldRows(n) = <<"new">> /\ listed[n] = <<>> /\ listed'[n] = listed[n] \o c.got[n]
        BY <3>1, <3>2, <3>6, HeldIs DEF SureOf, RowsAfter, WholeOps
      <4>2. listed'[n] = <<>> \o <<"new">>
        BY <3>2, <4>1
      <4> QED BY <4>1, <4>2
    <3>7. listed'[n] = HeldRows(n)
      BY <1>3, <3>3, <3>4, <3>5, <3>6 DEF SignalOf, WholeOps
    <3> QED BY <2>1, <3>7, HeldIs DEF RowKnown, RightRows
  <2> QED BY <2>2, <2>3, <2>4
<1> QED BY <1>4, <1>9, <1>10, <1>11 DEF FilesInv

\* A failure puts the banner up for the files it is about.
LEMMA FailFileInv ==
    ASSUME FilesInv, NEW i \in DOMAIN asked, FailFile(i)
    PROVE  FilesInv'
<1> DEFINE c == asked[i]
<1>1. /\ told' = AboutFiles(c) /\ asked' = RemoveAt(asked, i)
      /\ signal' = [signal EXCEPT ![SignalOf[c.op]] = "off"]
      /\ onDisk' = onDisk /\ listed' = listed /\ Doubt(c.mixed)
  BY DEF FailFile
<1>2. AskedTyped /\ FilesTyped /\ OverlapsKnown
  BY DEF FilesInv
<1>3. c.mixed \in SUBSET Files /\ AboutFiles(c) \in SUBSET Files
  BY <1>2, FileAsked
<1>4. /\ AskedTyped' /\ OverlapsKnown'
      /\ \A j \in DOMAIN asked' : \E k \in DOMAIN asked \ {i} : asked'[j] = asked[k]
      /\ \A n \in Files : PendingFile(n) => PendingFile(n)' \/ n \in AboutFiles(c)
  BY <1>1, <1>2, FilesLeft
<1>5. FilesTyped'
  <2>1. signal' \in [SignalNames -> {"off", "on"} \cup Files]
    BY <1>1, <1>2, SignalTyped
  <2>2. doubted' \in SUBSET Files
    BY <1>1, <1>2, <1>3, DoubtTyped
  <2> QED BY <1>1, <1>2, <1>3, <2>1, <2>2 DEF FilesTyped
<1>6. ASSUME NEW j \in DOMAIN asked' PROVE Sure(asked'[j], onDisk', listed')
  BY <1>1, <1>4 DEF FilesInv
<1>7. ASSUME NEW n \in Files PROVE RowKnown(n)'
  <2>1. HeldRows(n)' = HeldRows(n) /\ listed'[n] = listed[n]
    BY <1>1 DEF HeldRows
  <2>2. PendingFile(n) => PendingFile(n)' \/ n \in told'
    BY <1>1, <1>4
  <2> QED BY <1>1, <2>1, <2>2, RowStays
<1> QED BY <1>4, <1>5, <1>6, <1>7 DEF FilesInv

\* Every step at the override files keeps what holds of them,
LEMMA FilesStep ==
    ASSUME FilesInv, FilesNext
    PROVE  FilesInv'
<1>1. /\ DOMAIN SignalOf = RowOps \cup WholeOps /\ "onSave" \in WholeOps
  BY DEF SignalOf, RowOps, WholeOps
<1> QED BY <1>1, AskFilesInv, RefuseInputInv, ServeFileInv, LandFileInv, FailFileInv DEF FilesNext

\* ... and a step of another part leaves it.
LEMMA FilesStay ==
    ASSUME FilesInv, UNCHANGED filesVars
    PROVE  FilesInv'
<1>1. /\ onDisk' = onDisk /\ listed' = listed /\ signal' = signal
      /\ asked' = asked /\ told' = told /\ doubted' = doubted
  BY DEF filesVars
<1>2. /\ FilesTyped' /\ AskedTyped' /\ OverlapsKnown'
      /\ \A i \in DOMAIN asked' : Sure(asked'[i], onDisk', listed')
  BY <1>1 DEF FilesInv, FilesTyped, AskedTyped, OverlapsKnown
<1>3. \A n \in Files : RowKnown(n)'
  BY <1>1 DEF FilesInv, RowKnown, RightRows, HeldRows, PendingFile
<1> QED BY <1>2, <1>3 DEF FilesInv

\* It types them, and a row that is wrong is accounted for.
LEMMA FilesTold == FilesInv => FilesTypeOK /\ FilesShown
<1> SUFFICES ASSUME FilesInv PROVE FilesTypeOK /\ FilesShown
  OBVIOUS
<1>1. \A i \in DOMAIN asked : asked[i].op \in DOMAIN SignalOf /\ asked[i].file \in Files \cup {"every"}
  BY FileAsked DEF FilesInv, FileRequests
<1>2. \A op \in DOMAIN SignalOf : signal[SignalOf[op]] \in {"off", "on"} \cup Files
  BY DEF FilesInv, FilesTyped, SignalNames
<1>3. FilesTypeOK
  BY <1>1, <1>2 DEF FilesTypeOK, FilesInv, FilesTyped, FileRows
<1> QED BY <1>3 DEF FilesShown, FilesInv, RowKnown

-----------------------------------------------------------------------------

\* What always holds of the frontend, whichever part runs.
Inv ==
  /\ OnPage => PageInv
  /\ AtFiles => FilesInv
  /\ SessionTypeOK /\ ProbeAwaited
  /\ BellInv

\* The other parts alone have no session.
LEMMA NoSessionTyped == NoSession => SessionTypeOK /\ ProbeAwaited
BY DEF NoSession, SessionTypeOK, ProbeAwaited, Idle, Kinds, Roles

\* The parts start as they should,
LEMMA InvInit == Init => Inv
<1>1. (NoPage => ~OnPage) /\ (NoFiles => ~AtFiles)
  BY DEF NoPage, OnPage, NoFiles, AtFiles
<1> QED
  BY <1>1, PageInitInv, FilesInits, SessionInitTyped, NoSessionTyped, BellInits DEF Init, Inv

\* ... and each step of one part leaves the others alone.
LEMMA InvStep == Inv /\ [Next]_vars => Inv'
<1> SUFFICES ASSUME Inv, [Next]_vars PROVE Inv'
  OBVIOUS
<1>1. /\ (OnPage /\ PageNext) \/ UNCHANGED pageVars
      /\ (AtFiles /\ FilesNext) \/ UNCHANGED filesVars
      /\ [SessionNext]_sessionVars
      /\ [BellNext]_bellVars
  BY DEF Next, vars
<1>2. (OnPage => PageInv)'
  <2>1. CASE OnPage /\ PageNext
    BY <2>1, PageStep DEF Inv
  <2>2. CASE UNCHANGED pageVars
    BY <2>2, PageStays DEF Inv, OnPage, pageVars
  <2> QED BY <1>1, <2>1, <2>2
<1>3. (AtFiles => FilesInv)'
  <2>1. CASE AtFiles /\ FilesNext
    BY <2>1, FilesStep DEF Inv
  <2>2. CASE UNCHANGED filesVars
    BY <2>2, FilesStay DEF Inv, AtFiles, filesVars
  <2> QED BY <1>1, <2>1, <2>2
<1>4. SessionTypeOK' /\ ProbeAwaited'
  BY <1>1, SessionStepTyped DEF Inv
<1>5. BellInv'
  BY <1>1, BellStep DEF Inv
<1> QED BY <1>2, <1>3, <1>4, <1>5 DEF Inv

\* The inductive invariant: whatever the user clicks and in whichever order requests are
\* served, answered or fail, the handlers of the pages, the list of override files, the guards
\* and interceptor of the session and the bell keep their signals and requests in step.
THEOREM Invariant == Spec => []Inv
BY InvInit, InvStep, PTL DEF Spec

\* What is open, the busy signals, the banners and the requests of every page are those its
\* template and handlers know, and so are those of the override files, of the session and of
\* the bell.
THEOREM FrontendTyped == Spec => []TypeOK
<1>1. Inv => TypeOK
  BY PageTyped, FilesTold, BellTyped DEF Inv, TypeOK
<1> QED BY <1>1, Invariant, PTL

\* No page leaves a spinner turning or a button disabled for a request that is over, and the
\* bell says "restarting" only while the restart is on its way: every handler lowers its
\* signal in its finally block, the reloads it awaits included.
THEOREM NoIdleSpinner == Spec => []SpinnersMeanWork
<1>1. Inv => SpinnersMeanWork
  BY PageWorks DEF Inv, BellInv, SpinnersMeanWork
<1> QED BY <1>1, Invariant, PTL

\* A change whose button is disabled for every row while it runs is not sent again before it,
\* and the reload it awaits, are over, even where two handlers share one busy signal.
THEOREM SentOnce == Spec => []NothingSentTwice
<1>1. Inv => NothingSentTwice
  BY PageSendsOnce DEF Inv, NothingSentTwice
<1> QED BY <1>1, Invariant, PTL

\* What a page shows and the server no longer holds is never left so in silence: the banner
\* of the handler that failed is up where the field is, or a request in flight will set the
\* field, but for the six ways listed in Page that a cell can go wrong.  One of them is the
\* save of fail2ban.ts (onSavePolicy) that succeeds over a form read again meanwhile, another
\* the failure that profile.ts and users.ts write into a form already cancelled.
THEOREM NeverInSilence == Spec => []NothingSilentlyWrong
<1>1. Inv => NothingSilentlyWrong
  BY PageTells DEF Inv, PageInv, NothingSilentlyWrong
<1> QED BY <1>1, Invariant, PTL

\* An override file is listed as it is, or the banner is about it, or a request about it is in
\* flight, but for the files of which two requests overlapped or whose banner was taken down
\* or replaced: saveFile, deleteFile and createFile of rspamd.ts work their answers into the
\* rows the page holds by then, and onSave replaces them all.
THEOREM FilesAccountedFor == Spec => []OverridesShown
<1>1. Inv => OverridesShown
  BY FilesTold DEF Inv, OverridesShown
<1> QED BY <1>1, Invariant, PTL

\* A guarded route is entered only by a user its guard admits, in every behaviour of the
\* session (requireRole, authGuard and guestGuard in auth.guard.ts).
THEOREM GuardsHold == Spec => EnteredWithRole
<1>1. Inv /\ [Next]_vars => [route' # route /\ route' \in DOMAIN Guards
              => roleGrants(user', Guards[route'])]_sessionVars
  <2> SUFFICES ASSUME Inv, [Next]_vars, route' # route, route' \in DOMAIN Guards
               PROVE  roleGrants(user', Guards[route'])
    BY DEF sessionVars
  <2>1. [SessionNext]_sessionVars
    BY DEF Next, vars
  <2> QED BY <2>1, StepEnters DEF Inv
<1> QED BY <1>1, Invariant, PTL DEF Spec, EnteredWithRole

\* The dialog of an expired session is taken down only by a step that leaves no user,
\* whatever the answer to its sign-out ("local state is cleared either way",
\* session-expired-modal.ts).
THEOREM DialogSignsOut == Spec => DialogEndsSignedOut
<1>1. [Next]_vars => [expired /\ ~expired' => user' = "none"]_sessionVars
  <2> SUFFICES ASSUME [Next]_vars, expired, ~expired'
               PROVE  user' = "none"
    BY DEF sessionVars
  <2>1. [SessionNext]_sessionVars
    BY DEF Next, vars
  <2>2. SessionNext
    BY <2>1 DEF sessionVars
  <2> QED BY <2>2, StepSignsOut
<1> QED BY <1>1, PTL DEF Spec, DialogEndsSignedOut
=============================================================================
