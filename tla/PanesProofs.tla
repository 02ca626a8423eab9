---------------------------- MODULE PanesProofs -----------------------------
(***************************************************************************)
(* Theorems about Panes for every set of Subjects and Deck keys and every  *)
(* number of minted ids.                                                   *)
(*                                                                         *)
(* What filters and folds over sequences return; the inductive invariant;  *)
(* how layouts may change (a Pane replaced or new, every Sheet rewritten,  *)
(* Cards that collapse into their slots); each command of the reducer; and *)
(* what the invariant implies.                                             *)
(***************************************************************************)
EXTENDS Panes, LeastNumbers

-----------------------------------------------------------------------------
(* Sequences.                                                              *)

\* A sequence is a function on 1..Len.
LEMMA SeqIs ==
  ASSUME NEW S, NEW s \in Seq(S)
  PROVE  /\ Len(s) \in Nat /\ DOMAIN s = 1..Len(s)
         /\ \A i \in 1..Len(s) : s[i] \in S
         /\ Range(s) \subseteq S
         /\ \A x : x \in Range(s) <=> \E i \in 1..Len(s) : x = s[i]
BY DEF Range

\* What stands where in two sequences, one after the other.
LEMMA ConcatIs ==
  ASSUME NEW S, NEW c \in Seq(S), NEW b \in Seq(S)
  PROVE  /\ c \o b \in Seq(S) /\ Len(c \o b) = Len(c) + Len(b)
         /\ \A k \in 1..(Len(c) + Len(b)) :
               (c \o b)[k] = IF k <= Len(c) THEN c[k] ELSE b[k - Len(c)]
OBVIOUS

\* t is s with e put in at i.
Inserted(t, S, s, i, e) ==
    /\ t \in Seq(S) /\ Len(t) = Len(s) + 1
    /\ \A k \in 1..(Len(s) + 1) :
          t[k] = IF k < i THEN s[k] ELSE IF k = i THEN e ELSE s[k - 1]

\* The shape of a sequence with one member put in.
LEMMA InsertIs ==
  ASSUME NEW S, NEW s \in Seq(S), NEW i \in 1..(Len(s) + 1), NEW e \in S
  PROVE  Inserted(InsertAt(s, i, e), S, s, i, e)
<1> DEFINE a == SubSeq(s, 1, i - 1)
           b == SubSeq(s, i, Len(s))
<1>1. a \in Seq(S) /\ Len(a) = i - 1 /\ \A k \in 1..(i - 1) : a[k] = s[k]
  OBVIOUS
<1>2. b \in Seq(S) /\ Len(b) = Len(s) - i + 1 /\ \A k \in 1..(Len(s) - i + 1) : b[k] = s[i + k - 1]
  OBVIOUS
<1>3. InsertAt(s, i, e) = (a \o <<e>>) \o b
  BY DEF InsertAt
<1> HIDE DEF a, b
<1>4. /\ a \o <<e>> \in Seq(S) /\ Len(a \o <<e>>) = i
      /\ \A k \in 1..i : (a \o <<e>>)[k] = IF k < i THEN s[k] ELSE e
  BY <1>1
<1> DEFINE c == a \o <<e>>
<1> HIDE DEF c
<1>5. /\ c \o b \in Seq(S) /\ Len(c \o b) = Len(s) + 1
      /\ \A k \in 1..(Len(s) + 1) :
            (c \o b)[k] = IF k <= i THEN c[k] ELSE b[k - i]
  <2>0. c \in Seq(S) /\ Len(c) = i
    BY <1>4 DEF c
  <2>1. c \in Seq(S) /\ Len(c) = i /\ b \in Seq(S) /\ Len(c) + Len(b) = Len(s) + 1
    BY <1>2, <2>0
  <2>2. /\ c \o b \in Seq(S) /\ Len(c \o b) = Len(c) + Len(b)
        /\ \A k \in 1..(Len(c) + Len(b)) :
              (c \o b)[k] = IF k <= Len(c) THEN c[k] ELSE b[k - Len(c)]
    BY <2>1, ConcatIs
  <2> QED
    BY <2>1, <2>2
<1>6. \A k \in 1..(Len(s) + 1) : k > i => b[k - i] = s[k - 1]
  BY <1>2
<1>7. \A k \in 1..(Len(s) + 1) :
         (c \o b)[k] = IF k < i THEN s[k] ELSE IF k = i THEN e ELSE s[k - 1]
  BY <1>4, <1>5, <1>6 DEF c
<1>8. Inserted(c \o b, S, s, i, e)
  BY <1>5, <1>7 DEF Inserted
<1> QED
  BY <1>3, <1>8 DEF c

\* What a sequence holds once a member is put in.
LEMMA InsertPicks ==
  ASSUME NEW S, NEW s \in Seq(S), NEW i \in 1..(Len(s) + 1), NEW e \in S
  PROVE  Range(InsertAt(s, i, e)) = Range(s) \cup {e}
<1> DEFINE t == InsertAt(s, i, e)
<1>1. /\ t \in Seq(S) /\ Len(t) = Len(s) + 1
      /\ \A k \in 1..Len(t) : t[k] = IF k < i THEN s[k] ELSE IF k = i THEN e ELSE s[k - 1]
  <2>1. /\ t \in Seq(S) /\ Len(t) = Len(s) + 1
        /\ \A k \in 1..(Len(s) + 1) :
              t[k] = IF k < i THEN s[k] ELSE IF k = i THEN e ELSE s[k - 1]
    <3>1. Inserted(t, S, s, i, e)
      BY InsertIs
    <3> QED
      BY <3>1 DEF Inserted
  <2> HIDE DEF t
  <2> QED
    BY <2>1
<1> HIDE DEF t
<1>2. \A x \in Range(t) : x \in Range(s) \cup {e}
  <2> SUFFICES ASSUME NEW k \in 1..Len(t) PROVE t[k] \in Range(s) \cup {e}
    BY <1>1, SeqIs
  <2>1. k < i => k \in 1..Len(s)
    BY <1>1
  <2>2. k > i => k - 1 \in 1..Len(s)
    BY <1>1
  <2> QED
    BY <1>1, <2>1, <2>2, SeqIs
<1>3. e \in Range(t)
  <2>1. i \in 1..Len(t) /\ t[i] = e
    BY <1>1
  <2> QED
    BY <1>1, <2>1, SeqIs
<1>4. ASSUME NEW k \in 1..Len(s) PROVE s[k] \in Range(t)
  <2>1. CASE k < i
    <3>1. k \in 1..Len(t) /\ t[k] = s[k]
      BY <1>1, <2>1
    <3> QED
      BY <1>1, <3>1, SeqIs
  <2>2. CASE k >= i
    <3>1. k + 1 \in 1..Len(t) /\ ~(k + 1 < i) /\ k + 1 # i /\ k + 1 - 1 = k
      BY <1>1, <2>2
    <3>2. k + 1 \in 1..Len(t) /\ t[k + 1] = s[k]
      BY <1>1, <3>1
    <3> QED
      BY <1>1, <3>2, SeqIs
  <2> QED
    BY <2>1, <2>2
<1>5. \A x \in Range(s) : x \in Range(t)
  BY <1>4, SeqIs
<1> QED
  BY <1>2, <1>3, <1>5 DEF t

\* t is s without its member at i.
Removed(t, S, s, i) ==
    /\ t \in Seq(S) /\ Len(t) = Len(s) - 1
    /\ \A k \in 1..(Len(s) - 1) : t[k] = IF k < i THEN s[k] ELSE s[k + 1]

\* The shape of a sequence with one member taken out.
LEMMA RemoveIs ==
  ASSUME NEW S, NEW s \in Seq(S), NEW i \in 1..Len(s)
  PROVE  Removed(RemoveAt(s, i), S, s, i)
<1> DEFINE a == SubSeq(s, 1, i - 1)
           b == SubSeq(s, i + 1, Len(s))
<1>1. a \in Seq(S) /\ Len(a) = i - 1 /\ \A k \in 1..(i - 1) : a[k] = s[k]
  OBVIOUS
<1>2. b \in Seq(S) /\ Len(b) = Len(s) - i /\ \A k \in 1..(Len(s) - i) : b[k] = s[i + k]
  OBVIOUS
<1>3. RemoveAt(s, i) = a \o b
  BY DEF RemoveAt
<1> HIDE DEF a, b
<1>4. /\ a \o b \in Seq(S) /\ Len(a \o b) = Len(s) - 1
      /\ \A k \in 1..(Len(s) - 1) : (a \o b)[k] = IF k < i THEN a[k] ELSE b[k - i + 1]
  <2>1. a \in Seq(S) /\ b \in Seq(S) /\ Len(a) = i - 1 /\ Len(a) + Len(b) = Len(s) - 1
    BY <1>1, <1>2
  <2>2. /\ a \o b \in Seq(S) /\ Len(a \o b) = Len(a) + Len(b)
        /\ \A k \in 1..(Len(a) + Len(b)) :
              (a \o b)[k] = IF k <= Len(a) THEN a[k] ELSE b[k - Len(a)]
    BY <2>1, ConcatIs
  <2> QED
    BY <2>1, <2>2
<1>5. \A k \in 1..(Len(s) - 1) : k >= i => b[k - i + 1] = s[k + 1]
  BY <1>2
<1>6. \A k \in 1..(Len(s) - 1) : (a \o b)[k] = IF k < i THEN s[k] ELSE s[k + 1]
  BY <1>1, <1>4, <1>5
<1> QED
  BY <1>3, <1>4, <1>6 DEF Removed

\* Where the members of T stand in s, up to j, in their order.
Positions(g, t, s, T, j) ==
    /\ g \in [1..Len(t) -> 1..j]
    /\ \A k \in 1..Len(t) : t[k] = s[g[k]]
    /\ \A k, l \in 1..Len(t) : k < l => g[k] < g[l]
    /\ \A i \in 1..j : s[i] \in T <=> \E k \in 1..Len(t) : g[k] = i

PickedUp(S, s, T, j) == {t \in Seq(S) : \E g : Positions(g, t, s, T, j)}

PickUp(s, T, j, t) == IF s[j] \in T THEN Append(t, s[j]) ELSE t

\* One more member of s is picked up.
LEMMA PickUpStep ==
  ASSUME NEW S, NEW s \in Seq(S), NEW T, NEW j \in 1..Len(s),
         NEW t \in PickedUp(S, s, T, j - 1)
  PROVE  PickUp(s, T, j, t) \in PickedUp(S, s, T, j)
<1>1. t \in Seq(S) /\ s[j] \in S /\ Len(t) \in Nat
  BY DEF PickedUp
<1>2. PICK g : Positions(g, t, s, T, j - 1)
  BY DEF PickedUp
<1>3. /\ \A k \in 1..Len(t) : g[k] \in 1..(j - 1) /\ t[k] = s[g[k]]
      /\ \A k, l \in 1..Len(t) : k < l => g[k] < g[l]
      /\ \A i \in 1..(j - 1) : s[i] \in T <=> \E k \in 1..Len(t) : g[k] = i
  BY <1>2 DEF Positions
<1>4. CASE s[j] \in T
  <2> DEFINE u == Append(t, s[j])
             h == [k \in 1..Len(u) |-> IF k = Len(u) THEN j ELSE g[k]]
  <2>1. /\ u \in Seq(S) /\ Len(u) = Len(t) + 1 /\ u[Len(u)] = s[j]
        /\ \A k \in 1..Len(t) : u[k] = t[k]
    BY <1>1
  <2>2. /\ \A k \in 1..Len(t) : h[k] = g[k]
        /\ h[Len(u)] = j
        /\ DOMAIN h = 1..Len(u)
    BY <1>1, <2>1
  <2>3. \A k \in 1..Len(u) : k = Len(u) \/ k \in 1..Len(t)
    BY <1>1, <2>1
  <2>4. \A k \in 1..Len(u) : h[k] \in 1..j
    BY <1>1, <1>3, <2>2, <2>3
  <2>5. h \in [1..Len(u) -> 1..j]
    BY <2>4
  <2> HIDE DEF u, h
  <2>6. \A k \in 1..Len(u) : u[k] = s[h[k]]
    BY <1>3, <2>1, <2>2, <2>3
  <2>7. \A k, l \in 1..Len(u) : k < l => h[k] < h[l]
    <3> SUFFICES ASSUME NEW k \in 1..Len(u), NEW l \in 1..Len(u), k < l
                 PROVE  h[k] < h[l]
      OBVIOUS
    <3>1. k \in 1..Len(t) /\ h[k] = g[k] /\ g[k] \in 1..(j - 1)
      BY <1>1, <1>3, <2>1, <2>2, <2>3
    <3>2. CASE l = Len(u)
      BY <2>2, <3>1, <3>2
    <3>3. CASE l \in 1..Len(t)
      BY <1>3, <2>2, <3>1, <3>3
    <3> QED
      BY <2>3, <3>2, <3>3
  <2>8. ASSUME NEW i \in 1..j PROVE s[i] \in T <=> \E k \in 1..Len(u) : h[k] = i
    <3>1. Len(u) \in 1..Len(u) /\ \A k \in 1..Len(t) : k \in 1..Len(u)
      BY <1>1, <2>1
    <3>2. CASE i = j
      BY <1>4, <2>2, <3>1, <3>2
    <3>3. CASE i # j
      <4>1. i \in 1..(j - 1)
        BY <3>3
      <4> QED
        BY <1>3, <2>2, <2>3, <3>1, <3>3, <4>1
    <3> QED
      BY <3>2, <3>3
  <2>9. Positions(h, u, s, T, j)
    BY <2>5, <2>6, <2>7, <2>8 DEF Positions
  <2>10. u \in PickedUp(S, s, T, j)
    BY <2>1, <2>9 DEF PickedUp
  <2> QED
    BY <1>4, <2>10 DEF PickUp, u
<1>5. CASE s[j] \notin T
  <2>1. g \in [1..Len(t) -> 1..j]
    BY <1>2 DEF Positions
  <2>2. ASSUME NEW i \in 1..j PROVE s[i] \in T <=> \E k \in 1..Len(t) : g[k] = i
    <3>1. i = j \/ i \in 1..(j - 1)
      OBVIOUS
    <3> QED
      BY <1>3, <1>5, <3>1
  <2>3. Positions(g, t, s, T, j)
    BY <1>3, <2>1, <2>2 DEF Positions
  <2> QED
    BY <1>1, <1>5, <2>3 DEF PickedUp, PickUp
<1> QED
  BY <1>4, <1>5

\* The members of T in s, in their order.
LEMMA ChosenIs ==
  ASSUME NEW S, NEW s \in Seq(S), NEW T
  PROVE  /\ Chosen(s, T) \in Seq(S)
         /\ \E g : Positions(g, Chosen(s, T), s, T, Len(s))
<1> DEFINE n == Len(s)
           Stage == [j \in 0..n |-> PickedUp(S, s, T, j)]
           step == [j \in 1..n |-> [t \in Stage[j - 1] |-> PickUp(s, T, j, t)]]
           Eq(up) == up = [j \in 0..n |-> IF j = 0 THEN <<>> ELSE
                             IF s[j] \in T THEN Append(up[j - 1], s[j]) ELSE up[j - 1]]
<1>1. n \in Nat /\ 0 \in 0..n
  OBVIOUS
<1>2. PICK none : none = <<>>
  OBVIOUS
<1>3. none \in PickedUp(S, s, T, 0)
  <2>1. Positions([k \in 1..0 |-> 0], none, s, T, 0)
    BY <1>2 DEF Positions
  <2> QED
    BY <1>2, <2>1 DEF PickedUp
<1>4. \A j \in 1..n : \A t \in PickedUp(S, s, T, j - 1) :
         PickUp(s, T, j, t) \in PickedUp(S, s, T, j)
  BY PickUpStep
<1>5. \A j \in 0..n : Stage[j] = PickedUp(S, s, T, j)
  OBVIOUS
<1>6. \A j \in 1..n : \A t \in Stage[j - 1] : step[j][t] = PickUp(s, T, j, t)
  BY <1>5
<1> HIDE DEF Stage, step, n
<1>7. /\ none \in Stage[0]
      /\ \A j \in 1..n : \A t \in Stage[j - 1] : step[j][t] \in Stage[j]
  BY <1>1, <1>3, <1>4, <1>5, <1>6
<1>8. PICK f : Runs(f, n, none, Stage, step)
  <2>1. n \in Nat
    BY <1>1
  <2>2. none \in Stage[0]
    BY <1>7
  <2>3. \A j \in 1..n : \A t \in Stage[j - 1] : step[j][t] \in Stage[j]
    BY <1>7
  <2> HIDE DEF Eq
  <2> QED
    BY <2>1, <2>2, <2>3, Iterates
<1>9. \A j \in 0..n : f[j] = IF j = 0 THEN <<>> ELSE PickUp(s, T, j, f[j - 1])
  <2> SUFFICES ASSUME NEW j \in 0..n, j # 0
               PROVE  f[j] = PickUp(s, T, j, f[j - 1])
    BY <1>2, <1>8 DEF Runs
  <2>1. j \in 1..n /\ j - 1 \in 0..n
    BY <1>1
  <2> QED
    BY <1>6, <1>8, <2>1 DEF Runs
<1>10. Eq(f)
  BY <1>8, <1>9 DEF PickUp, Runs
<1> DEFINE up == CHOOSE h : Eq(h)
<1>11. Eq(up)
  <2> HIDE DEF Eq
  <2> QED
    BY <1>10
<1>12. Chosen(s, T) = up[n]
  BY Zenon DEF Chosen, n
<1> HIDE DEF up
<1>13. /\ up[0] = none
       /\ \A j \in 1..n : up[j] = PickUp(s, T, j, up[j - 1])
  <2>1. up[0] = <<>>
    BY <1>1, <1>11
  <2>2. ASSUME NEW j \in 1..n PROVE up[j] = PickUp(s, T, j, up[j - 1])
    <3>1. j \in 0..n /\ j # 0
      BY <1>1
    <3> QED
      BY <1>11, <3>1 DEF PickUp
  <2> QED
    BY <1>2, <2>1, <2>2
<1> DEFINE Good == {j \in 0..n : up[j] \in Stage[j]}
<1>14. \A j \in 0..n : j \in Good
  <2>1. 0 \in Good
    BY <1>1, <1>7, <1>13
  <2>2. \A j \in 1..n : j - 1 \in Good => j \in Good
    <3> SUFFICES ASSUME NEW j \in 1..n, j - 1 \in Good PROVE j \in Good
      OBVIOUS
    <3>1. j \in 0..n /\ up[j - 1] \in Stage[j - 1]
      BY <1>1
    <3>2. up[j] \in Stage[j]
      BY <1>6, <1>7, <1>13, <3>1
    <3> QED
      BY <3>1, <3>2
  <2> HIDE DEF Good
  <2> QED
    BY <1>1, <2>1, <2>2, CountUp
<1>15. up[n] \in PickedUp(S, s, T, n)
  BY <1>1, <1>5, <1>14
<1> QED
  BY <1>12, <1>15 DEF PickedUp, n

-----------------------------------------------------------------------------
(* The inductive invariant.                                                 *)

CardOf(s) == IF s.card = None THEN {} ELSE {s.card.id}
DeckOf(s) == IF s.deck = None THEN {} ELSE {s.deck.id}
SlotsOf(s) == IF s.deck = None THEN {} ELSE CardIds(s.deck)

\* Two Sheets have no id in common.
Apart(s, t) ==
    /\ s.id # t.id
    /\ CardOf(s) \cap CardOf(t) = {}
    /\ DeckOf(s) \cap DeckOf(t) = {}
    /\ SlotsOf(s) \cap SlotsOf(t) = {}

\* What a Sheet names was minted before n.
Known(s, n) == \A id \in {s.id} \cup CardOf(s) \cup DeckOf(s) \cup SlotsOf(s) : id < n

CardsOnce(cards) == \A i, j \in DOMAIN cards : cards[i].id = cards[j].id => i = j

DeckOK(d) == d.front \in CardIds(d) \cup {None} /\ CardsOnce(d.cards)

SheetInv(s, n) ==
    /\ Known(s, n)
    /\ (s.card = None) <=> (s.kind # "Sheet")
    /\ s.deck # None => DeckOK(s.deck)

\* Sheets that are apart, minted before n.
Cast(A, n) ==
    /\ A \subseteq Sheet
    /\ \A s \in A : SheetInv(s, n)
    /\ \A s, t \in A : s # t => Apart(s, t)

\* A Presentation that is a Card of the Sheet t is as its slot has it.
Agrees(card, t) ==
    t.deck # None => \A c \in Range(t.deck.cards) : c.id = card.id => c = card

Agreement(A) == \A s, t \in A : s.card # None => Agrees(s.card, t)

\* All Sheets, also those beneath the Ground.
SheetsIn(p) == Range(p.line) \cup Range(p.covers)
AllSheets(ps) == UNION {SheetsIn(p) : p \in Range(ps)}
IdsIn(p) == {s.id : s \in SheetsIn(p)}

Single(sheets) == \A i, j \in DOMAIN sheets : sheets[i].id = sheets[j].id => i = j

PaneOK(p) ==
    /\ p.line # <<>> /\ LineOK(p.line)
    /\ \A c \in Range(p.covers) : c.kind = "Sheet"
    /\ Single(p.line) /\ Single(p.covers)
    /\ \A s \in Range(p.line), t \in Range(p.covers) : s.id # t.id

\* The Panes stand apart, and each is in order.
Frame(ps, n) ==
    /\ ps \in Seq(Pane)
    /\ \E p \in Range(ps) : Rooted(p)
    /\ \A i \in DOMAIN ps : PaneOK(ps[i]) /\ ps[i].id < n
    /\ \A i, j \in DOMAIN ps :
          i # j => ps[i].id # ps[j].id /\ IdsIn(ps[i]) \cap IdsIn(ps[j]) = {}

\* What a Rooted line selects is in no Deck: a Card is dealt to be shown by a
\* Cover or by the Ground of a Floating Pane.
RootedApart(ps) ==
    \A p \in Range(ps) : Rooted(p) =>
        \A s \in Range(p.line), t \in AllSheets(ps) : CardOf(s) \cap SlotsOf(t) = {}

Sound(ps, n) == Frame(ps, n) /\ Cast(AllSheets(ps), n) /\ RootedApart(ps)

LayoutInv(ps, n) == Sound(ps, n) /\ Agreement(AllSheets(ps))

HeldInv ==
    /\ held.card \in Presentation /\ held.card.id < nextId
    /\ held.origin \in {"Deck", "Cover", "FloatingGround", "RootedGround", "Fresh"}
    /\ held = [card |-> held.card, origin |-> held.origin, panes |-> held.panes,
               active |-> held.active, nextId |-> held.nextId]
    /\ LayoutInv(held.panes, nextId)
    /\ held.active \in PaneIds(held.panes)
    /\ \A t \in AllSheets(panes) : held.card.id \notin CardOf(t) /\ Agrees(held.card, t)

IInv ==
    /\ nextId \in Nat
    /\ LayoutInv(panes, nextId)
    /\ active \in PaneIds(panes)
    /\ ~Free => HeldInv
    /\ CheckpointKeepsUp

-----------------------------------------------------------------------------
(* Sheets.                                                                  *)

\* No kind of thing is None.
LEMMA NoneApart ==
  /\ None \notin Nat /\ None \notin Presentation /\ None \notin Deck
  /\ None \notin Subjects /\ None \notin Keys
BY PanesAssumption

\* What a Sheet names is numbered.
LEMMA SheetIs ==
  ASSUME NEW s \in Sheet
  PROVE  /\ s.id \in Nat /\ CardOf(s) \subseteq Nat /\ DeckOf(s) \subseteq Nat
         /\ SlotsOf(s) \subseteq Nat
         /\ s.card \in Presentation \cup {None} /\ s.deck \in Deck \cup {None}
         /\ s.deck # None => /\ s.deck \in Deck /\ s.deck.id \in Nat
                             /\ s.deck.cards \in Seq(Presentation)
                             /\ Range(s.deck.cards) \subseteq Presentation
         /\ s.card # None => s.card.id \in Nat
<1>1. /\ s.id \in Nat /\ s.card \in Presentation \cup {None} /\ s.deck \in Deck \cup {None}
  BY DEF Sheet
<1>2. s.card # None => s.card.id \in Nat
  BY <1>1 DEF Presentation
<1>3. s.deck # None => /\ s.deck \in Deck /\ s.deck.id \in Nat
                       /\ s.deck.cards \in Seq(Presentation)
  BY <1>1 DEF Deck
<1>4. s.deck # None => Range(s.deck.cards) \subseteq Presentation
  BY <1>3, SeqIs
<1>5. s.deck # None => CardIds(s.deck) \subseteq Nat
  BY <1>4 DEF CardIds, Presentation
<1> QED
  BY <1>1, <1>2, <1>3, <1>4, <1>5 DEF CardOf, DeckOf, SlotsOf

\* To stand apart is mutual.
LEMMA ApartBoth ==
  ASSUME NEW s, NEW t, Apart(s, t)
  PROVE  Apart(t, s)
BY DEF Apart

\* Fewer Sheets, and a later counter.
LEMMA CastWithin ==
  ASSUME NEW A, NEW B, B \subseteq A, NEW n \in Nat, NEW m \in Nat, n <= m, Cast(A, n)
  PROVE  Cast(B, m)
<1>1. ASSUME NEW s \in B PROVE SheetInv(s, m)
  <2>1. s \in Sheet /\ SheetInv(s, n)
    BY DEF Cast
  <2>2. Known(s, m)
    <3>1. {s.id} \cup CardOf(s) \cup DeckOf(s) \cup SlotsOf(s) \subseteq Nat
      BY <2>1, SheetIs
    <3> QED
      BY <2>1, <3>1 DEF SheetInv, Known
  <2> QED
    BY <2>1, <2>2 DEF SheetInv
<1> QED
  BY <1>1 DEF Cast

\* Sheets that come new, with Cards that no Sheet shows, and no Deck.
Guests(G, A, n, m) ==
    /\ G \subseteq Sheet
    /\ \A g \in G : /\ g.deck = None /\ n <= g.id /\ g.id < m
                    /\ (g.card = None) <=> (g.kind # "Sheet")
                    /\ \A id \in CardOf(g) : id < m
                    /\ \A s \in A : /\ CardOf(g) \cap CardOf(s) = {}
                                    /\ g.card # None => Agrees(g.card, s)
    /\ \A g, h \in G : g # h => g.id # h.id /\ CardOf(g) \cap CardOf(h) = {}

\* Sheets stay apart when guests join them.
LEMMA CastJoined ==
  ASSUME NEW A, NEW G, NEW n \in Nat, NEW m \in Nat, n <= m, Cast(A, n), Guests(G, A, n, m)
  PROVE  Cast(A \cup G, m)
<1>1. Cast(A, m)
  BY CastWithin
<1>2. A \cup G \subseteq Sheet
  BY DEF Cast, Guests
<1>3. ASSUME NEW g \in G PROVE SheetInv(g, m) /\ DeckOf(g) = {} /\ SlotsOf(g) = {}
  BY DEF Guests, SheetInv, Known, DeckOf, SlotsOf
<1>4. ASSUME NEW g \in G, NEW s \in A PROVE Apart(g, s)
  <2>1. s \in Sheet /\ s.id \in Nat /\ s.id < n
    BY SheetIs DEF Cast, SheetInv, Known
  <2>2. g \in Sheet /\ g.id \in Nat /\ n <= g.id /\ CardOf(g) \cap CardOf(s) = {}
    BY SheetIs DEF Guests
  <2> QED
    BY <1>3, <2>1, <2>2 DEF Apart
<1>5. ASSUME NEW g \in G, NEW h \in G, g # h PROVE Apart(g, h)
  BY <1>3, <1>5 DEF Guests, Apart
<1>6. ASSUME NEW s \in A \cup G, NEW t \in A \cup G, s # t PROVE Apart(s, t)
  <2>1. CASE s \in G /\ t \in G
    BY <1>5, <1>6, <2>1
  <2>2. CASE s \in G /\ t \in A
    BY <1>4, <2>2
  <2>3. CASE s \in A /\ t \in G
    BY <1>4, <2>3, ApartBoth
  <2>4. CASE s \in A /\ t \in A
    BY <1>1, <1>6, <2>4 DEF Cast
  <2> QED
    BY <1>6, <2>1, <2>2, <2>3, <2>4
<1>7. ASSUME NEW s \in A \cup G PROVE SheetInv(s, m)
  BY <1>1, <1>3 DEF Cast
<1> QED
  BY <1>2, <1>6, <1>7 DEF Cast

\* A guest's Card is what the slots say, and has none of its own.
LEMMA AgreementJoined ==
  ASSUME NEW A, NEW G, NEW n, NEW m, Agreement(A), Guests(G, A, n, m)
  PROVE  Agreement(A \cup G)
<1>1. ASSUME NEW g \in G, NEW card PROVE Agrees(card, g)
  BY DEF Guests, Agrees
<1>2. \A s \in A \cup G, t \in A : s.card # None => Agrees(s.card, t)
  BY DEF Guests, Agreement
<1> QED
  BY <1>1, <1>2 DEF Agreement

-----------------------------------------------------------------------------
(* Layouts.                                                                 *)

\* What a layout's Sheets are.
LEMMA SheetsAre ==
  ASSUME NEW ps \in Seq(Pane)
  PROVE  /\ Len(ps) \in Nat /\ DOMAIN ps = 1..Len(ps)
         /\ \A i \in DOMAIN ps : ps[i] \in Pane
         /\ \A p : p \in Range(ps) <=> \E i \in DOMAIN ps : p = ps[i]
         /\ \A s : s \in AllSheets(ps) <=> \E i \in DOMAIN ps : s \in SheetsIn(ps[i])
<1>1. /\ Len(ps) \in Nat /\ DOMAIN ps = 1..Len(ps)
      /\ \A i \in DOMAIN ps : ps[i] \in Pane
  OBVIOUS
<1>2. \A p : p \in Range(ps) <=> \E i \in DOMAIN ps : p = ps[i]
  BY DEF Range
<1>3. \A s : s \in AllSheets(ps) <=> \E p \in Range(ps) : s \in SheetsIn(p)
  BY DEF AllSheets
<1> QED
  BY <1>1, <1>2, <1>3

\* The parts of a Pane.
LEMMA PaneIs ==
  ASSUME NEW p \in Pane
  PROVE  /\ p.id \in Nat /\ p.line \in Seq(Sheet) /\ p.covers \in Seq(Sheet)
         /\ p = [id |-> p.id, line |-> p.line, covers |-> p.covers]
         /\ SheetsIn(p) \subseteq Sheet /\ IdsIn(p) \subseteq Nat
<1>1. /\ p.id \in Nat /\ p.line \in Seq(Sheet) /\ p.covers \in Seq(Sheet)
      /\ p = [id |-> p.id, line |-> p.line, covers |-> p.covers]
  BY DEF Pane
<1>2. SheetsIn(p) \subseteq Sheet
  BY <1>1, SeqIs DEF SheetsIn
<1>3. \A s \in Sheet : s.id \in Nat
  BY DEF Sheet
<1> QED
  BY <1>1, <1>2, <1>3 DEF IdsIn

\* A Sheet has one place: two Sheets of a layout with one id are the same.
LEMMA SameSheet ==
  ASSUME NEW A, NEW n, Cast(A, n), NEW s \in A, NEW t \in A, s.id = t.id
  PROVE  s = t
BY DEF Cast, Apart

\* The Sheets of q are those of the Pane it replaces, or come as guests.
Replaces(q, ps, i, G, n, m) ==
    /\ i \in DOMAIN ps /\ q \in Pane /\ PaneOK(q) /\ q.id = ps[i].id
    /\ Rooted(q) <=> Rooted(ps[i])
    /\ Guests(G, AllSheets(ps), n, m)
    /\ SheetsIn(q) \subseteq SheetsIn(ps[i]) \cup G
    /\ \A s \in Range(q.line) : \/ s \in Range(ps[i].line)
                                \/ \A id \in CardOf(s) : n <= id

With(ps, i, q) == [ps EXCEPT ![i] = q]

\* The Sheets are then those of the new Pane and of the others.
LEMMA SheetsWith ==
  ASSUME NEW ps \in Seq(Pane), NEW i \in DOMAIN ps, NEW q \in Pane
  PROVE  \A s \in AllSheets(With(ps, i, q)) :
            s \in SheetsIn(q) \/ \E j \in DOMAIN ps : j # i /\ s \in SheetsIn(ps[j])
<1> DEFINE qs == With(ps, i, q)
<1>1. /\ qs \in Seq(Pane) /\ DOMAIN qs = DOMAIN ps /\ qs[i] = q
      /\ \A j \in DOMAIN ps : j # i => qs[j] = ps[j]
  BY DEF With
<1> HIDE DEF qs
<1>2. \A s \in AllSheets(qs) : s \in SheetsIn(q) \/ \E j \in DOMAIN ps : j # i /\ s \in SheetsIn(ps[j])
  BY <1>1, SheetsAre
<1> QED
  BY <1>2 DEF qs

\* A layout stays in order when a Pane that is gives way to one that fits.
LEMMA PaneChanged ==
  ASSUME NEW n \in Nat, NEW m \in Nat, n <= m, NEW ps, LayoutInv(ps, n),
         NEW i, NEW q, NEW G, Replaces(q, ps, i, G, n, m), NEW qs, qs = With(ps, i, q)
  PROVE  LayoutInv(qs, m)
<1> DEFINE A == AllSheets(ps)
           B == AllSheets(qs)
<1> USE DEF Replaces
<1>1. ps \in Seq(Pane) /\ Frame(ps, n) /\ Cast(A, n) /\ RootedApart(ps) /\ Agreement(A)
  BY DEF LayoutInv, Sound, Frame
<1>2. /\ qs \in Seq(Pane) /\ DOMAIN qs = DOMAIN ps /\ qs[i] = q
      /\ \A j \in DOMAIN ps : j # i => qs[j] = ps[j]
  BY <1>1 DEF With
<1>3. \A s \in B : s \in SheetsIn(q) \/ \E j \in DOMAIN ps : j # i /\ s \in SheetsIn(ps[j])
  BY <1>2, SheetsAre
<1>4. B \subseteq A \cup G
  BY <1>1, <1>3, SheetsAre
<1>5. Cast(A \cup G, m) /\ Agreement(A \cup G)
  BY <1>1, CastJoined, AgreementJoined
<1> HIDE DEF B
<1>6. Cast(B, m)
  BY <1>4, <1>5, CastWithin
<1>7. Agreement(B)
  BY <1>4, <1>5 DEF Agreement
<1>8. Frame(qs, m)
  <2>1. PICK p \in Range(ps) : Rooted(p)
    BY <1>1 DEF Frame
  <2>2. PICK k \in DOMAIN ps : p = ps[k]
    BY <1>1, SheetsAre
  <2>3. \E r \in Range(qs) : Rooted(r)
    <3>1. qs[k] \in Range(qs) /\ Rooted(qs[k])
      BY <1>2, <2>1, <2>2, SheetsAre
    <3> QED
      BY <3>1
  <2>4. \A j \in DOMAIN qs : PaneOK(qs[j]) /\ qs[j].id < m
    <3>1. \A j \in DOMAIN ps : PaneOK(ps[j]) /\ ps[j].id < n /\ ps[j].id \in Nat
      BY <1>1, SheetsAre, PaneIs DEF Frame
    <3> QED
      BY <1>2, <3>1
  <2>5. ASSUME NEW j \in DOMAIN ps, j # i PROVE ps[j].id # q.id /\ IdsIn(ps[j]) \cap IdsIn(q) = {}
    <3>1. IdsIn(ps[j]) \cap IdsIn(ps[i]) = {} /\ ps[j].id # ps[i].id
      BY <1>1, <2>5 DEF Frame
    <3>2. \A s \in SheetsIn(ps[j]) : s \in Sheet /\ s.id \in Nat /\ s.id < n
      BY <1>1, SheetsAre, SheetIs DEF Cast, SheetInv, Known
    <3>3. \A s \in SheetsIn(q) : s.id \in IdsIn(ps[i]) \/ (s.id \in Nat /\ n <= s.id)
      BY SheetIs DEF Guests, IdsIn
    <3> QED
      BY <3>1, <3>2, <3>3 DEF IdsIn
  <2>6. \A j, k2 \in DOMAIN qs :
           j # k2 => qs[j].id # qs[k2].id /\ IdsIn(qs[j]) \cap IdsIn(qs[k2]) = {}
    <3>1. \A j, k2 \in DOMAIN ps :
             j # k2 => ps[j].id # ps[k2].id /\ IdsIn(ps[j]) \cap IdsIn(ps[k2]) = {}
      BY <1>1 DEF Frame
    <3> QED
      BY <1>2, <2>5, <3>1
  <2> QED
    BY <1>2, <2>3, <2>4, <2>6 DEF Frame
<1>9. RootedApart(qs)
  <2> SUFFICES ASSUME NEW p \in Range(qs), Rooted(p), NEW s \in Range(p.line), NEW t \in B
               PROVE  CardOf(s) \cap SlotsOf(t) = {}
    BY DEF RootedApart, B
  <2>1. PICK j \in DOMAIN ps : p = qs[j]
    BY <1>2, SheetsAre
  <2>2. CASE t \in G
    BY <2>2 DEF Guests, SlotsOf
  <2>3. CASE t \in A
    <3>1. \A r \in Range(ps) : Rooted(r) =>
             \A s1 \in Range(r.line) : CardOf(s1) \cap SlotsOf(t) = {}
      BY <1>1, <2>3 DEF RootedApart
    <3>2. ps[j] \in Range(ps) /\ Rooted(ps[j])
      BY <1>1, <1>2, <2>1, SheetsAre
    <3>3. \A id \in SlotsOf(t) : id \in Nat /\ id < n
      BY <1>1, <2>3, SheetIs DEF Cast, SheetInv, Known
    <3>4. s \in Range(ps[j].line) \/ \A id \in CardOf(s) : n <= id
      BY <1>2, <2>1
    <3> QED
      BY <3>1, <3>2, <3>3, <3>4
  <2> QED
    BY <1>4, <2>2, <2>3
<1> QED
  BY <1>3, <1>6, <1>7, <1>8, <1>9 DEF LayoutInv, Sound, B

\* A Pane that comes, of guests.
NewPane(q, ps, G, n, m) ==
    /\ q \in Pane /\ PaneOK(q) /\ n <= q.id /\ q.id < m
    /\ Guests(G, AllSheets(ps), n, m) /\ SheetsIn(q) \subseteq G
    /\ Rooted(q) => \A s \in Range(q.line) : CardOf(s) = {}

\* A layout stays in order when a Pane of guests is put in.
LEMMA PaneInserted ==
  ASSUME NEW n \in Nat, NEW m \in Nat, n <= m, NEW ps, LayoutInv(ps, n),
         NEW i \in 1..(Len(ps) + 1), NEW q, NEW G, NewPane(q, ps, G, n, m)
  PROVE  LayoutInv(InsertAt(ps, i, q), m)
<1> USE DEF NewPane
<1> DEFINE qs == InsertAt(ps, i, q)
           A == AllSheets(ps)
           B == AllSheets(qs)
<1>1. ps \in Seq(Pane) /\ Frame(ps, n) /\ Cast(A, n) /\ RootedApart(ps) /\ Agreement(A)
  BY DEF LayoutInv, Sound, Frame
<1>2. /\ qs \in Seq(Pane) /\ Len(qs) = Len(ps) + 1
      /\ \A k \in 1..(Len(ps) + 1) :
            qs[k] = IF k < i THEN ps[k] ELSE IF k = i THEN q ELSE ps[k - 1]
  <2>1. ps \in Seq(Pane) /\ i \in 1..(Len(ps) + 1) /\ q \in Pane
    BY <1>1
  <2>2. Inserted(qs, Pane, ps, i, q)
    BY <2>1, InsertIs
  <2> QED
    BY <2>2 DEF Inserted
<1>3. Range(qs) = Range(ps) \cup {q}
  BY <1>1, InsertPicks
<1> HIDE DEF qs
<1>4. B \subseteq A \cup G
  BY <1>3 DEF AllSheets
<1>5. Cast(A \cup G, m) /\ Agreement(A \cup G)
  BY <1>1, CastJoined, AgreementJoined
<1>6. Cast(B, m)
  BY <1>4, <1>5, CastWithin
<1>7. Agreement(B)
  BY <1>4, <1>5 DEF Agreement
<1> DEFINE old(k) == IF k < i THEN k ELSE k - 1
<1>8. /\ DOMAIN qs = 1..(Len(ps) + 1) /\ DOMAIN ps = 1..Len(ps) /\ Len(ps) \in Nat
      /\ i \in DOMAIN qs /\ qs[i] = q
      /\ \A k \in DOMAIN qs : k # i => old(k) \in DOMAIN ps /\ qs[k] = ps[old(k)]
      /\ \A j, k \in DOMAIN qs : j # i /\ k # i /\ j # k => old(j) # old(k)
  <2>1. DOMAIN qs = 1..(Len(ps) + 1) /\ DOMAIN ps = 1..Len(ps) /\ Len(ps) \in Nat
    BY <1>1, <1>2, SheetsAre
  <2>2. i \in DOMAIN qs /\ qs[i] = q
    BY <1>2, <2>1
  <2>3. ASSUME NEW k \in DOMAIN qs, k # i PROVE old(k) \in DOMAIN ps /\ qs[k] = ps[old(k)]
    <3>1. qs[k] = IF k < i THEN ps[k] ELSE IF k = i THEN q ELSE ps[k - 1]
      BY <1>2, <2>1
    <3>2. k \in 1..(Len(ps) + 1) /\ i \in 1..(Len(ps) + 1) /\ Len(ps) \in Nat
      BY <2>1
    <3> QED
      BY <2>1, <2>3, <3>1, <3>2
  <2>4. ASSUME NEW j \in DOMAIN qs, NEW k \in DOMAIN qs, j # i, k # i, j # k
        PROVE  old(j) # old(k)
    <3>1. j \in Int /\ k \in Int /\ i \in Int
      BY <2>1
    <3> QED
      BY <2>4, <3>1
  <2> QED
    BY <2>1, <2>2, <2>3, <2>4
<1> HIDE DEF old
<1>9. Frame(qs, m)
  <2>1. \E r \in Range(qs) : Rooted(r)
    BY <1>1, <1>3 DEF Frame
  <2>2. ASSUME NEW k \in DOMAIN qs PROVE PaneOK(qs[k]) /\ qs[k].id < m
    <3>1. \A j \in DOMAIN ps : PaneOK(ps[j]) /\ ps[j].id < n /\ ps[j].id \in Nat
      BY <1>1, SheetsAre, PaneIs DEF Frame
    <3>2. \A j \in DOMAIN ps : PaneOK(ps[j]) /\ ps[j].id < m
      BY <3>1
    <3> QED
      BY <1>8, <3>2
  <2>3. ASSUME NEW j \in DOMAIN ps PROVE ps[j].id # q.id /\ IdsIn(ps[j]) \cap IdsIn(q) = {}
    <3>1. ps[j].id \in Nat /\ ps[j].id < n /\ q.id \in Nat
      BY <1>1, SheetsAre, PaneIs DEF Frame
    <3>2. \A s \in SheetsIn(ps[j]) : s \in Sheet /\ s.id \in Nat /\ s.id < n
      BY <1>1, SheetsAre, SheetIs DEF Cast, SheetInv, Known
    <3>3. \A s \in SheetsIn(q) : s.id \in Nat /\ n <= s.id
      BY SheetIs DEF Guests
    <3> QED
      BY <3>1, <3>2, <3>3 DEF IdsIn
  <2>4. ASSUME NEW j \in DOMAIN qs, NEW k \in DOMAIN qs, j # k
        PROVE  qs[j].id # qs[k].id /\ IdsIn(qs[j]) \cap IdsIn(qs[k]) = {}
    <3>1. CASE j = i
      BY <1>8, <2>3, <2>4, <3>1
    <3>2. CASE k = i
      BY <1>8, <2>3, <2>4, <3>2
    <3>3. CASE j # i /\ k # i
      BY <1>1, <1>8, <2>4, <3>3 DEF Frame
    <3> QED
      BY <3>1, <3>2, <3>3
  <2> QED
    BY <1>2, <2>1, <2>2, <2>4 DEF Frame
<1>10. RootedApart(qs)
  <2> SUFFICES ASSUME NEW p \in Range(qs), Rooted(p), NEW s \in Range(p.line), NEW t \in B
               PROVE  CardOf(s) \cap SlotsOf(t) = {}
    BY DEF RootedApart
  <2>1. CASE t \in G
    BY <2>1 DEF Guests, SlotsOf
  <2>2. CASE t \in A /\ p \in Range(ps)
    BY <1>1, <2>2 DEF RootedApart
  <2>3. CASE p = q
    BY <2>3
  <2> QED
    BY <1>3, <1>4, <2>1, <2>2, <2>3
<1> QED
  BY <1>6, <1>7, <1>9, <1>10 DEF LayoutInv, Sound, qs

\* A Floating Pane goes.
LEMMA PaneRemoved ==
  ASSUME NEW n \in Nat, NEW ps, LayoutInv(ps, n), NEW i \in DOMAIN ps, ~Rooted(ps[i])
  PROVE  /\ LayoutInv(RemoveAt(ps, i), n)
         /\ \A s \in AllSheets(RemoveAt(ps, i)) :
               \E j \in DOMAIN ps : j # i /\ s \in SheetsIn(ps[j])
<1> DEFINE qs == RemoveAt(ps, i)
           A == AllSheets(ps)
           B == AllSheets(qs)
           old(k) == IF k < i THEN k ELSE k + 1
<1>1. ps \in Seq(Pane) /\ Frame(ps, n) /\ Cast(A, n) /\ RootedApart(ps) /\ Agreement(A)
  BY DEF LayoutInv, Sound, Frame
<1>2. DOMAIN ps = 1..Len(ps) /\ Len(ps) \in Nat /\ i \in 1..Len(ps)
  BY <1>1, SheetsAre
<1>3. /\ qs \in Seq(Pane) /\ Len(qs) = Len(ps) - 1
      /\ \A k \in 1..(Len(ps) - 1) : qs[k] = IF k < i THEN ps[k] ELSE ps[k + 1]
  <2>1. Removed(qs, Pane, ps, i)
    BY <1>1, <1>2, RemoveIs
  <2> QED
    BY <2>1 DEF Removed
<1> HIDE DEF qs
<1>4. /\ DOMAIN qs = 1..(Len(ps) - 1)
      /\ \A k \in DOMAIN qs : old(k) \in DOMAIN ps /\ old(k) # i /\ qs[k] = ps[old(k)]
      /\ \A j, k \in DOMAIN qs : j # k => old(j) # old(k)
      /\ \A j \in DOMAIN ps : j # i => \E k \in DOMAIN qs : old(k) = j
  <2>1. DOMAIN qs = 1..(Len(ps) - 1)
    BY <1>2, <1>3, SheetsAre
  <2>2. ASSUME NEW k \in DOMAIN qs
        PROVE  old(k) \in DOMAIN ps /\ old(k) # i /\ qs[k] = ps[old(k)]
    <3>1. k \in 1..(Len(ps) - 1) /\ qs[k] = IF k < i THEN ps[k] ELSE ps[k + 1]
      BY <1>3, <2>1
    <3> QED
      BY <1>2, <3>1
  <2>3. ASSUME NEW j \in DOMAIN qs, NEW k \in DOMAIN qs, j # k PROVE old(j) # old(k)
    <3>1. j \in Int /\ k \in Int /\ i \in Int
      BY <1>2, <2>1
    <3> QED
      BY <2>3, <3>1
  <2>4. ASSUME NEW j \in DOMAIN ps, j # i PROVE \E k \in DOMAIN qs : old(k) = j
    <3>1. CASE j < i
      <4>1. j \in DOMAIN qs /\ old(j) = j
        BY <1>2, <2>1, <3>1
      <4> QED
        BY <4>1
    <3>2. CASE j > i
      <4>1. j - 1 \in DOMAIN qs /\ old(j - 1) = j
        BY <1>2, <2>1, <3>2
      <4> QED
        BY <4>1
    <3> QED
      BY <1>2, <2>4, <3>1, <3>2
  <2> QED
    BY <2>1, <2>2, <2>3, <2>4
<1> HIDE DEF old
<1>5. \A s \in B : \E j \in DOMAIN ps : j # i /\ s \in SheetsIn(ps[j])
  BY <1>3, <1>4, SheetsAre
<1>6. B \subseteq A
  BY <1>1, <1>5, SheetsAre
<1>7. Cast(B, n) /\ Agreement(B)
  BY <1>1, <1>6, CastWithin DEF Agreement
<1>8. Range(qs) \subseteq Range(ps)
  BY <1>1, <1>3, <1>4, SheetsAre
<1>9. Frame(qs, n)
  <2>1. PICK j \in DOMAIN ps : Rooted(ps[j])
    BY <1>1, SheetsAre DEF Frame
  <2>2. PICK k \in DOMAIN qs : old(k) = j
    BY <1>4, <2>1
  <2>3. \E r \in Range(qs) : Rooted(r)
    <3>1. qs[k] \in Range(qs) /\ Rooted(qs[k])
      BY <1>3, <1>4, <2>1, <2>2, SheetsAre
    <3> QED
      BY <3>1
  <2>4. \A k2 \in DOMAIN qs : PaneOK(qs[k2]) /\ qs[k2].id < n
    BY <1>1, <1>4 DEF Frame
  <2>5. \A j2, k2 \in DOMAIN qs :
           j2 # k2 => qs[j2].id # qs[k2].id /\ IdsIn(qs[j2]) \cap IdsIn(qs[k2]) = {}
    BY <1>1, <1>4 DEF Frame
  <2> QED
    BY <1>3, <2>3, <2>4, <2>5 DEF Frame
<1>10. RootedApart(qs)
  BY <1>1, <1>6, <1>8 DEF RootedApart
<1> QED
  BY <1>5, <1>7, <1>9, <1>10 DEF LayoutInv, Sound, qs

-----------------------------------------------------------------------------
(* Every Sheet of a layout, rewritten.                                      *)

MappedTo(sheets, f) == [j \in DOMAIN sheets |-> f[sheets[j]]]

MappedBy(ps, f) ==
    [i \in DOMAIN ps |-> [ps[i] EXCEPT !.line = MappedTo(@, f), !.covers = MappedTo(@, f)]]

\* What a rewriting keeps.
Keeps(A, f, n, m) ==
    /\ f \in [A -> Sheet]
    /\ \A s \in A : /\ f[s].id = s.id /\ f[s].kind = s.kind
                    /\ CardOf(f[s]) = CardOf(s)
                    /\ SheetInv(f[s], m)
                    /\ \A id \in SlotsOf(f[s]) : id \in SlotsOf(s) \/ n <= id
    /\ \A s, t \in A : s # t => /\ DeckOf(f[s]) \cap DeckOf(f[t]) = {}
                                /\ SlotsOf(f[s]) \cap SlotsOf(f[t]) = {}

\* The shape of Sheets that are rewritten one by one.
LEMMA MappedToIs ==
  ASSUME NEW sheets \in Seq(Sheet), NEW f, \A s \in Range(sheets) : f[s] \in Sheet
  PROVE  /\ MappedTo(sheets, f) \in Seq(Sheet)
         /\ DOMAIN MappedTo(sheets, f) = DOMAIN sheets
         /\ Len(MappedTo(sheets, f)) = Len(sheets)
         /\ \A j \in DOMAIN sheets : MappedTo(sheets, f)[j] = f[sheets[j]]
         /\ \A t : t \in Range(MappedTo(sheets, f)) <=> \E s \in Range(sheets) : t = f[s]
<1>1. DOMAIN sheets = 1..Len(sheets) /\ Len(sheets) \in Nat
  BY SeqIs
<1>2. \A j \in 1..Len(sheets) : f[sheets[j]] \in Sheet
  BY SeqIs
<1> DEFINE t == [j \in 1..Len(sheets) |-> f[sheets[j]]]
<1>3. t \in Seq(Sheet) /\ Len(t) = Len(sheets) /\ DOMAIN t = 1..Len(sheets)
  BY <1>1, <1>2
<1>4. MappedTo(sheets, f) = t
  BY <1>1 DEF MappedTo
<1>5. \A j \in 1..Len(sheets) : t[j] = f[sheets[j]]
  OBVIOUS
<1> HIDE DEF t
<1>6. \A x : x \in Range(t) <=> \E s \in Range(sheets) : x = f[s]
  BY <1>1, <1>3, <1>5 DEF Range
<1> QED
  BY <1>1, <1>2, <1>3, <1>4, <1>5, <1>6

\* The shape of a layout whose Sheets are rewritten.
LEMMA MappedByIs ==
  ASSUME NEW ps \in Seq(Pane), NEW f \in [AllSheets(ps) -> Sheet]
  PROVE  /\ MappedBy(ps, f) \in Seq(Pane)
         /\ DOMAIN MappedBy(ps, f) = DOMAIN ps
         /\ Len(MappedBy(ps, f)) = Len(ps)
         /\ \A i \in DOMAIN ps :
               /\ MappedBy(ps, f)[i].id = ps[i].id
               /\ MappedBy(ps, f)[i].line = MappedTo(ps[i].line, f)
               /\ MappedBy(ps, f)[i].covers = MappedTo(ps[i].covers, f)
               /\ \A t : t \in SheetsIn(MappedBy(ps, f)[i])
                           <=> \E s \in SheetsIn(ps[i]) : t = f[s]
         /\ \A t : t \in AllSheets(MappedBy(ps, f)) <=> \E s \in AllSheets(ps) : t = f[s]
<1> DEFINE A == AllSheets(ps)
           F(p) == [p EXCEPT !.line = MappedTo(p.line, f), !.covers = MappedTo(p.covers, f)]
           qs == [i \in 1..Len(ps) |-> F(ps[i])]
<1>1. DOMAIN ps = 1..Len(ps) /\ Len(ps) \in Nat
  BY SheetsAre
<1>2. ASSUME NEW i \in DOMAIN ps
      PROVE  /\ ps[i] \in Pane /\ SheetsIn(ps[i]) \subseteq A
             /\ ps[i].line \in Seq(Sheet) /\ \A s \in Range(ps[i].line) : f[s] \in Sheet
             /\ ps[i].covers \in Seq(Sheet) /\ \A s \in Range(ps[i].covers) : f[s] \in Sheet
  BY SheetsAre, PaneIs DEF SheetsIn
<1>3. ASSUME NEW i \in DOMAIN ps
      PROVE  /\ F(ps[i]) \in Pane
             /\ F(ps[i]).id = ps[i].id
             /\ F(ps[i]).line = MappedTo(ps[i].line, f)
             /\ F(ps[i]).covers = MappedTo(ps[i].covers, f)
  <2>1. MappedTo(ps[i].line, f) \in Seq(Sheet) /\ MappedTo(ps[i].covers, f) \in Seq(Sheet)
    BY <1>2, MappedToIs
  <2>2. ps[i] \in Pane
    BY <1>2
  <2> QED
    BY <2>1, <2>2 DEF Pane
<1>4. MappedBy(ps, f) = qs
  BY <1>1 DEF MappedBy
<1>5. /\ qs \in Seq(Pane) /\ DOMAIN qs = DOMAIN ps /\ Len(qs) = Len(ps)
      /\ \A i \in DOMAIN ps : qs[i] = F(ps[i])
  <2>1. \A i \in 1..Len(ps) : F(ps[i]) \in Pane
    BY <1>1, <1>3
  <2> HIDE DEF F
  <2> QED
    BY <1>1, <2>1
<1> HIDE DEF qs, F
<1>6. ASSUME NEW i \in DOMAIN ps
      PROVE  \A t : t \in SheetsIn(qs[i]) <=> \E s \in SheetsIn(ps[i]) : t = f[s]
  <2>1. \A t : t \in Range(MappedTo(ps[i].line, f)) <=> \E s \in Range(ps[i].line) : t = f[s]
    BY <1>2, MappedToIs
  <2>2. \A t : t \in Range(MappedTo(ps[i].covers, f)) <=> \E s \in Range(ps[i].covers) : t = f[s]
    <3>1. ps[i].covers \in Seq(Sheet) /\ \A s \in Range(ps[i].covers) : f[s] \in Sheet
      BY <1>2
    <3> QED
      BY <3>1, MappedToIs
  <2> QED
    BY <1>3, <1>5, <2>1, <2>2 DEF SheetsIn
<1>7. \A t : t \in AllSheets(qs) <=> \E s \in A : t = f[s]
  <2>1. \A t : t \in AllSheets(qs) <=> \E i \in DOMAIN ps : t \in SheetsIn(qs[i])
    BY <1>5, SheetsAre
  <2>2. \A s : s \in A <=> \E i \in DOMAIN ps : s \in SheetsIn(ps[i])
    BY SheetsAre
  <2>3. ASSUME NEW t \in AllSheets(qs) PROVE \E s \in A : t = f[s]
    <3>1. PICK i \in DOMAIN ps : t \in SheetsIn(qs[i])
      BY <2>1, <2>3
    <3>2. PICK s \in SheetsIn(ps[i]) : t = f[s]
      BY <1>6, <3>1
    <3> QED
      BY <2>2, <3>2
  <2>4. ASSUME NEW s \in A PROVE f[s] \in AllSheets(qs)
    <3>1. PICK i \in DOMAIN ps : s \in SheetsIn(ps[i])
      BY <2>2
    <3>2. f[s] \in SheetsIn(qs[i])
      BY <1>6, <3>1
    <3> QED
      BY <2>1, <3>2
  <2> QED
    BY <2>3, <2>4
<1> QED
  BY <1>3, <1>4, <1>5, <1>6, <1>7

\* A rewriting that keeps ids and Cards leaves a layout sound.
LEMMA SoundMapped ==
  ASSUME NEW n \in Nat, NEW m \in Nat, n <= m, NEW ps, Sound(ps, n),
         NEW f, Keeps(AllSheets(ps), f, n, m)
  PROVE  Sound(MappedBy(ps, f), m)
<1> DEFINE A == AllSheets(ps)
           qs == MappedBy(ps, f)
<1>1. ps \in Seq(Pane) /\ Frame(ps, n) /\ Cast(A, n) /\ RootedApart(ps)
  BY DEF Sound, Frame
<1>2. f \in [A -> Sheet] /\ \A s \in A : f[s].id = s.id /\ f[s].kind = s.kind
  BY DEF Keeps
<1>3. /\ qs \in Seq(Pane) /\ DOMAIN qs = DOMAIN ps
      /\ \A i \in DOMAIN ps : /\ qs[i].id = ps[i].id
                              /\ qs[i].line = MappedTo(ps[i].line, f)
                              /\ qs[i].covers = MappedTo(ps[i].covers, f)
                              /\ \A t : t \in SheetsIn(qs[i])
                                          <=> \E s \in SheetsIn(ps[i]) : t = f[s]
      /\ \A t : t \in AllSheets(qs) <=> \E s \in A : t = f[s]
  BY <1>1, <1>2, MappedByIs
<1> HIDE DEF qs
<1>4. Cast(AllSheets(qs), m)
  <2>1. AllSheets(qs) \subseteq Sheet
    BY <1>2, <1>3
  <2>2. \A t \in AllSheets(qs) : SheetInv(t, m)
    BY <1>3 DEF Keeps
  <2>3. ASSUME NEW s \in A, NEW t \in A, f[s] # f[t] PROVE Apart(f[s], f[t])
    <3>1. s # t /\ Apart(s, t)
      BY <1>1, <2>3 DEF Cast
    <3> QED
      BY <3>1 DEF Keeps, Apart
  <2> QED
    BY <1>3, <2>1, <2>2, <2>3 DEF Cast
<1>5. ASSUME NEW i \in DOMAIN ps
      PROVE  /\ ps[i] \in Pane /\ ps[i] \in Range(ps) /\ SheetsIn(ps[i]) \subseteq A
             /\ MappedTo(ps[i].line, f) \in Seq(Sheet)
             /\ DOMAIN MappedTo(ps[i].line, f) = DOMAIN ps[i].line
             /\ Len(MappedTo(ps[i].line, f)) = Len(ps[i].line)
             /\ \A j \in DOMAIN ps[i].line :
                   /\ MappedTo(ps[i].line, f)[j] = f[ps[i].line[j]]
                   /\ ps[i].line[j] \in A
             /\ \A t : t \in Range(MappedTo(ps[i].line, f))
                         <=> \E s \in Range(ps[i].line) : t = f[s]
             /\ DOMAIN MappedTo(ps[i].covers, f) = DOMAIN ps[i].covers
             /\ \A j \in DOMAIN ps[i].covers :
                   /\ MappedTo(ps[i].covers, f)[j] = f[ps[i].covers[j]]
                   /\ ps[i].covers[j] \in A
             /\ \A t : t \in Range(MappedTo(ps[i].covers, f))
                         <=> \E s \in Range(ps[i].covers) : t = f[s]
  <2>1. /\ ps[i] \in Pane /\ ps[i] \in Range(ps) /\ SheetsIn(ps[i]) \subseteq A
    BY <1>1, SheetsAre
  <2>2. /\ ps[i].line \in Seq(Sheet) /\ \A s \in Range(ps[i].line) : s \in A /\ f[s] \in Sheet
        /\ ps[i].covers \in Seq(Sheet) /\ \A s \in Range(ps[i].covers) : s \in A /\ f[s] \in Sheet
    BY <1>2, <2>1, PaneIs DEF SheetsIn
  <2>5. /\ \A j \in DOMAIN ps[i].line : ps[i].line[j] \in A
        /\ \A j \in DOMAIN ps[i].covers : ps[i].covers[j] \in A
    BY <2>2, SeqIs
  <2>3. /\ MappedTo(ps[i].line, f) \in Seq(Sheet)
        /\ DOMAIN MappedTo(ps[i].line, f) = DOMAIN ps[i].line
        /\ Len(MappedTo(ps[i].line, f)) = Len(ps[i].line)
        /\ \A j \in DOMAIN ps[i].line :
              MappedTo(ps[i].line, f)[j] = f[ps[i].line[j]]
        /\ \A t : t \in Range(MappedTo(ps[i].line, f))
                    <=> \E s \in Range(ps[i].line) : t = f[s]
    BY <2>2, MappedToIs
  <2>4. /\ DOMAIN MappedTo(ps[i].covers, f) = DOMAIN ps[i].covers
        /\ \A j \in DOMAIN ps[i].covers :
              MappedTo(ps[i].covers, f)[j] = f[ps[i].covers[j]]
        /\ \A t : t \in Range(MappedTo(ps[i].covers, f))
                    <=> \E s \in Range(ps[i].covers) : t = f[s]
    BY <2>2, MappedToIs
  <2> QED
    BY <2>1, <2>3, <2>4, <2>5
<1>6. ASSUME NEW i \in DOMAIN ps
      PROVE  PaneOK(qs[i]) /\ (Rooted(qs[i]) <=> Rooted(ps[i])) /\ IdsIn(qs[i]) = IdsIn(ps[i])
  <2> DEFINE p == ps[i]
             line == MappedTo(ps[i].line, f)
             covers == MappedTo(ps[i].covers, f)
  <2>1. PaneOK(p)
    BY <1>1 DEF Frame
  <2>2. /\ p.line \in Seq(Sheet) /\ p.line # <<>>
    BY <1>5, <2>1, PaneIs DEF PaneOK
  <2>3. /\ qs[i].line = line /\ qs[i].covers = covers
        /\ DOMAIN line = DOMAIN p.line /\ Len(line) = Len(p.line)
        /\ \A j \in DOMAIN p.line : line[j] = f[p.line[j]] /\ p.line[j] \in A
        /\ DOMAIN covers = DOMAIN p.covers
        /\ \A j \in DOMAIN p.covers : covers[j] = f[p.covers[j]] /\ p.covers[j] \in A
        /\ \A t : t \in Range(line) <=> \E s \in Range(p.line) : t = f[s]
        /\ \A t : t \in Range(covers) <=> \E s \in Range(p.covers) : t = f[s]
    BY <1>3, <1>5
  <2>4. 1 \in DOMAIN p.line
    BY <2>2
  <2> HIDE DEF line, covers, p
  <2>5. /\ \A j \in DOMAIN p.line : line[j].id = p.line[j].id /\ line[j].kind = p.line[j].kind
        /\ \A j \in DOMAIN p.covers : covers[j].id = p.covers[j].id
    BY <1>2, <2>3
  <2>6. line # <<>>
    BY <2>3, <2>4
  <2>7. LineOK(line)
    <3>1. LineOK(p.line)
      BY <2>1 DEF PaneOK
    <3> QED
      BY <2>3, <2>4, <2>5, <3>1 DEF LineOK
  <2>8. Single(line) /\ Single(covers)
    BY <2>1, <2>3, <2>5 DEF PaneOK, Single
  <2>9. \A s \in Range(p.line) \cup Range(p.covers) : s \in A
    BY <1>5 DEF p, SheetsIn
  <2>10. /\ \A c \in Range(covers) : c.kind = "Sheet"
         /\ \A s \in Range(line), t \in Range(covers) : s.id # t.id
    BY <1>2, <2>1, <2>3, <2>9 DEF PaneOK
  <2>11. PaneOK(qs[i])
    BY <2>3, <2>6, <2>7, <2>8, <2>10 DEF PaneOK
  <2>12. Rooted(qs[i]) <=> Rooted(p)
    BY <2>3, <2>4, <2>5 DEF Rooted
  <2>13. IdsIn(qs[i]) = IdsIn(p)
    <3>1. \A t : t \in SheetsIn(qs[i]) <=> \E s \in SheetsIn(p) : t = f[s]
      BY <1>3 DEF p
    <3>2. \A s \in SheetsIn(p) : f[s].id = s.id
      BY <1>2, <1>5 DEF p
    <3>3. \A id : id \in IdsIn(qs[i]) <=> id \in IdsIn(p)
      BY <3>1, <3>2 DEF IdsIn
    <3> QED
      BY <3>3
  <2> QED
    BY <2>11, <2>12, <2>13 DEF p
<1>7. Frame(qs, m)
  <2>1. PICK k \in DOMAIN ps : Rooted(ps[k])
    BY <1>1, SheetsAre DEF Frame
  <2>2. qs[k] \in Range(qs) /\ Rooted(qs[k])
    BY <1>3, <1>6, <2>1, SheetsAre
  <2>3. \A i \in DOMAIN ps : ps[i].id < n /\ ps[i].id \in Nat
    BY <1>1, SheetsAre, PaneIs DEF Frame
  <2>4. \A i \in DOMAIN qs : PaneOK(qs[i]) /\ qs[i].id < m
    BY <1>3, <1>6, <2>3
  <2>5. \A i, j \in DOMAIN qs :
           i # j => qs[i].id # qs[j].id /\ IdsIn(qs[i]) \cap IdsIn(qs[j]) = {}
    BY <1>1, <1>3, <1>6 DEF Frame
  <2> QED
    BY <1>3, <2>2, <2>4, <2>5 DEF Frame
<1>8. RootedApart(qs)
  <2> SUFFICES ASSUME NEW p \in Range(qs), Rooted(p), NEW s \in Range(p.line),
                      NEW t \in AllSheets(qs)
               PROVE  CardOf(s) \cap SlotsOf(t) = {}
    BY DEF RootedApart
  <2>1. PICK i \in DOMAIN ps : p = qs[i]
    BY <1>3, SheetsAre
  <2>2. PICK s0 \in Range(ps[i].line) : s = f[s0]
    <3>1. s \in Range(MappedTo(ps[i].line, f))
      BY <1>3, <2>1
    <3>2. \A u : u \in Range(MappedTo(ps[i].line, f)) <=> \E s1 \in Range(ps[i].line) : u = f[s1]
      BY <1>5
    <3> QED
      BY <3>1, <3>2
  <2>3. PICK t0 \in A : t = f[t0]
    BY <1>3
  <2>4. s0 \in A /\ CardOf(s) = CardOf(s0)
    BY <1>5, <2>2 DEF Keeps, SheetsIn
  <2>5. CardOf(s0) \cap SlotsOf(t0) = {}
    BY <1>1, <1>5, <1>6, <2>1 DEF RootedApart
  <2>6. \A id \in CardOf(s0) : id \in Nat /\ id < n
    BY <1>1, <2>4, SheetIs DEF Cast, SheetInv, Known
  <2>7. \A id \in SlotsOf(t) : id \in SlotsOf(t0) \/ n <= id
    BY <2>3 DEF Keeps
  <2> QED
    BY <2>4, <2>5, <2>6, <2>7
<1> QED
  BY <1>4, <1>7, <1>8 DEF Sound, qs

\* What a Pane shows is mapped with it, and the Panes keep their ids.
LEMMA ShownMapped ==
  ASSUME NEW n \in Nat, NEW ps, Frame(ps, n), NEW f \in [AllSheets(ps) -> Sheet]
  PROVE  /\ \A t : t \in Shown(MappedBy(ps, f)) <=> \E s \in Shown(ps) : t = f[s]
         /\ PaneIds(MappedBy(ps, f)) = PaneIds(ps)
         /\ Shown(ps) \subseteq AllSheets(ps)
<1> DEFINE qs == MappedBy(ps, f)
<1>1. ps \in Seq(Pane)
  BY DEF Frame
<1>2. /\ qs \in Seq(Pane) /\ DOMAIN qs = DOMAIN ps
      /\ \A i \in DOMAIN ps : /\ qs[i].id = ps[i].id
                              /\ qs[i].line = MappedTo(ps[i].line, f)
                              /\ qs[i].covers = MappedTo(ps[i].covers, f)
  BY <1>1, MappedByIs
<1> HIDE DEF qs
<1>3. ASSUME NEW i \in DOMAIN ps
      PROVE  /\ SheetsOf(ps[i]) \subseteq AllSheets(ps)
             /\ \A t : t \in SheetsOf(qs[i]) <=> \E s \in SheetsOf(ps[i]) : t = f[s]
  <2> DEFINE p == ps[i]
             line == MappedTo(p.line, f)
             covers == MappedTo(p.covers, f)
  <2>1. /\ p \in Pane /\ PaneOK(p) /\ SheetsIn(p) \subseteq AllSheets(ps)
        /\ p.line \in Seq(Sheet) /\ p.line # <<>> /\ p.covers \in Seq(Sheet)
    BY <1>1, SheetsAre, PaneIs DEF Frame, PaneOK
  <2>2. /\ \A s \in Range(p.line) : s \in AllSheets(ps) /\ f[s] \in Sheet
        /\ \A s \in Range(p.covers) : s \in AllSheets(ps) /\ f[s] \in Sheet
    BY <2>1 DEF SheetsIn
  <2>3. /\ line \in Seq(Sheet) /\ Len(line) = Len(p.line)
        /\ \A j \in DOMAIN p.line : line[j] = f[p.line[j]]
    BY <2>1, <2>2, MappedToIs
  <2>4. \A t : t \in Range(covers) <=> \E s \in Range(p.covers) : t = f[s]
    BY <2>1, <2>2, MappedToIs
  <2>5. Len(p.line) \in DOMAIN p.line /\ p.line[Len(p.line)] \in Range(p.line)
    BY <2>1, SeqIs
  <2>6. Last(line) = f[Last(p.line)] /\ Last(p.line) \in Range(p.line)
    BY <2>3, <2>5 DEF Last
  <2>7. qs[i].line = line /\ qs[i].covers = covers
    BY <1>2
  <2> HIDE DEF line, covers, p
  <2>8. SheetsOf(p) \subseteq AllSheets(ps)
    BY <2>2, <2>6 DEF SheetsOf, Ground
  <2>9. \A t : t \in SheetsOf(qs[i]) <=> \E s \in SheetsOf(p) : t = f[s]
    BY <2>4, <2>6, <2>7 DEF SheetsOf, Ground
  <2> QED
    BY <2>8, <2>9 DEF p
<1>4. /\ \A s : s \in Shown(ps) <=> \E i \in DOMAIN ps : s \in SheetsOf(ps[i])
      /\ \A s : s \in Shown(qs) <=> \E i \in DOMAIN ps : s \in SheetsOf(qs[i])
  <2>1. /\ \A s : s \in Shown(ps) <=> \E p \in Range(ps) : s \in SheetsOf(p)
        /\ \A s : s \in Shown(qs) <=> \E p \in Range(qs) : s \in SheetsOf(p)
    BY DEF Shown
  <2> QED
    BY <1>1, <1>2, <2>1, SheetsAre
<1>5. ASSUME NEW t \in Shown(qs) PROVE \E s \in Shown(ps) : t = f[s]
  BY <1>3, <1>4
<1>6. ASSUME NEW s \in Shown(ps) PROVE f[s] \in Shown(qs) /\ s \in AllSheets(ps)
  BY <1>3, <1>4
<1>7. PaneIds(qs) = PaneIds(ps)
  <2>1. \A id : id \in PaneIds(qs) <=> \E p \in Range(qs) : id = p.id
    BY DEF PaneIds
  <2>2. \A id : id \in PaneIds(ps) <=> \E p \in Range(ps) : id = p.id
    BY DEF PaneIds
  <2>4. /\ \A p : p \in Range(qs) <=> \E i \in DOMAIN ps : p = qs[i]
        /\ \A p : p \in Range(ps) <=> \E i \in DOMAIN ps : p = ps[i]
    BY <1>1, <1>2, SheetsAre
  <2>5. /\ \A id : id \in PaneIds(qs) <=> \E i \in DOMAIN ps : id = qs[i].id
        /\ \A id : id \in PaneIds(ps) <=> \E i \in DOMAIN ps : id = ps[i].id
    BY <2>1, <2>2, <2>4
  <2>3. \A id : id \in PaneIds(qs) <=> id \in PaneIds(ps)
    BY <1>2, <2>5
  <2> QED
    BY <2>3
<1> QED
  BY <1>5, <1>6, <1>7 DEF qs

\* What the Panes show is among the Sheets.
LEMMA ShownWithin ==
  ASSUME NEW n \in Nat, NEW ps, Sound(ps, n)
  PROVE  Shown(ps) \subseteq AllSheets(ps)
<1>1. Frame(ps, n) /\ Cast(AllSheets(ps), n)
  BY DEF Sound
<1> DEFINE f == [s \in AllSheets(ps) |-> s]
<1>2. f \in [AllSheets(ps) -> Sheet]
  BY <1>1 DEF Cast
<1> QED
  BY <1>1, <1>2, ShownMapped

SetTo(A, sheetId, deck) ==
    [s \in A |-> IF s.id = sheetId THEN [s EXCEPT !.deck = deck] ELSE s]

\* SetDeck rewrites Sheets.
LEMMA SetDeckIs ==
  ASSUME NEW ps \in Seq(Pane), NEW sheetId, NEW deck
  PROVE  SetDeck(ps, sheetId, deck) = MappedBy(ps, SetTo(AllSheets(ps), sheetId, deck))
<1> DEFINE f == SetTo(AllSheets(ps), sheetId, deck)
           Set(s) == IF s.id = sheetId THEN [s EXCEPT !.deck = deck] ELSE s
           All(sheets) == [j \in DOMAIN sheets |-> Set(sheets[j])]
<1>1. SetDeck(ps, sheetId, deck)
        = [i \in DOMAIN ps |-> [ps[i] EXCEPT !.line = All(@), !.covers = All(@)]]
  BY DEF SetDeck, MapSheets
<1>2. ASSUME NEW i \in DOMAIN ps
      PROVE  /\ All(ps[i].line) = MappedTo(ps[i].line, f)
             /\ All(ps[i].covers) = MappedTo(ps[i].covers, f)
  <2>1. /\ \A j \in DOMAIN ps[i].line : ps[i].line[j] \in AllSheets(ps)
        /\ \A j \in DOMAIN ps[i].covers : ps[i].covers[j] \in AllSheets(ps)
    BY SheetsAre DEF SheetsIn, Range
  <2>2. \A s \in AllSheets(ps) : f[s] = Set(s)
    BY DEF SetTo
  <2> HIDE DEF Set, f
  <2> QED
    BY <2>1, <2>2 DEF MappedTo
<1>3. \A i \in DOMAIN ps :
         [ps[i] EXCEPT !.line = All(@), !.covers = All(@)]
           = [ps[i] EXCEPT !.line = MappedTo(@, f), !.covers = MappedTo(@, f)]
  <2> HIDE DEF All, f
  <2>1. \A i \in DOMAIN ps : ps[i] \in Pane
    BY SheetsAre
  <2> QED
    BY <1>2, <2>1 DEF Pane
<1> HIDE DEF All, f
<1> QED
  BY <1>1, <1>3 DEF MappedBy, f

\* The Sheet x gets another Deck, with new ids or those the Deck had.
Redeals(ps, x, d, y, n, m) ==
    /\ Sound(ps, n) /\ x \in AllSheets(ps)
    /\ y = [x EXCEPT !.deck = d] /\ y \in Sheet /\ SheetInv(y, m)
    /\ \A id \in DeckOf(y) : id \in DeckOf(x) \/ n <= id
    /\ \A id \in SlotsOf(y) : id \in SlotsOf(x) \/ n <= id

Turned(A, x, y, B) == \A t : t \in B <=> \E s \in A : t = IF s = x THEN y ELSE s

\* A layout stays sound when one Sheet's Deck is replaced, and no other Sheet
\* changes.
LEMMA Redealt ==
  ASSUME NEW n \in Nat, NEW m \in Nat, n <= m, NEW ps, NEW x, NEW d, NEW y,
         Redeals(ps, x, d, y, n, m)
  PROVE  /\ Sound(SetDeck(ps, x.id, d), m)
         /\ Turned(AllSheets(ps), x, y, AllSheets(SetDeck(ps, x.id, d)))
         /\ Turned(Shown(ps), x, y, Shown(SetDeck(ps, x.id, d)))
         /\ PaneIds(SetDeck(ps, x.id, d)) = PaneIds(ps)
<1> DEFINE A == AllSheets(ps)
           f == SetTo(A, x.id, d)
<1> USE DEF Redeals
<1>1. ps \in Seq(Pane) /\ Frame(ps, n) /\ Cast(A, n)
  BY DEF Sound, Frame
<1>2. \A s \in A : f[s] = IF s = x THEN y ELSE s
  BY <1>1, SameSheet DEF SetTo
<1>3. f \in [A -> Sheet]
  <2>1. f = [s \in A |-> f[s]]
    BY DEF SetTo
  <2>2. \A s \in A : f[s] \in Sheet
    BY <1>1, <1>2 DEF Cast
  <2> HIDE DEF f
  <2> QED
    BY <2>1, <2>2
<1>4. SetDeck(ps, x.id, d) = MappedBy(ps, f)
  BY <1>1, SetDeckIs
<1> HIDE DEF f
<1>5. x \in Sheet /\ y.id = x.id /\ y.kind = x.kind /\ CardOf(y) = CardOf(x)
  BY <1>1 DEF Cast, Sheet, CardOf
<1>6. Keeps(A, f, n, m)
  <2>1. Cast(A, m)
    BY <1>1, CastWithin
  <2>2. ASSUME NEW s \in A
        PROVE  /\ f[s].id = s.id /\ f[s].kind = s.kind
               /\ CardOf(f[s]) = CardOf(s)
               /\ SheetInv(f[s], m)
               /\ \A id \in SlotsOf(f[s]) : id \in SlotsOf(s) \/ n <= id
    BY <1>2, <1>5, <2>1 DEF Cast
  <2>3. ASSUME NEW s \in A, s # x
        PROVE  DeckOf(y) \cap DeckOf(s) = {} /\ SlotsOf(y) \cap SlotsOf(s) = {}
    <3>1. \A id \in DeckOf(s) \cup SlotsOf(s) : id \in Nat /\ id < n
      BY <1>1, SheetIs DEF Cast, SheetInv, Known
    <3>2. DeckOf(x) \cap DeckOf(s) = {} /\ SlotsOf(x) \cap SlotsOf(s) = {}
      BY <1>1, <2>3 DEF Cast, Apart
    <3>3. DeckOf(y) \subseteq Nat /\ SlotsOf(y) \subseteq Nat
      BY SheetIs
    <3> QED
      BY <3>1, <3>2, <3>3
  <2>4. ASSUME NEW s \in A, NEW t \in A, s # t
        PROVE  DeckOf(f[s]) \cap DeckOf(f[t]) = {} /\ SlotsOf(f[s]) \cap SlotsOf(f[t]) = {}
    <3>1. CASE s = x
      BY <1>2, <2>3, <2>4, <3>1
    <3>2. CASE t = x
      BY <1>2, <2>3, <2>4, <3>2
    <3>3. CASE s # x /\ t # x
      BY <1>1, <1>2, <2>4, <3>3 DEF Cast, Apart
    <3> QED
      BY <3>1, <3>2, <3>3
  <2> QED
    BY <1>3, <2>2, <2>4 DEF Keeps
<1>7. Sound(MappedBy(ps, f), m)
  BY <1>6, SoundMapped
<1>8. \A t : t \in AllSheets(MappedBy(ps, f)) <=> \E s \in A : t = f[s]
  BY <1>1, <1>3, MappedByIs
<1>9. /\ \A t : t \in Shown(MappedBy(ps, f)) <=> \E s \in Shown(ps) : t = f[s]
      /\ PaneIds(MappedBy(ps, f)) = PaneIds(ps)
      /\ Shown(ps) \subseteq A
  BY <1>1, <1>3, ShownMapped
<1>10. \A t : t \in AllSheets(MappedBy(ps, f)) <=> \E s \in A : t = IF s = x THEN y ELSE s
  BY <1>2, <1>8
<1>11. \A t : t \in Shown(MappedBy(ps, f)) <=> \E s \in Shown(ps) : t = IF s = x THEN y ELSE s
  BY <1>2, <1>9
<1> QED
  BY <1>4, <1>7, <1>9, <1>10, <1>11 DEF Turned

-----------------------------------------------------------------------------
(* Collapsing.                                                              *)

\* The same Sheet, but for what is in front.
Alike(s, t) ==
    /\ t.id = s.id /\ t.kind = s.kind /\ t.card = s.card
    /\ (t.deck = None) <=> (s.deck = None)
    /\ s.deck # None => t.deck.id = s.deck.id /\ t.deck.cards = s.deck.cards

Drawn(ps, qs) == \A t \in AllSheets(qs) : \E s \in AllSheets(ps) : Alike(s, t)

\* The Presentations that a layout shows, the other shows as well.
StillOpen(ps, qs) == \A s \in Shown(ps) : \E t \in Shown(qs) : CardOf(t) = CardOf(s)

\* The Card with the id is in front where it has a slot, and the rest is as it was.
OnTop(ps, qs, id) ==
    /\ PaneIds(qs) = PaneIds(ps)
    /\ \A s \in Dealers(qs) : IF id \in CardIds(s.deck) THEN s.deck.front = id
                              ELSE \E s0 \in Dealers(ps) : s.deck = s0.deck

\* Alike is transitive.
LEMMA AlikeTwice ==
  ASSUME NEW s, NEW t, NEW u, Alike(s, t), Alike(t, u)
  PROVE  Alike(s, u)
BY DEF Alike

\* Alike Sheets name the same ids and agree with the same Presentations.
LEMMA AlikeAgree ==
  ASSUME NEW s, NEW t, Alike(s, t)
  PROVE  /\ CardOf(t) = CardOf(s) /\ SlotsOf(t) = SlotsOf(s) /\ DeckOf(t) = DeckOf(s)
         /\ \A card : Agrees(card, s) => Agrees(card, t)
BY DEF Alike, CardOf, SlotsOf, DeckOf, Agrees, CardIds

\* Sheets drawn from those that agree do, too.
LEMMA DrawnAgreement ==
  ASSUME NEW ps, NEW qs, Agreement(AllSheets(ps)), Drawn(ps, qs)
  PROVE  Agreement(AllSheets(qs))
<1> SUFFICES ASSUME NEW s \in AllSheets(qs), NEW t \in AllSheets(qs), s.card # None
             PROVE  Agrees(s.card, t)
  BY DEF Agreement
<1>1. PICK s0 \in AllSheets(ps) : Alike(s0, s)
  BY DEF Drawn
<1>2. PICK t0 \in AllSheets(ps) : Alike(t0, t)
  BY DEF Drawn
<1>3. s.card = s0.card
  BY <1>1 DEF Alike
<1>4. Agrees(s.card, t0)
  BY <1>3 DEF Agreement
<1> QED
  BY <1>2, <1>4, AlikeAgree

\* Another Card comes in front of a Deck.
LEMMA FrontSet ==
  ASSUME NEW n \in Nat, NEW ps, LayoutInv(ps, n),
         NEW x \in AllSheets(ps), x.deck # None, NEW id \in CardIds(x.deck)
  PROVE  /\ LayoutInv(SetDeck(ps, x.id, [x.deck EXCEPT !.front = id]), n)
         /\ Drawn(ps, SetDeck(ps, x.id, [x.deck EXCEPT !.front = id]))
         /\ StillOpen(ps, SetDeck(ps, x.id, [x.deck EXCEPT !.front = id]))
         /\ OnTop(ps, SetDeck(ps, x.id, [x.deck EXCEPT !.front = id]), id)
<1> DEFINE d == [x.deck EXCEPT !.front = id]
           y == [x EXCEPT !.deck = d]
           qs == SetDeck(ps, x.id, d)
<1>1. /\ x \in Sheet /\ SheetInv(x, n) /\ x.deck \in Deck /\ id \in Nat
      /\ Sound(ps, n) /\ Agreement(AllSheets(ps))
  <2>1. x \in Sheet /\ SheetInv(x, n) /\ Sound(ps, n) /\ Agreement(AllSheets(ps))
    BY DEF LayoutInv, Sound, Cast
  <2>2. SlotsOf(x) = CardIds(x.deck)
    BY DEF SlotsOf
  <2> QED
    BY <2>1, <2>2, SheetIs
<1>2. d \in Deck /\ d.id = x.deck.id /\ d.cards = x.deck.cards /\ d.front = id
  BY <1>1 DEF Deck
<1>3. y \in Sheet /\ y.id = x.id /\ y.kind = x.kind /\ y.card = x.card /\ y.deck = d
  BY <1>1, <1>2 DEF Sheet
<1>4. d # None
  BY <1>2, NoneApart
<1> HIDE DEF d
<1>5. Alike(x, y)
  BY <1>2, <1>3, <1>4 DEF Alike
<1> HIDE DEF y
<1>6. CardOf(y) = CardOf(x) /\ SlotsOf(y) = SlotsOf(x) /\ DeckOf(y) = DeckOf(x)
  BY <1>5, AlikeAgree
<1>7. SheetInv(y, n)
  <2>1. Known(y, n)
    BY <1>1, <1>3, <1>6 DEF SheetInv, Known
  <2>2. DeckOK(d)
    BY <1>1, <1>2 DEF SheetInv, DeckOK, CardIds
  <2> QED
    BY <1>1, <1>3, <2>1, <2>2 DEF SheetInv
<1>8. /\ Sound(qs, n)
      /\ Turned(AllSheets(ps), x, y, AllSheets(qs))
      /\ Turned(Shown(ps), x, y, Shown(qs)) /\ PaneIds(qs) = PaneIds(ps)
  <2>1. Redeals(ps, x, d, y, n, n)
    BY <1>1, <1>3, <1>6, <1>7 DEF Redeals, y
  <2> QED
    BY <2>1, Redealt
<1> HIDE DEF qs
<1>9. Drawn(ps, qs)
  <2>1. \A s : Alike(s, s)
    BY DEF Alike
  <2> QED
    BY <1>5, <1>8, <2>1 DEF Drawn, Turned
<1>10. StillOpen(ps, qs)
  BY <1>6, <1>8 DEF Turned, StillOpen
<1>11. OnTop(ps, qs, id)
  <2> SUFFICES ASSUME NEW s \in Dealers(qs)
               PROVE  IF id \in CardIds(s.deck) THEN s.deck.front = id
                      ELSE \E s0 \in Dealers(ps) : s.deck = s0.deck
    BY <1>8 DEF OnTop
  <2>1. s \in Shown(qs) /\ s.deck # None
    BY DEF Dealers
  <2>2. PICK s0 \in Shown(ps) : s = IF s0 = x THEN y ELSE s0
    BY <1>8, <2>1 DEF Turned
  <2>3. CASE s0 = x
    BY <1>2, <1>3, <2>2, <2>3 DEF CardIds
  <2>4. CASE s0 # x
    <3>1. s = s0 /\ s0 \in Dealers(ps) /\ s0 \in AllSheets(ps)
      BY <1>1, <2>1, <2>2, <2>4, ShownWithin DEF Dealers
    <3>2. SlotsOf(s0) \cap SlotsOf(x) = {}
      BY <1>1, <2>4, <3>1 DEF Sound, Cast, Apart
    <3>3. id \notin CardIds(s.deck)
      BY <2>1, <3>1, <3>2 DEF SlotsOf
    <3> QED
      BY <3>1, <3>3
  <2> QED
    BY <2>3, <2>4
<1> QED
  BY <1>1, <1>8, <1>9, <1>10, <1>11, DrawnAgreement DEF LayoutInv, qs, d

\* A Card that collapses leaves the layout in order, comes in front where it
\* has a slot, and nothing else leaves.
LEMMA CollapseIs ==
  ASSUME NEW n \in Nat, NEW ps, LayoutInv(ps, n), NEW id
  PROVE  /\ LayoutInv(CollapseTo(ps, id), n) /\ Drawn(ps, CollapseTo(ps, id))
         /\ StillOpen(ps, CollapseTo(ps, id)) /\ OnTop(ps, CollapseTo(ps, id), id)
<1> DEFINE holders == {s \in Dealers(ps) : id \in CardIds(s.deck)}
<1>1. CASE holders = {}
  <2>1. CollapseTo(ps, id) = ps
    BY <1>1 DEF CollapseTo
  <2>2. Drawn(ps, ps) /\ StillOpen(ps, ps)
    BY DEF Drawn, Alike, StillOpen
  <2>3. OnTop(ps, ps, id)
    BY <1>1 DEF OnTop
  <2> QED
    BY <2>1, <2>2, <2>3
<1>2. CASE holders # {}
  <2> DEFINE x == CHOOSE h \in holders : TRUE
  <2>1. x \in holders
    BY <1>2
  <2>2. CollapseTo(ps, id) = SetDeck(ps, x.id, [x.deck EXCEPT !.front = id])
    BY <1>2 DEF CollapseTo
  <2> HIDE DEF x
  <2>3. x \in Shown(ps) /\ x.deck # None /\ id \in CardIds(x.deck)
    BY <2>1 DEF Dealers
  <2>4. Shown(ps) \subseteq AllSheets(ps)
    BY ShownWithin DEF LayoutInv
  <2> QED
    BY <2>2, <2>3, <2>4, FrontSet
<1> QED
  BY <1>1, <1>2

\* What stays open twice stays open.
LEMMA StillOpenTwice ==
  ASSUME NEW ps, NEW qs, NEW rs, StillOpen(ps, qs), StillOpen(qs, rs)
  PROVE  StillOpen(ps, rs)
<1> SUFFICES ASSUME NEW s \in Shown(ps) PROVE \E u \in Shown(rs) : CardOf(u) = CardOf(s)
  BY DEF StillOpen
<1>1. PICK t \in Shown(qs) : CardOf(t) = CardOf(s)
  BY DEF StillOpen
<1>2. PICK u \in Shown(rs) : CardOf(u) = CardOf(t)
  BY DEF StillOpen
<1> QED
  BY <1>1, <1>2

\* What is drawn from a layout that was drawn is drawn.
LEMMA DrawnTwice ==
  ASSUME NEW ps, NEW qs, NEW rs, Drawn(ps, qs), Drawn(qs, rs)
  PROVE  Drawn(ps, rs)
<1> SUFFICES ASSUME NEW u \in AllSheets(rs) PROVE \E s \in AllSheets(ps) : Alike(s, u)
  BY DEF Drawn
<1>1. PICK t \in AllSheets(qs) : Alike(t, u)
  BY DEF Drawn
<1>2. PICK s \in AllSheets(ps) : Alike(s, t)
  BY DEF Drawn
<1> QED
  BY <1>1, <1>2, AlikeTwice

\* Of the Covers from b on, the lowest that a Deck has a slot for is in front.
Fronted(qs, covers, b) ==
    \A s \in Dealers(qs) : \A i \in b..Len(covers) :
        covers[i].card.id \in CardIds(s.deck) =>
            \E k \in b..i : s.deck.front = covers[k].card.id

\* Collapsing one Cover lower puts that one in front, or keeps what is.
LEMMA OneMoreFronted ==
  ASSUME NEW covers \in Seq(Sheet), NEW b \in 1..Len(covers), NEW qs, Fronted(qs, covers, b + 1),
         NEW rs, OnTop(qs, rs, covers[b].card.id)
  PROVE  Fronted(rs, covers, b)
<1> SUFFICES ASSUME NEW s \in Dealers(rs), NEW i \in b..Len(covers),
                    covers[i].card.id \in CardIds(s.deck)
             PROVE  \E k \in b..i : s.deck.front = covers[k].card.id
  BY DEF Fronted
<1>1. Len(covers) \in Nat /\ b \in b..i
  OBVIOUS
<1>2. CASE covers[b].card.id \in CardIds(s.deck)
  BY <1>1, <1>2 DEF OnTop
<1>3. CASE covers[b].card.id \notin CardIds(s.deck)
  <2>1. PICK s0 \in Dealers(qs) : s.deck = s0.deck
    BY <1>3 DEF OnTop
  <2>2. i # b
    BY <1>3
  <2>3. i \in (b + 1)..Len(covers)
    BY <1>1, <2>2
  <2>4. PICK k \in (b + 1)..i : s0.deck.front = covers[k].card.id
    BY <2>1, <2>3 DEF Fronted
  <2>5. k \in b..i
    BY <1>1, <2>4
  <2> QED
    BY <2>1, <2>4, <2>5
<1> QED
  BY <1>2, <1>3

\* Cards collapse one after the other, from the top down.
LEMMA CollapsedIs ==
  ASSUME NEW n \in Nat, NEW ps, LayoutInv(ps, n), NEW covers \in Seq(Sheet)
  PROVE  /\ LayoutInv(Collapsed(ps, covers), n) /\ Drawn(ps, Collapsed(ps, covers))
         /\ StillOpen(ps, Collapsed(ps, covers)) /\ Fronted(Collapsed(ps, covers), covers, 1)
<1> DEFINE l == Len(covers)
           Then(qs, j) == CollapseTo(qs, covers[l - j + 1].card.id)
           Fit(j) == {qs \in Seq(Pane) : /\ LayoutInv(qs, n) /\ Drawn(ps, qs) /\ StillOpen(ps, qs)
                                        /\ Fronted(qs, covers, l - j + 1)}
           Stage == [j \in 0..l |-> Fit(j)]
           step == [j \in 1..l |-> [qs \in Fit(j - 1) |-> Then(qs, j)]]
           Eq(h) == h = [j \in 0..l |-> IF j = 0 THEN ps ELSE Then(h[j - 1], j)]
<1>1. l \in Nat /\ 0 \in 0..l
  OBVIOUS
<1>2. ps \in Fit(0)
  <2>1. Fronted(ps, covers, l - 0 + 1)
    BY <1>1 DEF Fronted
  <2>2. ps \in Seq(Pane) /\ Drawn(ps, ps) /\ StillOpen(ps, ps)
    BY DEF LayoutInv, Sound, Frame, Drawn, Alike, StillOpen
  <2> QED
    BY <2>1, <2>2
<1>3. \A j \in 1..l : \A qs \in Fit(j - 1) : Then(qs, j) \in Fit(j)
  <2> SUFFICES ASSUME NEW j \in 1..l, NEW qs \in Fit(j - 1) PROVE Then(qs, j) \in Fit(j)
    OBVIOUS
  <2> DEFINE b == l - j + 1
  <2>1. b \in 1..l /\ b + 1 = l - (j - 1) + 1
    BY <1>1
  <2>2. LayoutInv(qs, n) /\ Drawn(ps, qs) /\ StillOpen(ps, qs) /\ Fronted(qs, covers, b + 1)
    BY <2>1
  <2>3. Then(qs, j) = CollapseTo(qs, covers[b].card.id)
    OBVIOUS
  <2> HIDE DEF b, Then
  <2>4. /\ LayoutInv(Then(qs, j), n) /\ Drawn(qs, Then(qs, j))
        /\ StillOpen(qs, Then(qs, j)) /\ OnTop(qs, Then(qs, j), covers[b].card.id)
    BY <2>2, <2>3, CollapseIs
  <2>5. Drawn(ps, Then(qs, j)) /\ StillOpen(ps, Then(qs, j))
    BY <2>2, <2>4, DrawnTwice, StillOpenTwice
  <2>6. Fronted(Then(qs, j), covers, b)
    BY <2>1, <2>2, <2>4, OneMoreFronted
  <2>7. Then(qs, j) \in Seq(Pane)
    BY <2>4 DEF LayoutInv, Sound, Frame
  <2> QED
    BY <2>4, <2>5, <2>6, <2>7 DEF b
<1> HIDE DEF Then, Fit
<1>4. \A j \in 0..l : Stage[j] = Fit(j)
  OBVIOUS
<1>5. \A j \in 1..l : \A qs \in Fit(j - 1) : step[j][qs] = Then(qs, j)
  OBVIOUS
<1>6. \A j \in 1..l : j \in 0..l /\ j - 1 \in 0..l /\ j # 0
  BY <1>1
<1> HIDE DEF Stage, step, l
<1>7. PICK f : Runs(f, l, ps, Stage, step)
  <2>1. ps \in Stage[0] /\ \A j \in 1..l : \A x \in Stage[j - 1] : step[j][x] \in Stage[j]
    BY <1>1, <1>2, <1>3, <1>4, <1>5, <1>6
  <2> HIDE DEF Eq
  <2> QED
    BY <1>1, <2>1, Iterates
<1>8. Eq(f)
  <2>1. f = [j \in 0..l |-> f[j]]
    BY <1>7 DEF Runs
  <2>2. ASSUME NEW j \in 0..l PROVE f[j] = IF j = 0 THEN ps ELSE Then(f[j - 1], j)
    <3>1. CASE j = 0
      BY <1>7, <3>1 DEF Runs
    <3>2. CASE j # 0
      <4>1. j \in 1..l /\ j - 1 \in 0..l
        BY <1>1, <3>2
      <4> QED
        BY <1>4, <1>5, <1>7, <4>1, <3>2 DEF Runs
    <3> QED
      BY <3>1, <3>2
  <2> QED
    BY <2>1, <2>2
<1> DEFINE after == CHOOSE h : Eq(h)
<1>9. Eq(after)
  <2> HIDE DEF Eq
  <2> QED
    BY <1>8
<1>10. Collapsed(ps, covers) = after[l]
  BY Zenon DEF Collapsed, l, Then
<1> HIDE DEF after
<1>11. after[0] = ps /\ \A j \in 1..l : after[j] = Then(after[j - 1], j)
  <2>1. after[0] = ps
    BY <1>1, <1>9
  <2>2. ASSUME NEW j \in 1..l PROVE after[j] = Then(after[j - 1], j)
    BY <1>6, <1>9
  <2> QED
    BY <2>1, <2>2
<1> DEFINE Good == {j \in 0..l : after[j] \in Fit(j)}
<1>12. \A j \in 0..l : j \in Good
  <2>1. 0 \in Good
    BY <1>1, <1>2, <1>11
  <2>2. \A j \in 1..l : j - 1 \in Good => j \in Good
    <3> SUFFICES ASSUME NEW j \in 1..l, j - 1 \in Good PROVE j \in Good
      OBVIOUS
    <3>1. after[j] \in Fit(j)
      BY <1>3, <1>11
    <3> QED
      BY <1>6, <3>1
  <2> HIDE DEF Good
  <2> QED
    BY <1>1, <2>1, <2>2, CountUp
<1>13. after[l] \in Fit(l)
  BY <1>1, <1>12
<1>14. l - l + 1 = 1
  BY <1>1
<1> QED
  BY <1>10, <1>13, <1>14 DEF Fit

-----------------------------------------------------------------------------
(* Changes of one line, or of one stack of Covers.                          *)

\* What is minted is a Sheet, and shows a Presentation.
LEMMA RungIs ==
  ASSUME NEW id \in Nat, NEW kind \in {"Menu", "MenuItem", "Sheet"},
         NEW card \in Presentation \cup {None}
  PROVE  /\ Rung(id, kind, card) \in Sheet
         /\ Rung(id, kind, card).id = id /\ Rung(id, kind, card).kind = kind
         /\ Rung(id, kind, card).card = card /\ Rung(id, kind, card).deck = None
BY DEF Rung, Sheet

\* A Presentation that is minted.
LEMMA FreshIs ==
  ASSUME NEW id \in Nat
  PROVE  Fresh(id) \in Presentation /\ Fresh(id).id = id /\ Fresh(id) # None
<1>1. Opened \in Subjects
  BY PanesAssumption
<1>2. Fresh(id) \in Presentation /\ Fresh(id).id = id
  BY <1>1 DEF Fresh, Presentation
<1> QED
  BY <1>2, NoneApart

\* A Card of a new id is in no slot and shown by no Sheet.
LEMMA NewCardApart ==
  ASSUME NEW A, NEW n \in Nat, Cast(A, n), NEW s \in A, NEW card \in Presentation, n <= card.id
  PROVE  card.id \notin CardOf(s) /\ Agrees(card, s)
<1>1. \A id \in CardOf(s) \cup SlotsOf(s) : id \in Nat /\ id < n
  BY SheetIs DEF Cast, SheetInv, Known
<1>2. card.id \in Nat
  BY DEF Presentation
<1>3. card.id \notin CardOf(s) /\ card.id \notin SlotsOf(s)
  BY <1>1, <1>2
<1>4. s.deck # None => \A c \in Range(s.deck.cards) : c.id # card.id
  BY <1>3 DEF SlotsOf, CardIds
<1> QED
  BY <1>3, <1>4 DEF Agrees

\* The facts of a layout about one of its Panes.
LEMMA PaneAt ==
  ASSUME NEW n, NEW ps, Sound(ps, n), NEW i \in DOMAIN ps
  PROVE  /\ ps \in Seq(Pane) /\ ps[i] \in Pane /\ PaneOK(ps[i]) /\ ps[i] \in Range(ps)
         /\ Cast(AllSheets(ps), n)
         /\ ps[i].line \in Seq(Sheet) /\ ps[i].line # <<>> /\ 1 \in DOMAIN ps[i].line
         /\ ps[i].covers \in Seq(Sheet)
         /\ Range(ps[i].line) \subseteq AllSheets(ps)
         /\ Range(ps[i].covers) \subseteq AllSheets(ps)
         /\ \A s \in AllSheets(ps) : s \in Sheet /\ s.id \in Nat /\ s.id < n
<1>1. Frame(ps, n) /\ Cast(AllSheets(ps), n)
  BY DEF Sound
<1>2. ps \in Seq(Pane) /\ PaneOK(ps[i])
  BY <1>1 DEF Frame
<1>3. ps[i] \in Pane /\ ps[i] \in Range(ps) /\ SheetsIn(ps[i]) \subseteq AllSheets(ps)
  BY <1>2, SheetsAre
<1>4. ps[i].line \in Seq(Sheet) /\ ps[i].covers \in Seq(Sheet) /\ ps[i].line # <<>>
  BY <1>2, <1>3, PaneIs DEF PaneOK
<1>5. 1 \in DOMAIN ps[i].line
  BY <1>4
<1>6. \A s \in AllSheets(ps) : s \in Sheet /\ s.id \in Nat /\ s.id < n
  BY <1>1, SheetIs DEF Cast, SheetInv, Known
<1> QED
  BY <1>1, <1>2, <1>3, <1>4, <1>5, <1>6 DEF SheetsIn

WithLine(ps, i, L) == [ps EXCEPT ![i].line = L]
WithCovers(ps, i, C) == [ps EXCEPT ![i].covers = C]

\* The Sheets of a layout are of the Pane that changed, or of another one.
LineSheets(ps, i, L) ==
    \A s \in AllSheets(WithLine(ps, i, L)) :
        \/ s \in Range(L) \cup Range(ps[i].covers)
        \/ \E j \in DOMAIN ps : j # i /\ s \in SheetsIn(ps[j])

CoverSheets(ps, i, C) ==
    \A s \in AllSheets(WithCovers(ps, i, C)) :
        \/ s \in Range(ps[i].line) \cup Range(C)
        \/ \E j \in DOMAIN ps : j # i /\ s \in SheetsIn(ps[j])

NewLine(L, ps, i, G, n, m) ==
    /\ L \in Seq(Sheet) /\ L # <<>> /\ LineOK(L) /\ Single(L)
    /\ L[1].kind = "Menu" <=> Rooted(ps[i])
    /\ Guests(G, AllSheets(ps), n, m)
    /\ \A s \in Range(L) : \/ s \in Range(ps[i].line)
                           \/ s \in G /\ \A id \in CardOf(s) : n <= id

NewCovers(C, ps, i, G, n, m) ==
    /\ C \in Seq(Sheet) /\ Single(C) /\ \A c \in Range(C) : c.kind = "Sheet"
    /\ Guests(G, AllSheets(ps), n, m)
    /\ Range(C) \subseteq Range(ps[i].covers) \cup G

\* A layout stays in order when one line is replaced by a fitting one.
LEMMA LineChanged ==
  ASSUME NEW n \in Nat, NEW m \in Nat, n <= m, NEW ps, LayoutInv(ps, n),
         NEW i \in DOMAIN ps, NEW L, NEW G, NewLine(L, ps, i, G, n, m)
  PROVE  LayoutInv(WithLine(ps, i, L), m) /\ LineSheets(ps, i, L)
<1> USE DEF NewLine
<1> DEFINE p == ps[i]
           q == [ps[i] EXCEPT !.line = L]
           A == AllSheets(ps)
<1>1. /\ ps \in Seq(Pane) /\ p \in Pane /\ PaneOK(p)
      /\ Range(p.line) \subseteq A /\ Range(p.covers) \subseteq A
      /\ \A s \in A : s.id \in Nat /\ s.id < n
  BY PaneAt DEF LayoutInv
<1>2. /\ q \in Pane /\ q.id = p.id /\ q.line = L /\ q.covers = p.covers
  BY <1>1 DEF Pane
<1> DEFINE qs == WithLine(ps, i, L)
<1>3. qs = With(ps, i, q)
  BY DEF With, WithLine, WithCovers
<1> HIDE DEF q, qs
<1>4. \A s \in G : s.id \in Nat /\ n <= s.id
  BY SheetIs DEF Guests
<1>5. \A s \in Range(L), t \in Range(p.covers) : s.id # t.id
  BY <1>1, <1>4 DEF PaneOK
<1>6. PaneOK(q)
  BY <1>1, <1>2, <1>5 DEF PaneOK
<1>7. Rooted(q) <=> Rooted(p)
  BY <1>2 DEF Rooted
<1>8. SheetsIn(q) = Range(L) \cup Range(p.covers)
  BY <1>2 DEF SheetsIn
<1>9. SheetsIn(q) \subseteq SheetsIn(p) \cup G
  BY <1>8 DEF SheetsIn
<1>12. \A s \in AllSheets(qs) :
          s \in SheetsIn(q) \/ \E j \in DOMAIN ps : j # i /\ s \in SheetsIn(ps[j])
  BY <1>1, <1>2, <1>3, SheetsWith
<1>10. LayoutInv(qs, m)
  <2>1. /\ q \in Pane /\ PaneOK(q) /\ q.id = ps[i].id /\ (Rooted(q) <=> Rooted(ps[i]))
        /\ SheetsIn(q) \subseteq SheetsIn(ps[i]) \cup G
    BY <1>2, <1>6, <1>7, <1>9
  <2>2. \A s \in Range(q.line) : \/ s \in Range(ps[i].line)
                                 \/ \A id \in CardOf(s) : n <= id
    BY <1>2
  <2>3. Replaces(q, ps, i, G, n, m)
    BY <2>1, <2>2 DEF Replaces
  <2> HIDE DEF p, A
  <2> QED
    BY <1>3, <2>3, PaneChanged
<1> QED
  BY <1>8, <1>10, <1>12 DEF qs, LineSheets, CoverSheets

\* A layout stays in order when the Covers of one Pane are.
LEMMA CoversChanged ==
  ASSUME NEW n \in Nat, NEW m \in Nat, n <= m, NEW ps, LayoutInv(ps, n),
         NEW i \in DOMAIN ps, NEW C, NEW G, NewCovers(C, ps, i, G, n, m)
  PROVE  LayoutInv(WithCovers(ps, i, C), m) /\ CoverSheets(ps, i, C)
<1> USE DEF NewCovers
<1> DEFINE p == ps[i]
           q == [ps[i] EXCEPT !.covers = C]
           A == AllSheets(ps)
<1>1. /\ ps \in Seq(Pane) /\ p \in Pane /\ PaneOK(p)
      /\ Range(p.line) \subseteq A /\ Range(p.covers) \subseteq A
      /\ \A s \in A : s.id \in Nat /\ s.id < n
  BY PaneAt DEF LayoutInv
<1>2. /\ q \in Pane /\ q.id = p.id /\ q.line = p.line /\ q.covers = C
  BY <1>1 DEF Pane
<1> DEFINE qs == WithCovers(ps, i, C)
<1>3. qs = With(ps, i, q)
  BY DEF With, WithLine, WithCovers
<1> HIDE DEF q, qs
<1>4. \A s \in G : s.id \in Nat /\ n <= s.id
  BY SheetIs DEF Guests
<1>5. \A s \in Range(p.line), t \in Range(C) : s.id # t.id
  BY <1>1, <1>4 DEF PaneOK
<1>6. PaneOK(q)
  BY <1>1, <1>2, <1>5 DEF PaneOK
<1>7. Rooted(q) <=> Rooted(p)
  BY <1>2 DEF Rooted
<1>8. SheetsIn(q) = Range(p.line) \cup Range(C)
  BY <1>2 DEF SheetsIn
<1>9. SheetsIn(q) \subseteq SheetsIn(p) \cup G
  BY <1>8 DEF SheetsIn
<1>11. \A s \in Range(q.line) : s \in Range(p.line)
  BY <1>2
<1>12. \A s \in AllSheets(qs) :
          s \in SheetsIn(q) \/ \E j \in DOMAIN ps : j # i /\ s \in SheetsIn(ps[j])
  BY <1>1, <1>2, <1>3, SheetsWith
<1>10. LayoutInv(qs, m)
  <2>1. /\ q \in Pane /\ PaneOK(q) /\ q.id = ps[i].id /\ (Rooted(q) <=> Rooted(ps[i]))
        /\ SheetsIn(q) \subseteq SheetsIn(ps[i]) \cup G
    BY <1>2, <1>6, <1>7, <1>9
  <2>2. \A s \in Range(q.line) : \/ s \in Range(ps[i].line)
                                 \/ \A id \in CardOf(s) : n <= id
    BY <1>11
  <2>3. Replaces(q, ps, i, G, n, m)
    BY <2>1, <2>2 DEF Replaces
  <2> HIDE DEF p, A
  <2> QED
    BY <1>3, <2>3, PaneChanged
<1> QED
  BY <1>8, <1>10, <1>12 DEF qs, LineSheets, CoverSheets

\* No guest at all, and one.
LEMMA NoGuests ==
  ASSUME NEW A, NEW n
  PROVE  Guests({}, A, n, n)
BY DEF Guests

\* What a new Sheet must be to join the others.
LEMMA OneGuest ==
  ASSUME NEW A, NEW n \in Nat, NEW m \in Nat, NEW id \in Nat, n <= id, id < m,
         NEW kind \in {"Menu", "MenuItem", "Sheet"}, NEW card \in Presentation \cup {None},
         (card = None) <=> (kind # "Sheet"), card # None => card.id < m,
         \A s \in A : card # None => card.id \notin CardOf(s) /\ Agrees(card, s)
  PROVE  Guests({Rung(id, kind, card)}, A, n, m)
<1> DEFINE g == Rung(id, kind, card)
<1>1. g \in Sheet /\ g.id = id /\ g.kind = kind /\ g.card = card /\ g.deck = None
  BY RungIs
<1> HIDE DEF g
<1>2. CardOf(g) = IF card = None THEN {} ELSE {card.id}
  BY <1>1 DEF CardOf
<1>3. Guests({g}, A, n, m)
  BY <1>1, <1>2 DEF Guests
<1> QED
  BY <1>3 DEF g

\* The shape of a sequence that grows at its end.
LEMMA AppendIs ==
  ASSUME NEW S, NEW s \in Seq(S), NEW e \in S
  PROVE  /\ Append(s, e) \in Seq(S) /\ Append(s, e) # <<>>
         /\ Len(Append(s, e)) = Len(s) + 1
         /\ \A k \in 1..Len(s) : Append(s, e)[k] = s[k]
         /\ Append(s, e)[Len(s) + 1] = e
         /\ Range(Append(s, e)) = Range(s) \cup {e}
<1> DEFINE t == Append(s, e)
<1>1. /\ t \in Seq(S) /\ t # <<>>
      /\ Len(t) = Len(s) + 1 /\ Len(s) \in Nat
      /\ \A k \in 1..Len(s) : t[k] = s[k]
      /\ t[Len(s) + 1] = e
  OBVIOUS
<1> HIDE DEF t
<1>2. \A x : x \in Range(t) <=> \E k \in 1..(Len(s) + 1) : x = t[k]
  BY <1>1, SeqIs
<1>3. \A x : x \in Range(s) <=> \E k \in 1..Len(s) : x = s[k]
  BY SeqIs
<1>4. \A k \in 1..(Len(s) + 1) : k \in 1..Len(s) \/ k = Len(s) + 1
  BY <1>1
<1>5. \A k \in 1..Len(s) : k \in 1..(Len(s) + 1)
  BY <1>1
<1>7. Len(s) + 1 \in 1..(Len(s) + 1)
  BY <1>1
<1>6. \A x : x \in Range(t) <=> (x \in Range(s) \/ x = e)
  BY <1>1, <1>2, <1>3, <1>4, <1>5, <1>7
<1> QED
  BY <1>1, <1>6 DEF t

\* A new Sheet at the end is the only one of its id.
LEMMA SingleAppended ==
  ASSUME NEW sheets \in Seq(Sheet), NEW g \in Sheet, Single(sheets),
         \A s \in Range(sheets) : s.id # g.id
  PROVE  Single(Append(sheets, g))
<1> DEFINE t == Append(sheets, g)
<1>1. /\ t \in Seq(Sheet) /\ Len(t) = Len(sheets) + 1 /\ Len(sheets) \in Nat
      /\ \A k \in 1..Len(sheets) : t[k] = sheets[k]
      /\ t[Len(sheets) + 1] = g
  BY AppendIs
<1>2. DOMAIN t = 1..(Len(sheets) + 1) /\ DOMAIN sheets = 1..Len(sheets)
  BY <1>1, SeqIs
<1>3. \A k \in 1..Len(sheets) : sheets[k].id # g.id
  BY SeqIs
<1> HIDE DEF t
<1>4. Single(t)
  <2> SUFFICES ASSUME NEW j \in DOMAIN t, NEW k \in DOMAIN t, t[j].id = t[k].id PROVE j = k
    BY DEF Single
  <2>1. /\ j \in 1..Len(sheets) \/ j = Len(sheets) + 1
        /\ k \in 1..Len(sheets) \/ k = Len(sheets) + 1
    BY <1>1, <1>2
  <2> QED
    BY <1>1, <1>2, <1>3, <2>1 DEF Single
<1> QED
  BY <1>4 DEF t

\* Some of the Sheets, in their order, are still one of each id.
LEMMA ChosenSingle ==
  ASSUME NEW sheets \in Seq(Sheet), NEW T
  PROVE  /\ Chosen(sheets, T) \in Seq(Sheet)
         /\ Single(sheets) => Single(Chosen(sheets, T))
         /\ \A x : x \in Range(Chosen(sheets, T)) <=> x \in Range(sheets) /\ x \in T
<1> DEFINE t == Chosen(sheets, T)
<1>1. t \in Seq(Sheet) /\ \E g : Positions(g, t, sheets, T, Len(sheets))
  BY ChosenIs
<1>2. PICK g : Positions(g, t, sheets, T, Len(sheets))
  BY <1>1
<1> HIDE DEF t
<1>3. /\ Len(t) \in Nat /\ DOMAIN t = 1..Len(t)
      /\ Len(sheets) \in Nat /\ DOMAIN sheets = 1..Len(sheets)
  BY <1>1, SeqIs
<1>4. /\ \A k \in 1..Len(t) : g[k] \in 1..Len(sheets) /\ t[k] = sheets[g[k]]
      /\ \A k, l \in 1..Len(t) : k < l => g[k] < g[l]
      /\ \A i \in 1..Len(sheets) : sheets[i] \in T <=> \E k \in 1..Len(t) : g[k] = i
  BY <1>2 DEF Positions
<1>5. \A x : x \in Range(t) <=> x \in Range(sheets) /\ x \in T
  <2>1. /\ \A x : x \in Range(t) <=> \E k \in 1..Len(t) : x = t[k]
        /\ \A x : x \in Range(sheets) <=> \E k \in 1..Len(sheets) : x = sheets[k]
    BY <1>1, SeqIs
  <2>2. ASSUME NEW x \in Range(t) PROVE x \in Range(sheets) /\ x \in T
    <3>1. PICK k \in 1..Len(t) : x = t[k]
      BY <2>1
    <3>2. g[k] \in 1..Len(sheets) /\ x = sheets[g[k]]
      BY <1>4, <3>1
    <3> QED
      BY <1>4, <2>1, <3>2
  <2>3. ASSUME NEW x \in Range(sheets), x \in T PROVE x \in Range(t)
    <3>1. PICK i \in 1..Len(sheets) : x = sheets[i]
      BY <2>1
    <3>2. PICK k \in 1..Len(t) : g[k] = i
      BY <1>4, <2>3, <3>1
    <3> QED
      BY <1>4, <2>1, <3>1, <3>2
  <2> QED
    BY <2>2, <2>3
<1>6. Single(sheets) => Single(t)
  <2> SUFFICES ASSUME Single(sheets), NEW j \in 1..Len(t), NEW k \in 1..Len(t), t[j].id = t[k].id
               PROVE  j = k
    BY <1>3 DEF Single
  <2>1. g[j] = g[k]
    BY <1>3, <1>4 DEF Single
  <2>2. j \in Int /\ k \in Int /\ g[j] \in Int /\ g[k] \in Int
    BY <1>3, <1>4
  <2>3. ~(j < k) /\ ~(k < j)
    BY <1>4, <2>1, <2>2
  <2> QED
    BY <2>2, <2>3
<1> QED
  BY <1>1, <1>5, <1>6 DEF t

\* What comes first is chosen as it is.
LEMMA ChosenFirst ==
  ASSUME NEW S, NEW s \in Seq(S), NEW T, NEW k \in 0..Len(s),
         \A i \in 1..Len(s) : s[i] \in T <=> i <= k
  PROVE  /\ Chosen(s, T) \in Seq(S) /\ Len(Chosen(s, T)) = k
         /\ \A i \in 1..k : Chosen(s, T)[i] = s[i]
<1> DEFINE t == Chosen(s, T)
<1>1. t \in Seq(S) /\ \E g : Positions(g, t, s, T, Len(s))
  BY ChosenIs
<1>2. PICK g : Positions(g, t, s, T, Len(s))
  BY <1>1
<1> HIDE DEF t
<1>3. Len(t) \in Nat /\ Len(s) \in Nat /\ k \in Nat /\ k <= Len(s)
  BY <1>1, SeqIs
<1>4. /\ \A j \in 1..Len(t) : g[j] \in 1..Len(s) /\ t[j] = s[g[j]]
      /\ \A j, l \in 1..Len(t) : j < l => g[j] < g[l]
      /\ \A i \in 1..Len(s) : s[i] \in T <=> \E j \in 1..Len(t) : g[j] = i
  BY <1>2 DEF Positions
<1> DEFINE Good == {j \in 0..k : j = 0 \/ (j \in 1..Len(t) /\ g[j] = j)}
<1>5. \A j \in 0..k : j \in Good
  <2>1. 0 \in Good
    BY <1>3
  <2>2. ASSUME NEW j \in 1..k, j - 1 \in Good PROVE j \in Good
    <3>1. j \in 1..Len(s) /\ s[j] \in T
      BY <1>3
    <3>2. PICK l \in 1..Len(t) : g[l] = j
      BY <1>4, <3>1
    <3>3. j - 1 = 0 \/ (j - 1 \in 1..Len(t) /\ g[j - 1] = j - 1)
      BY <2>2
    <3>4. l >= j
      <4>1. CASE j - 1 = 0
        BY <4>1
      <4>2. CASE j - 1 \in 1..Len(t) /\ g[j - 1] = j - 1
        <5>1. l < j - 1 => g[l] < j - 1
          BY <1>4, <4>2
        <5>2. l = j - 1 => g[l] = j - 1
          BY <4>2
        <5> QED
          BY <3>2, <5>1, <5>2
      <4> QED
        BY <3>3, <4>1, <4>2
    <3>5. j \in 1..Len(t) /\ g[j] \in 1..Len(s)
      BY <1>3, <1>4, <3>4
    <3>6. g[j] >= j
      <4>1. CASE j - 1 = 0
        BY <3>5, <4>1
      <4>2. CASE j - 1 \in 1..Len(t) /\ g[j - 1] = j - 1
        <5>1. g[j - 1] < g[j]
          <6>1. j - 1 < j
            BY <1>3
          <6> QED
            BY <1>4, <3>5, <4>2, <6>1
        <5> QED
          BY <3>5, <4>2, <5>1
      <4> QED
        BY <3>3, <4>1, <4>2
    <3>7. j < l => g[j] < g[l]
      BY <1>4, <3>5
    <3>8. l = j
      BY <3>2, <3>4, <3>5, <3>6, <3>7
    <3> QED
      BY <3>2, <3>5, <3>8
  <2> HIDE DEF Good
  <2> QED
    BY <1>3, <2>1, <2>2, CountUp
<1>6. \A j \in 1..k : j \in 1..Len(t) /\ g[j] = j
  BY <1>3, <1>5
<1>7. k <= Len(t)
  <2>1. k = 0 \/ k \in 1..k
    BY <1>3
  <2> QED
    BY <1>3, <1>6, <2>1
<1>8. ~(k < Len(t))
  <2> SUFFICES ASSUME k < Len(t) PROVE FALSE
    OBVIOUS
  <2>1. k + 1 \in 1..Len(t) /\ g[k + 1] \in 1..Len(s)
    BY <1>3, <1>4
  <2>2. s[g[k + 1]] \in T
    BY <1>4, <2>1
  <2>3. g[k + 1] <= k
    BY <2>1, <2>2
  <2>4. k = 0 \/ k \in 1..k
    BY <1>3
  <2>5. CASE k = 0
    BY <2>1, <2>3, <2>5
  <2>6. CASE k \in 1..k
    <3>1. k \in 1..Len(t) /\ g[k] = k
      BY <1>6, <2>6
    <3>2. g[k] < g[k + 1]
      BY <1>3, <1>4, <2>1, <3>1
    <3> QED
      BY <1>3, <2>1, <2>3, <3>1, <3>2
  <2> QED
    BY <2>4, <2>5, <2>6
<1>9. \A i \in 1..k : t[i] = s[i]
  BY <1>4, <1>6
<1> QED
  BY <1>1, <1>3, <1>7, <1>8, <1>9 DEF t

-----------------------------------------------------------------------------
(* What leaves.                                                             *)

\* A later counter keeps a layout in order.
LEMMA LayoutLater ==
  ASSUME NEW n \in Nat, NEW m \in Nat, n <= m, NEW ps, LayoutInv(ps, n)
  PROVE  LayoutInv(ps, m)
<1>1. ps \in Seq(Pane) /\ Frame(ps, n) /\ Cast(AllSheets(ps), n)
  BY DEF LayoutInv, Sound, Frame
<1>2. Cast(AllSheets(ps), m)
  BY <1>1, CastWithin
<1>3. \A i \in DOMAIN ps : ps[i].id \in Nat
  BY <1>1, SheetsAre, PaneIs
<1>4. \A i \in DOMAIN ps : ps[i].id < m
  BY <1>1, <1>3 DEF Frame
<1>5. Frame(ps, m)
  BY <1>1, <1>4 DEF Frame
<1> QED
  BY <1>2, <1>5 DEF LayoutInv, Sound

\* Fewer Sheets are drawn from more.
LEMMA FewerDrawn ==
  ASSUME NEW ps, NEW qs, AllSheets(qs) \subseteq AllSheets(ps)
  PROVE  Drawn(ps, qs)
BY DEF Drawn, Alike

\* No Sheet that is drawn from the others shows the Card of the one that left.
LEMMA GoneApart ==
  ASSUME NEW A, NEW n, Cast(A, n), NEW c \in A, c.card # None,
         NEW qs, \A s \in AllSheets(qs) : s \in A /\ s.id # c.id,
         NEW rs, Drawn(qs, rs), NEW t \in AllSheets(rs)
  PROVE  c.card.id \notin CardOf(t)
<1>1. PICK s \in AllSheets(qs) : Alike(s, t)
  BY DEF Drawn
<1>2. s \in A /\ s # c
  OBVIOUS
<1>3. CardOf(c) \cap CardOf(s) = {}
  BY <1>2 DEF Cast, Apart
<1>4. CardOf(t) = CardOf(s)
  BY <1>1, AlikeAgree
<1> QED
  BY <1>3, <1>4 DEF CardOf

\* Sheets of two Panes differ.
LEMMA PanesDiffer ==
  ASSUME NEW n, NEW ps, Sound(ps, n), NEW i \in DOMAIN ps, NEW j \in DOMAIN ps, i # j,
         NEW s \in SheetsIn(ps[i]), NEW t \in SheetsIn(ps[j])
  PROVE  s.id # t.id
<1>1. IdsIn(ps[i]) \cap IdsIn(ps[j]) = {}
  BY DEF Sound, Frame
<1> QED
  BY <1>1 DEF IdsIn

\* What a layout is after something left it, and its Card collapsed.
Leaving(ps, qs, n) == LayoutInv(qs, n) /\ Drawn(ps, qs)
NotShown(qs, card) == \A t \in AllSheets(qs) : card.id \notin CardOf(t)

\* The Card came in front, and no other left.
TurnedUp(mid, qs, id) == StillOpen(mid, qs) /\ OnTop(mid, qs, id)

\* A Cover leaves: no Sheet shows its Card then, which is in front where it
\* has a slot.
LEMMA CoverLeaves ==
  ASSUME nextId \in Nat, LayoutInv(panes, nextId), NEW i \in DOMAIN panes,
         NEW cover \in Range(panes[i].covers)
  PROVE  /\ Leaving(panes, LeaveCover(i, cover), nextId)
         /\ NotShown(LeaveCover(i, cover), cover.card)
         /\ cover \in AllSheets(panes) /\ cover.card # None
         /\ TurnedUp(WithCovers(panes, i, Without(panes[i].covers, cover.id)),
                     LeaveCover(i, cover), cover.card.id)
<1> DEFINE p == panes[i]
           C == Without(p.covers, cover.id)
           mid == [panes EXCEPT ![i].covers = C]
           A == AllSheets(panes)
<1>1. /\ panes \in Seq(Pane) /\ PaneOK(p) /\ Cast(A, nextId)
      /\ Range(p.line) \subseteq A /\ Range(p.covers) \subseteq A
      /\ p.covers \in Seq(Sheet) /\ Sound(panes, nextId)
  BY PaneAt DEF LayoutInv
<1>2. /\ C \in Seq(Sheet) /\ Single(C)
      /\ \A x : x \in Range(C) => x \in Range(p.covers) /\ x.id # cover.id
  <2> DEFINE T == {c \in Range(p.covers) : c.id # cover.id}
  <2>1. C = Chosen(p.covers, T)
    BY DEF Without
  <2>2. \A x \in T : x.id # cover.id
    OBVIOUS
  <2> HIDE DEF T
  <2>3. /\ Chosen(p.covers, T) \in Seq(Sheet) /\ Single(Chosen(p.covers, T))
        /\ \A x : x \in Range(Chosen(p.covers, T)) => x \in Range(p.covers) /\ x \in T
    BY <1>1, ChosenSingle DEF PaneOK
  <2> QED
    BY <2>1, <2>2, <2>3
<1> HIDE DEF C
<1>3. Guests({}, A, nextId, nextId)
  BY NoGuests
<1>4. /\ LayoutInv(mid, nextId)
      /\ \A s \in AllSheets(mid) :
            \/ s \in Range(p.line) \cup Range(C)
            \/ \E j \in DOMAIN panes : j # i /\ s \in SheetsIn(panes[j])
  <2>1. /\ \A c \in Range(C) : c.kind = "Sheet"
        /\ Range(C) \subseteq Range(panes[i].covers) \cup {}
    BY <1>1, <1>2 DEF PaneOK
  <2>2. NewCovers(C, panes, i, {}, nextId, nextId)
    BY <1>2, <1>3, <2>1 DEF NewCovers
  <2>3. mid = WithCovers(panes, i, C)
    BY DEF WithCovers
  <2> HIDE DEF mid, p, A
  <2>4. LayoutInv(mid, nextId) /\ CoverSheets(panes, i, C)
    BY <2>2, <2>3, CoversChanged
  <2> QED
    BY <2>3, <2>4 DEF CoverSheets, p
<1> HIDE DEF mid
<1>5. cover \in A /\ cover.card # None
  <2>1. cover.kind = "Sheet" /\ cover \in A
    BY <1>1 DEF PaneOK
  <2> QED
    BY <1>1, <2>1 DEF Cast, SheetInv
<1>6. ASSUME NEW s \in AllSheets(mid) PROVE s \in A /\ s.id # cover.id
  <2>1. CASE s \in Range(p.line)
    BY <1>1, <2>1 DEF PaneOK
  <2>2. CASE s \in Range(C)
    BY <1>1, <1>2, <2>2
  <2>3. CASE \E j \in DOMAIN panes : j # i /\ s \in SheetsIn(panes[j])
    <3>1. PICK j \in DOMAIN panes : j # i /\ s \in SheetsIn(panes[j])
      BY <2>3
    <3>2. cover \in SheetsIn(panes[i])
      BY DEF SheetsIn
    <3>3. s.id # cover.id
      BY <1>1, <3>1, <3>2, PanesDiffer
    <3>4. s \in A
      BY <1>1, <3>1, SheetsAre
    <3> QED
      BY <3>3, <3>4
  <2> QED
    BY <1>4, <2>1, <2>2, <2>3
<1>7. LeaveCover(i, cover) = CollapseTo(mid, cover.card.id)
  BY DEF LeaveCover, mid, C
<1> DEFINE rs == CollapseTo(mid, cover.card.id)
<1>8. LayoutInv(rs, nextId) /\ Drawn(mid, rs) /\ TurnedUp(mid, rs, cover.card.id)
  BY <1>4, CollapseIs DEF TurnedUp
<1> HIDE DEF rs
<1>9. Drawn(panes, rs)
  <2>1. Drawn(panes, mid)
    BY <1>6, FewerDrawn
  <2> QED
    BY <1>8, <2>1, DrawnTwice
<1>10. NotShown(rs, cover.card)
  BY <1>1, <1>5, <1>6, <1>8, GoneApart DEF NotShown
<1>11. mid = WithCovers(panes, i, Without(panes[i].covers, cover.id))
  BY DEF mid, C, WithCovers
<1> QED
  BY <1>5, <1>7, <1>8, <1>9, <1>10, <1>11 DEF Leaving, rs

\* A Floating Pane closes: no Sheet shows the Card of its Ground then, which
\* is in front where it has a slot.
LEMMA PaneLeaves ==
  ASSUME nextId \in Nat, LayoutInv(panes, nextId), NEW i \in DOMAIN panes, ~Rooted(panes[i])
  PROVE  /\ Leaving(panes, RemovedPane(i), nextId)
         /\ Ground(panes[i]).card # None => NotShown(RemovedPane(i), Ground(panes[i]).card)
         /\ TurnedUp(RemoveAt(panes, i), RemovedPane(i), Ground(panes[i]).card.id)
<1> DEFINE p == panes[i]
           mid == RemoveAt(panes, i)
           A == AllSheets(panes)
           g == Ground(p)
           rs == CollapseTo(mid, g.card.id)
<1>1. /\ panes \in Seq(Pane) /\ PaneOK(p) /\ Cast(A, nextId)
      /\ Range(p.line) \subseteq A /\ Sound(panes, nextId)
      /\ p.line \in Seq(Sheet) /\ p.line # <<>>
  BY PaneAt DEF LayoutInv
<1>2. g \in Range(p.line)
  <2>1. Len(p.line) \in 1..Len(p.line)
    BY <1>1
  <2> QED
    BY <1>1, <2>1, SeqIs DEF Ground, Last
<1> HIDE DEF g
<1>3. /\ LayoutInv(mid, nextId)
      /\ \A s \in AllSheets(mid) : \E j \in DOMAIN panes : j # i /\ s \in SheetsIn(panes[j])
  BY PaneRemoved
<1> HIDE DEF mid
<1>4. ASSUME NEW s \in AllSheets(mid) PROVE s \in A /\ s.id # g.id
  <2>1. PICK j \in DOMAIN panes : j # i /\ s \in SheetsIn(panes[j])
    BY <1>3
  <2>2. g \in SheetsIn(panes[i])
    BY <1>2 DEF SheetsIn
  <2>3. s.id # g.id
    BY <1>1, <2>1, <2>2, PanesDiffer
  <2>4. s \in A
    BY <1>1, <2>1, SheetsAre
  <2> QED
    BY <2>3, <2>4
<1>5. LayoutInv(rs, nextId) /\ Drawn(mid, rs) /\ TurnedUp(mid, rs, g.card.id)
  BY <1>3, CollapseIs DEF TurnedUp
<1>6. RemovedPane(i) = rs
  BY DEF RemovedPane, mid, g
<1> HIDE DEF rs
<1>7. Drawn(panes, rs)
  <2>1. Drawn(panes, mid)
    BY <1>4, FewerDrawn
  <2> QED
    BY <1>5, <2>1, DrawnTwice
<1>8. g.card # None => NotShown(rs, g.card)
  BY <1>1, <1>2, <1>4, <1>5, GoneApart DEF NotShown
<1> QED
  BY <1>5, <1>6, <1>7, <1>8 DEF Leaving, g, mid

\* The shape of a sequence but for its last.
LEMMA FrontIs ==
  ASSUME NEW S, NEW s \in Seq(S), Len(s) > 1
  PROVE  /\ Front(s) \in Seq(S) /\ Len(Front(s)) = Len(s) - 1 /\ Front(s) # <<>>
         /\ \A k \in 1..(Len(s) - 1) : Front(s)[k] = s[k]
         /\ Last(s) = s[Len(s)]
<1> DEFINE t == SubSeq(s, 1, Len(s) - 1)
<1>1. t \in Seq(S) /\ Len(t) = Len(s) - 1 /\ \A k \in 1..(Len(s) - 1) : t[k] = s[k]
  OBVIOUS
<1>2. Front(s) = t
  BY DEF Front
<1> HIDE DEF t
<1> QED
  BY <1>1, <1>2 DEF Last

\* A Rooted Pane steps down: no Sheet shows the Card of its Ground then.
LEMMA StepLeaves ==
  ASSUME nextId \in Nat, LayoutInv(panes, nextId), NEW i \in DOMAIN panes, CanStepDown(panes[i])
  PROVE  /\ Leaving(panes, StepDown(i), nextId)
         /\ Ground(panes[i]).card # None => NotShown(StepDown(i), Ground(panes[i]).card)
<1> DEFINE p == panes[i]
           L == Front(p.line)
           A == AllSheets(panes)
           g == Ground(p)
           qs == [panes EXCEPT ![i].line = L]
<1>1. /\ panes \in Seq(Pane) /\ PaneOK(p) /\ Cast(A, nextId)
      /\ Range(p.line) \subseteq A /\ Range(p.covers) \subseteq A /\ Sound(panes, nextId)
      /\ p.line \in Seq(Sheet)
  BY PaneAt DEF LayoutInv
<1>2. Len(p.line) > 1 /\ Rooted(p) /\ Len(p.line) \in Nat
  BY <1>1 DEF CanStepDown
<1>3. /\ L \in Seq(Sheet) /\ Len(L) = Len(p.line) - 1 /\ L # <<>>
      /\ \A k \in 1..(Len(p.line) - 1) : L[k] = p.line[k]
      /\ g = p.line[Len(p.line)]
  BY <1>1, <1>2, FrontIs DEF Ground
<1> HIDE DEF L, g
<1>4. /\ DOMAIN p.line = 1..Len(p.line) /\ DOMAIN L = 1..(Len(p.line) - 1)
      /\ \A k \in DOMAIN L : k \in DOMAIN p.line /\ L[k] = p.line[k] /\ k # Len(p.line)
      /\ 1 \in DOMAIN L /\ Len(p.line) \in DOMAIN p.line
  <2>1. DOMAIN p.line = 1..Len(p.line) /\ DOMAIN L = 1..(Len(p.line) - 1)
    BY <1>1, <1>3, SeqIs
  <2> QED
    BY <1>2, <1>3, <2>1
<1>5. LineOK(L) /\ L[1].kind = "Menu"
  <2>1. LineOK(p.line) /\ p.line[1].kind = "Menu"
    BY <1>1, <1>2 DEF PaneOK, Rooted
  <2> QED
    BY <1>4, <2>1 DEF LineOK
<1>6. Single(L)
  BY <1>1, <1>4 DEF PaneOK, Single
<1>7. ASSUME NEW s \in Range(L) PROVE s \in Range(p.line) /\ s.id # g.id
  <2>1. PICK k \in DOMAIN L : s = L[k]
    BY DEF Range
  <2>2. s = p.line[k] /\ k \in DOMAIN p.line /\ k # Len(p.line)
    BY <1>4, <2>1
  <2>3. s.id # g.id
    BY <1>1, <1>3, <1>4, <2>2 DEF PaneOK, Single
  <2> QED
    BY <2>2, <2>3 DEF Range
<1>8. Guests({}, A, nextId, nextId)
  BY NoGuests
<1>9. /\ LayoutInv(qs, nextId)
      /\ \A s \in AllSheets(qs) :
            \/ s \in Range(L) \cup Range(p.covers)
            \/ \E j \in DOMAIN panes : j # i /\ s \in SheetsIn(panes[j])
  <2>1. \A s \in Range(L) : s \in Range(panes[i].line)
    BY <1>7
  <2>2. L[1].kind = "Menu" <=> Rooted(panes[i])
    BY <1>2, <1>5
  <2>3. NewLine(L, panes, i, {}, nextId, nextId)
    <3>1. \A s \in Range(L) : \/ s \in Range(panes[i].line)
                              \/ s \in {} /\ \A id \in CardOf(s) : nextId <= id
      BY <2>1
    <3>2. L \in Seq(Sheet) /\ L # <<>> /\ LineOK(L) /\ Single(L)
      BY <1>3, <1>5, <1>6
    <3> HIDE DEF p
    <3> QED
      BY <1>8, <2>2, <3>1, <3>2 DEF NewLine
  <2>4. qs = WithLine(panes, i, L)
    BY DEF WithLine
  <2> HIDE DEF qs, p, A
  <2>5. LayoutInv(qs, nextId) /\ LineSheets(panes, i, L)
    BY <2>3, <2>4, LineChanged
  <2> QED
    BY <2>4, <2>5 DEF LineSheets, p
<1>10. qs = StepDown(i)
  BY DEF StepDown, L
<1> HIDE DEF qs
<1>11. g \in Range(p.line)
  BY <1>3, <1>4 DEF Range
<1>12. ASSUME NEW s \in AllSheets(qs) PROVE s \in A /\ s.id # g.id
  <2>1. CASE s \in Range(L)
    BY <1>1, <1>7, <2>1
  <2>2. CASE s \in Range(p.covers)
    BY <1>1, <1>11, <2>2 DEF PaneOK
  <2>3. CASE \E j \in DOMAIN panes : j # i /\ s \in SheetsIn(panes[j])
    <3>1. PICK j \in DOMAIN panes : j # i /\ s \in SheetsIn(panes[j])
      BY <2>3
    <3>2. g \in SheetsIn(panes[i])
      BY <1>11 DEF SheetsIn
    <3>3. s.id # g.id
      BY <1>1, <3>1, <3>2, PanesDiffer
    <3>4. s \in A
      BY <1>1, <3>1, SheetsAre
    <3> QED
      BY <3>3, <3>4
  <2> QED
    BY <1>9, <2>1, <2>2, <2>3
<1>13. Drawn(panes, qs) /\ Drawn(qs, qs)
  BY <1>12, FewerDrawn
<1>14. g.card # None => NotShown(qs, g.card)
  BY <1>1, <1>11, <1>12, <1>13, GoneApart DEF NotShown
<1> QED
  BY <1>9, <1>10, <1>13, <1>14 DEF Leaving, g

-----------------------------------------------------------------------------
(* The steps.                                                               *)

\* An Active Pane is always one of the layout.
LEMMA Laid ==
  ASSUME NEW ps, NEW n, LayoutInv(ps, n), WithLayout(ps)
  PROVE  panes' = ps /\ active' \in PaneIds(panes')
<1>1. panes' = ps /\ active' = ActiveIn(ps)
  BY DEF WithLayout
<1>2. ps \in Seq(Pane) /\ \E p \in Range(ps) : Rooted(p)
  BY DEF LayoutInv, Sound, Frame
<1>3. PICK i \in DOMAIN ps : TRUE
  BY <1>2, SheetsAre
<1>4. 1 \in DOMAIN ps
  BY <1>2, <1>3, SheetsAre
<1>5. ps[1].id \in PaneIds(ps)
  BY <1>2, <1>4, SheetsAre DEF PaneIds
<1> QED
  BY <1>1, <1>5 DEF ActiveIn

\* A step that leaves no Card in hand.
LEMMA ThenFree ==
  ASSUME nextId' \in Nat, LayoutInv(panes', nextId'), active' \in PaneIds(panes'), held' = None
  PROVE  IInv'
BY DEF IInv, Free, CheckpointKeepsUp

\* A step that lays out a layout in order, with no Card in hand, keeps the
\* invariant.
LEMMA LaidFree ==
  ASSUME nextId' \in Nat, NEW ps, LayoutInv(ps, nextId'), WithLayout(ps), held' = None
  PROVE  IInv'
<1>1. panes' = ps /\ active' \in PaneIds(panes')
  BY Laid
<1> QED
  BY <1>1, ThenFree

\* A layout is drawn from itself.
LEMMA DrawnSelf ==
  ASSUME NEW ps
  PROVE  Drawn(ps, ps)
BY DEF Drawn, Alike

\* Decks by one id, in a layout and in one drawn from it, have the same Cards.
LEMMA DrawnKeepsUp ==
  ASSUME NEW n \in Nat, NEW m \in Nat, NEW ps, LayoutInv(ps, n),
         NEW qs, LayoutInv(qs, m), Drawn(ps, qs),
         NEW s \in Dealers(qs), NEW t \in Dealers(ps), s.deck.id = t.deck.id
  PROVE  s.deck.cards = t.deck.cards
<1>1. s \in AllSheets(qs) /\ s.deck # None /\ t \in AllSheets(ps) /\ t.deck # None
  BY ShownWithin DEF Dealers, LayoutInv
<1>2. PICK u \in AllSheets(ps) : Alike(u, s)
  BY <1>1 DEF Drawn
<1>3. u.deck # None /\ u.deck.id = s.deck.id /\ u.deck.cards = s.deck.cards
  BY <1>1, <1>2 DEF Alike
<1>4. DeckOf(u) \cap DeckOf(t) # {}
  BY <1>1, <1>3 DEF DeckOf
<1>5. u = t
  BY <1>1, <1>4 DEF LayoutInv, Sound, Cast, Apart
<1> QED
  BY <1>3, <1>5

\* A step that takes a Card in hand.
LEMMA ThenHeld ==
  ASSUME IInv, nextId' \in Nat, nextId <= nextId',
         NEW card \in Presentation, card.id < nextId', \A t \in AllSheets(panes) : Agrees(card, t),
         NEW origin \in {"Deck", "Cover", "FloatingGround", "RootedGround", "Fresh"},
         Hold(card, origin), active' \in PaneIds(panes'),
         Leaving(panes, panes', nextId'), NotShown(panes', card)
  PROVE  IInv'
<1>1. /\ nextId \in Nat /\ LayoutInv(panes, nextId) /\ active \in PaneIds(panes)
  BY DEF IInv
<1>2. held' = [card |-> card, origin |-> origin,
               panes |-> panes, active |-> active, nextId |-> nextId]
  BY DEF Hold
<1>3. /\ held'.card = card /\ held'.origin = origin /\ held'.panes = panes
      /\ held'.active = active /\ held'.nextId = nextId
      /\ held' = [card |-> held'.card, origin |-> held'.origin, panes |-> held'.panes,
                  active |-> held'.active, nextId |-> held'.nextId]
  BY <1>2
<1>4. LayoutInv(panes', nextId') /\ Drawn(panes, panes')
  BY DEF Leaving
<1>5. LayoutInv(panes, nextId')
  BY <1>1, LayoutLater
<1>6. \A t \in AllSheets(panes') : Agrees(card, t)
  BY <1>4, AlikeAgree DEF Drawn
<1>7. HeldInv'
  BY <1>1, <1>3, <1>5, <1>6 DEF HeldInv, NotShown
<1>8. CheckpointKeepsUp'
  <2>1. \A s \in Dealers(panes'), t \in Dealers(panes) :
           s.deck.id = t.deck.id => s.deck.cards = t.deck.cards
    BY <1>1, <1>4, DrawnKeepsUp
  <2> QED
    BY <1>3, <2>1 DEF CheckpointKeepsUp
<1> QED
  BY <1>4, <1>7, <1>8 DEF IInv

-----------------------------------------------------------------------------
(* The line.                                                                *)

\* A guest is none of the Sheets that were there.
LEMMA GuestDiffers ==
  ASSUME NEW n \in Nat, NEW m, NEW A, Cast(A, n), NEW G, Guests(G, A, n, m),
         NEW g \in G, NEW s \in A
  PROVE  s.id # g.id /\ g \in Sheet
<1>1. s.id \in Nat /\ s.id < n
  BY SheetIs DEF Cast, SheetInv, Known
<1>2. g.id \in Nat /\ n <= g.id
  BY SheetIs DEF Guests
<1> QED
  BY <1>1, <1>2 DEF Guests

\* One rung more, of the next kind.
LEMMA LineGrows ==
  ASSUME NEW n \in Nat, NEW m \in Nat, n <= m, NEW ps, LayoutInv(ps, n), NEW i \in DOMAIN ps,
         NEW g, Guests({g}, AllSheets(ps), n, m), \A id \in CardOf(g) : n <= id,
         \/ Ground(ps[i]).kind = "Menu" /\ g.kind = "MenuItem"
         \/ Ground(ps[i]).kind = "MenuItem" /\ g.kind = "Sheet"
  PROVE  LayoutInv(WithLine(ps, i, Append(ps[i].line, g)), m)
<1> DEFINE line == ps[i].line
           L == Append(line, g)
<1>1. /\ ps \in Seq(Pane) /\ PaneOK(ps[i]) /\ Cast(AllSheets(ps), n)
      /\ line \in Seq(Sheet) /\ line # <<>> /\ Range(line) \subseteq AllSheets(ps)
  BY PaneAt DEF LayoutInv
<1>2. g \in Sheet /\ \A s \in Range(line) : s.id # g.id
  <2>1. g \in Sheet
    BY DEF Guests
  <2> QED
    BY <1>1, <2>1, GuestDiffers
<1>3. LineOK(line) /\ Single(line)
  BY <1>1 DEF PaneOK
<1>4. /\ L \in Seq(Sheet) /\ L # <<>> /\ Len(L) = Len(line) + 1 /\ Len(line) \in Nat
      /\ \A k \in 1..Len(line) : L[k] = line[k]
      /\ L[Len(line) + 1] = g
      /\ Range(L) = Range(line) \cup {g}
  BY <1>1, <1>2, AppendIs
<1>5. Single(L)
  BY <1>1, <1>2, <1>3, SingleAppended
<1>6. /\ DOMAIN line = 1..Len(line) /\ DOMAIN L = 1..(Len(line) + 1) /\ Len(line) >= 1
      /\ Ground(ps[i]) = line[Len(line)]
  <2>1. DOMAIN line = 1..Len(line) /\ DOMAIN L = 1..(Len(line) + 1)
    BY <1>1, <1>4, SeqIs
  <2> QED
    BY <1>1, <2>1 DEF Ground, Last
<1> HIDE DEF L, line
<1>7. \/ Len(line) = 1 /\ line[1].kind = "Menu" /\ g.kind = "MenuItem"
      \/ Len(line) = 2 /\ line[1].kind = "Menu" /\ line[2].kind = "MenuItem" /\ g.kind = "Sheet"
  <2>1. Len(line) \in DOMAIN line /\ 1 \in DOMAIN line
    BY <1>4, <1>6
  <2>2. CASE Len(line) = 1 /\ line[1].kind = "Sheet"
    BY <1>6, <2>2
  <2>3. CASE \A j \in DOMAIN line :
               line[j].kind = IF j = 1 THEN "Menu" ELSE IF j = 2 THEN "MenuItem" ELSE "Sheet"
    <3>1. line[1].kind = "Menu"
      BY <2>1, <2>3
    <3>2. line[Len(line)].kind =
            IF Len(line) = 1 THEN "Menu" ELSE IF Len(line) = 2 THEN "MenuItem" ELSE "Sheet"
      BY <2>1, <2>3
    <3> QED
      BY <1>6, <3>1, <3>2
  <2> QED
    BY <1>3, <2>2, <2>3 DEF LineOK
<1>8. LineOK(L) /\ L[1] = line[1]
  <2>1. L[1] = line[1]
    BY <1>4, <1>6
  <2>2. \A j \in DOMAIN L :
           L[j].kind = IF j = 1 THEN "Menu" ELSE IF j = 2 THEN "MenuItem" ELSE "Sheet"
    <3>1. CASE Len(line) = 1 /\ line[1].kind = "Menu" /\ g.kind = "MenuItem"
      BY <1>4, <1>6, <3>1
    <3>2. CASE Len(line) = 2 /\ line[1].kind = "Menu" /\ line[2].kind = "MenuItem" /\ g.kind = "Sheet"
      BY <1>4, <1>6, <3>2
    <3> QED
      BY <1>7, <3>1, <3>2
  <2> QED
    BY <2>1, <2>2 DEF LineOK
<1>9. NewLine(L, ps, i, {g}, n, m)
  <2>1. L[1].kind = "Menu" <=> Rooted(ps[i])
    BY <1>8 DEF Rooted, line
  <2>2. \A s \in Range(L) : \/ s \in Range(ps[i].line)
                            \/ s \in {g} /\ \A id \in CardOf(s) : n <= id
    BY <1>4 DEF line
  <2> QED
    BY <1>4, <1>5, <1>8, <2>1, <2>2 DEF NewLine
<1>10. LayoutInv(WithLine(ps, i, L), m)
  BY <1>9, LineChanged
<1> QED
  BY <1>10 DEF L, line

\* The Subject that is opened is a new Presentation.
LEMMA FreshGuest ==
  ASSUME NEW A, NEW n \in Nat, NEW m \in Nat, Cast(A, n), NEW id \in Nat, n <= id, id < m,
         NEW c \in Nat, n <= c, c < m
  PROVE  /\ Guests({Rung(id, "Sheet", Fresh(c))}, A, n, m)
         /\ CardOf(Rung(id, "Sheet", Fresh(c))) = {c}
<1>1. Fresh(c) \in Presentation /\ Fresh(c).id = c /\ Fresh(c) # None
  BY FreshIs
<1> DEFINE card == Fresh(c)
<1> HIDE DEF card
<1>2. card \in Presentation /\ card.id = c /\ card # None
  BY <1>1 DEF card
<1>3. \A s \in A : card.id \notin CardOf(s) /\ Agrees(card, s)
  BY <1>2, NewCardApart
<1>4. Guests({Rung(id, "Sheet", card)}, A, n, m)
  BY <1>2, <1>3, OneGuest
<1>5. CardOf(Rung(id, "Sheet", card)) = {c}
  BY <1>2, RungIs DEF CardOf
<1> QED
  BY <1>4, <1>5 DEF card

\* A rung without a Presentation, under a new id, is a guest.
LEMMA BareGuest ==
  ASSUME NEW A, NEW n \in Nat, NEW m \in Nat, NEW id \in Nat, n <= id, id < m,
         NEW kind \in {"Menu", "MenuItem"}
  PROVE  /\ Guests({Rung(id, kind, None)}, A, n, m)
         /\ CardOf(Rung(id, kind, None)) = {}
<1>1. CardOf(Rung(id, kind, None)) = {}
  BY RungIs DEF CardOf
<1>2. Guests({Rung(id, kind, None)}, A, n, m)
  BY OneGuest
<1> QED
  BY <1>1, <1>2

\* A line steps up to its next rung.
LEMMA StepUpInv ==
  ASSUME IInv, NEW i \in DOMAIN panes, StepUp(i)
  PROVE  IInv'
<1>1. nextId \in Nat /\ LayoutInv(panes, nextId) /\ Cast(AllSheets(panes), nextId)
  BY DEF IInv, LayoutInv, Sound
<1>2. held = None /\ held' = held
  BY DEF StepUp, Free
<1>3. CASE /\ Ground(panes[i]).kind = "Menu" /\ Mint(1)
           /\ WithLayout([panes EXCEPT ![i].line = Append(@, Rung(nextId, "MenuItem", None))])
  <2> DEFINE g == Rung(nextId, "MenuItem", None)
  <2>1. nextId' = nextId + 1 /\ nextId' \in Nat /\ nextId <= nextId' /\ nextId < nextId' /\ nextId <= nextId
    BY <1>1, <1>3 DEF Mint
  <2>2. Guests({g}, AllSheets(panes), nextId, nextId') /\ CardOf(g) = {}
    BY <1>1, <2>1, BareGuest
  <2>5. g.kind = "MenuItem"
    BY DEF Rung
  <2> HIDE DEF g
  <2>6. \A id \in CardOf(g) : nextId <= id
    BY <2>2
  <2>3. LayoutInv(WithLine(panes, i, Append(panes[i].line, g)), nextId')
    BY <1>1, <1>3, <2>1, <2>2, <2>5, <2>6, LineGrows
  <2>4. WithLayout(WithLine(panes, i, Append(panes[i].line, g)))
    BY <1>3 DEF WithLine, g
  <2> QED
    BY <1>1, <1>2, <2>1, <2>3, <2>4, LaidFree
<1>4. CASE /\ Ground(panes[i]).kind = "MenuItem" /\ Mint(2)
           /\ WithLayout([panes EXCEPT ![i].line = Append(@, Rung(nextId, "Sheet", Fresh(nextId + 1)))])
  <2> DEFINE g == Rung(nextId, "Sheet", Fresh(nextId + 1))
  <2>1. /\ nextId' = nextId + 2 /\ nextId' \in Nat /\ nextId <= nextId'
        /\ nextId < nextId' /\ nextId <= nextId
        /\ nextId + 1 \in Nat /\ nextId <= nextId + 1 /\ nextId + 1 < nextId'
    BY <1>1, <1>4 DEF Mint
  <2>2. Guests({g}, AllSheets(panes), nextId, nextId') /\ CardOf(g) = {nextId + 1}
    BY <1>1, <2>1, FreshGuest
  <2>5. g.kind = "Sheet"
    BY DEF Rung
  <2> HIDE DEF g
  <2>6. \A id \in CardOf(g) : nextId <= id
    BY <1>1, <2>2
  <2>3. LayoutInv(WithLine(panes, i, Append(panes[i].line, g)), nextId')
    BY <1>1, <1>4, <2>1, <2>2, <2>5, <2>6, LineGrows
  <2>4. WithLayout(WithLine(panes, i, Append(panes[i].line, g)))
    BY <1>4 DEF WithLine, g
  <2> QED
    BY <1>1, <1>2, <2>1, <2>3, <2>4, LaidFree
<1> QED
  BY <1>3, <1>4 DEF StepUp

\* A walk keeps a line's first rungs and steps up from there.
Base(line) == Chosen(line, {rung \in Range(line) : rung.kind # "Sheet"})
Walked(line, keep, walked) ==
    Base(line) \o SubSeq(SubSeq(line, Len(Base(line)) + 1, Len(line)), 1, keep) \o walked

\* The part of a line that a walk keeps: Menu and Menu Item, or nothing of a
\* Floating line.
LEMMA BaseIs ==
  ASSUME NEW line \in Seq(Sheet), line # <<>>, LineOK(line)
  PROVE  /\ Base(line) \in Seq(Sheet) /\ Len(Base(line)) \in 0..Len(line)
         /\ \A j \in 1..Len(Base(line)) : Base(line)[j] = line[j]
         /\ \/ /\ line[1].kind = "Menu" /\ Len(Base(line)) \in 1..2
               /\ \A j \in 1..Len(line) : line[j].kind =
                     IF j = 1 THEN "Menu" ELSE IF j = 2 THEN "MenuItem" ELSE "Sheet"
            \/ line[1].kind # "Menu" /\ Len(Base(line)) = 0 /\ Len(line) = 1
<1> DEFINE T == {rung \in Range(line) : rung.kind # "Sheet"}
<1>1. /\ Len(line) \in Nat /\ DOMAIN line = 1..Len(line) /\ Len(line) >= 1
      /\ 1 \in 1..Len(line)
      /\ \A j \in 1..Len(line) : line[j] \in T <=> line[j].kind # "Sheet"
  <2>1. Len(line) \in Nat /\ DOMAIN line = 1..Len(line) /\ Len(line) >= 1
    OBVIOUS
  <2>2. \A j \in 1..Len(line) : line[j] \in Range(line)
    BY SeqIs
  <2> QED
    BY <2>1, <2>2
<1>2. Base(line) = Chosen(line, T)
  BY DEF Base
<1> HIDE DEF T
<1>3. CASE Len(line) = 1 /\ line[1].kind = "Sheet"
  <2>1. 0 \in 0..Len(line) /\ \A j \in 1..Len(line) : line[j] \in T <=> j <= 0
    BY <1>1, <1>3
  <2>2. Base(line) \in Seq(Sheet) /\ Len(Base(line)) = 0
    BY <1>2, <2>1, ChosenFirst
  <2> QED
    BY <1>1, <1>3, <2>2
<1>4. CASE \A j \in DOMAIN line :
              line[j].kind = IF j = 1 THEN "Menu" ELSE IF j = 2 THEN "MenuItem" ELSE "Sheet"
  <2> DEFINE k == IF Len(line) = 1 THEN 1 ELSE 2
  <2>1. k \in 0..Len(line) /\ k \in 1..2 /\ \A j \in 1..Len(line) : line[j] \in T <=> j <= k
    BY <1>1, <1>4
  <2> HIDE DEF k
  <2>2. /\ Chosen(line, T) \in Seq(Sheet) /\ Len(Chosen(line, T)) = k
        /\ \A j \in 1..k : Chosen(line, T)[j] = line[j]
    BY <2>1, ChosenFirst
  <2>3. line[1].kind = "Menu"
    BY <1>1, <1>4
  <2> QED
    BY <1>1, <1>2, <1>4, <2>1, <2>2, <2>3
<1> QED
  BY <1>3, <1>4 DEF LineOK

\* What a walk may do.
Walks(line, keep, walked, n) ==
    /\ line \in Seq(Sheet) /\ line # <<>> /\ LineOK(line)
    /\ keep \in Nat /\ keep <= Len(line) - Len(Base(line))
    /\ walked \in Seq(Sheet) /\ n \in Nat /\ n > 0 /\ Len(walked) = n
    /\ \A j \in 1..n : walked[j].kind = "Sheet"
    /\ IF line[1].kind = "Menu" THEN Last(Base(line)).kind = "MenuItem" ELSE keep = 0 /\ n = 1

\* The line L after it: some of the old rungs, and the new ones.
WalkedOn(L, line, walked, n) ==
    /\ L \in Seq(Sheet) /\ LineOK(L)
    /\ L[1].kind = "Menu" <=> line[1].kind = "Menu"
    /\ \E k \in 0..Len(line) : /\ Len(L) = k + n
                               /\ \A j \in 1..k : L[j] = line[j]
                               /\ \A j \in 1..n : L[k + j] = walked[j]

\* A line that was walked on is one, of old rungs and the new.
LEMMA WalkedIs ==
  ASSUME NEW line, NEW keep, NEW walked, NEW n, Walks(line, keep, walked, n)
  PROVE  WalkedOn(Walked(line, keep, walked), line, walked, n)
<1> DEFINE b == Base(line)
           sheets == SubSeq(line, Len(b) + 1, Len(line))
           kept == SubSeq(sheets, 1, keep)
           c == b \o kept
           L == c \o walked
           k == Len(b) + keep
<1> USE DEF Walks
<1>1. /\ b \in Seq(Sheet) /\ Len(b) \in 0..Len(line)
      /\ \A j \in 1..Len(b) : b[j] = line[j]
      /\ \/ /\ line[1].kind = "Menu" /\ Len(b) \in 1..2
            /\ \A j \in 1..Len(line) : line[j].kind =
                  IF j = 1 THEN "Menu" ELSE IF j = 2 THEN "MenuItem" ELSE "Sheet"
         \/ line[1].kind # "Menu" /\ Len(b) = 0 /\ Len(line) = 1
  BY BaseIs
<1>2. Walked(line, keep, walked) = L
  BY DEF Walked
<1> HIDE DEF b
<1>3. Len(line) \in Nat /\ Len(b) \in Nat /\ keep <= Len(line) - Len(b) /\ k \in 0..Len(line)
  BY <1>1 DEF b
<1>4. /\ sheets \in Seq(Sheet) /\ Len(sheets) = Len(line) - Len(b)
      /\ \A j \in 1..(Len(line) - Len(b)) : sheets[j] = line[Len(b) + j]
  <2>1. Len(b) + 1 \in 1..(Len(line) + 1)
    BY <1>1, <1>3
  <2> QED
    BY <1>3, <2>1
<1> HIDE DEF sheets
<1>5. /\ kept \in Seq(Sheet) /\ Len(kept) = keep
      /\ \A j \in 1..keep : kept[j] = sheets[j]
  BY <1>3, <1>4
<1> HIDE DEF kept
<1>6. /\ c \in Seq(Sheet) /\ Len(c) = k
      /\ \A j \in 1..k : c[j] = IF j <= Len(b) THEN b[j] ELSE kept[j - Len(b)]
  <2>1. /\ c \in Seq(Sheet) /\ Len(c) = Len(b) + Len(kept)
        /\ \A j \in 1..(Len(b) + Len(kept)) : c[j] = IF j <= Len(b) THEN b[j] ELSE kept[j - Len(b)]
    BY <1>1, <1>5, ConcatIs
  <2> HIDE DEF c
  <2> QED
    BY <1>5, <2>1
<1> HIDE DEF c
<1>7. \A j \in 1..k : c[j] = line[j]
  <2> SUFFICES ASSUME NEW j \in 1..k PROVE c[j] = line[j]
    OBVIOUS
  <2>1. CASE j <= Len(b)
    BY <1>1, <1>3, <1>6, <2>1
  <2>2. CASE j > Len(b)
    <3>1. j - Len(b) \in 1..keep /\ j - Len(b) \in 1..(Len(line) - Len(b))
      BY <1>3, <2>2
    <3>2. Len(b) + (j - Len(b)) = j
      BY <1>3
    <3>3. c[j] = kept[j - Len(b)]
      BY <1>3, <1>6, <2>2
    <3> QED
      BY <1>4, <1>5, <3>1, <3>2, <3>3
  <2> QED
    BY <1>3, <2>1, <2>2
<1>8. /\ L \in Seq(Sheet) /\ Len(L) = k + n
      /\ \A j \in 1..k : L[j] = line[j]
      /\ \A j \in 1..n : L[k + j] = walked[j]
  <2>1. /\ L \in Seq(Sheet) /\ Len(L) = Len(c) + Len(walked)
        /\ \A j \in 1..(Len(c) + Len(walked)) : L[j] = IF j <= Len(c) THEN c[j] ELSE walked[j - Len(c)]
    BY <1>6, ConcatIs
  <2> HIDE DEF L
  <2>2. Len(L) = k + n
    BY <1>6, <2>1
  <2>3. \A j \in 1..k : L[j] = line[j]
    BY <1>3, <1>6, <1>7, <2>1
  <2>4. \A j \in 1..n : L[k + j] = walked[j]
    <3> SUFFICES ASSUME NEW j \in 1..n PROVE L[k + j] = walked[j]
      OBVIOUS
    <3>1. k + j \in 1..(Len(c) + Len(walked)) /\ ~(k + j <= Len(c)) /\ (k + j) - Len(c) = j
      BY <1>3, <1>6
    <3> QED
      BY <2>1, <3>1
  <2> QED
    BY <2>1, <2>2, <2>3, <2>4
<1> HIDE DEF L
<1>9. /\ DOMAIN L = 1..(k + n)
      /\ \A j \in 1..(k + n) : j \in 1..k \/ (j - k \in 1..n /\ L[j] = walked[j - k])
  <2>1. DOMAIN L = 1..(k + n)
    BY <1>8, SeqIs
  <2>2. ASSUME NEW j \in 1..(k + n), j \notin 1..k PROVE j - k \in 1..n /\ L[j] = walked[j - k]
    <3>1. j - k \in 1..n /\ k + (j - k) = j
      BY <1>3, <2>2
    <3> QED
      BY <1>8, <3>1
  <2> QED
    BY <2>1, <2>2
<1>10. LineOK(L) /\ (L[1].kind = "Menu" <=> line[1].kind = "Menu")
  <2>1. CASE /\ line[1].kind = "Menu" /\ Len(b) \in 1..2
             /\ \A j \in 1..Len(line) : line[j].kind =
                   IF j = 1 THEN "Menu" ELSE IF j = 2 THEN "MenuItem" ELSE "Sheet"
    <3>1. Len(b) = 2
      <4>1. Last(b) = b[Len(b)] /\ Last(b).kind = "MenuItem"
        BY <2>1 DEF Last, b
      <4>2. Len(b) \in 1..Len(b) /\ Len(b) \in 1..Len(line)
        <5>1. Len(b) \in 0..Len(line) /\ Len(b) \in 1..2 /\ Len(line) \in Nat
          BY <1>1, <1>3, <2>1
        <5>2. \A x, y : x \in 0..y /\ x \in 1..2 /\ y \in Nat => x \in 1..x /\ x \in 1..y
          OBVIOUS
        <5> QED
          BY <5>1, <5>2
      <4>3. line[Len(b)].kind = "MenuItem"
        BY <1>1, <4>1, <4>2
      <4>4. Len(b) # 1
        BY <2>1, <4>2, <4>3
      <4> QED
        BY <2>1, <4>4
    <3>2. k >= 2 /\ 1 \in 1..k /\ \A j \in 1..k : j \in 1..Len(line)
      BY <1>3, <3>1
    <3>3. \A j \in 1..(k + n) :
             L[j].kind = IF j = 1 THEN "Menu" ELSE IF j = 2 THEN "MenuItem" ELSE "Sheet"
      <4> SUFFICES ASSUME NEW j \in 1..(k + n)
                   PROVE L[j].kind = IF j = 1 THEN "Menu" ELSE IF j = 2 THEN "MenuItem" ELSE "Sheet"
        OBVIOUS
      <4>1. CASE j \in 1..k
        <5>1. j \in 1..Len(line) /\ L[j] = line[j]
          BY <1>8, <3>2, <4>1
        <5> QED
          BY <2>1, <5>1
      <4>2. CASE j \notin 1..k
        <5>1. j # 1 /\ j # 2
          BY <1>3, <3>2, <4>2
        <5>2. L[j].kind = "Sheet"
          BY <1>9, <4>2
        <5> QED
          BY <5>1, <5>2
      <4> QED
        BY <4>1, <4>2
    <3>4. L[1].kind = "Menu"
      BY <1>8, <2>1, <3>2
    <3> QED
      BY <1>9, <2>1, <3>3, <3>4 DEF LineOK
  <2>2. CASE line[1].kind # "Menu" /\ Len(b) = 0 /\ Len(line) = 1
    <3>1. keep = 0 /\ n = 1 /\ k = 0
      BY <2>2
    <3>2. L[1].kind = "Sheet" /\ Len(L) = 1
      BY <1>8, <3>1
    <3> QED
      BY <2>2, <3>2 DEF LineOK
  <2> QED
    BY <1>1, <2>1, <2>2
<1>11. \E k2 \in 0..Len(line) :
          /\ Len(L) = k2 + n
          /\ \A j \in 1..k2 : L[j] = line[j]
          /\ \A j \in 1..n : L[k2 + j] = walked[j]
  BY <1>3, <1>8
<1> QED
  BY <1>2, <1>8, <1>10, <1>11 DEF WalkedOn

\* The rungs of a walk, each with an id and a Presentation of its own.
Rungs(id, n) ==
    [j \in 1..n |-> Rung(id + 2 * (j - 1), "Sheet", Fresh(id + 2 * j - 1))]

NewRungs(w, A, id, n) ==
    /\ w \in Seq(Sheet) /\ Len(w) = n
    /\ \A j \in 1..n : /\ w[j].id = id + 2 * (j - 1) /\ w[j].kind = "Sheet"
                       /\ CardOf(w[j]) = {id + 2 * j - 1}
    /\ Guests(Range(w), A, id, id + 2 * n)

\* The rungs of a walk are guests under consecutive ids.
LEMMA RungsAre ==
  ASSUME NEW A, NEW id \in Nat, NEW n \in Nat, Cast(A, id)
  PROVE  NewRungs(Rungs(id, n), A, id, n)
<1> DEFINE w == Rungs(id, n)
           m == id + 2 * n
<1>1. ASSUME NEW j \in 1..n
      PROVE  /\ w[j] \in Sheet /\ w[j].id = id + 2 * (j - 1) /\ w[j].kind = "Sheet"
             /\ CardOf(w[j]) = {id + 2 * j - 1} /\ Guests({w[j]}, A, id, m)
  <2> DEFINE a == id + 2 * (j - 1)
             c == id + 2 * j - 1
  <2>1. a \in Nat /\ c \in Nat /\ id <= a /\ a < m /\ id <= c /\ c < m /\ m \in Nat
    OBVIOUS
  <2>2. w[j] = Rung(a, "Sheet", Fresh(c))
    BY DEF Rungs
  <2> HIDE DEF a, c, m, w
  <2>3. Guests({Rung(a, "Sheet", Fresh(c))}, A, id, m) /\ CardOf(Rung(a, "Sheet", Fresh(c))) = {c}
    BY <2>1, FreshGuest
  <2>4. Rung(a, "Sheet", Fresh(c)) \in Sheet
    BY <2>3 DEF Guests
  <2>5. Rung(a, "Sheet", Fresh(c)).id = a /\ Rung(a, "Sheet", Fresh(c)).kind = "Sheet"
    BY DEF Rung
  <2> QED
    BY <2>2, <2>3, <2>4, <2>5 DEF a, c
<1>2. w = [j \in 1..n |-> w[j]]
  BY DEF Rungs
<1> HIDE DEF w, m
<1>3. w \in Seq(Sheet) /\ Len(w) = n
  <2>1. \A j \in 1..n : w[j] \in Sheet
    BY <1>1
  <2>2. w \in [1..n -> Sheet]
    BY <1>2, <2>1
  <2> QED
    BY <2>2
<1>4. \A x : x \in Range(w) <=> \E j \in 1..n : x = w[j]
  BY <1>3, SeqIs
<1>5. Range(w) \subseteq Sheet
  BY <1>3, SeqIs
<1>6. \A g \in Range(w) : Guests({g}, A, id, m)
  BY <1>1, <1>4
<1>7. ASSUME NEW g \in Range(w), NEW h \in Range(w), g # h
      PROVE  g.id # h.id /\ CardOf(g) \cap CardOf(h) = {}
  <2>1. PICK j \in 1..n : g = w[j]
    BY <1>4
  <2>2. PICK k \in 1..n : h = w[k]
    BY <1>4
  <2>3. j # k
    BY <1>7, <2>1, <2>2
  <2>4. id + 2 * (j - 1) # id + 2 * (k - 1) /\ id + 2 * j - 1 # id + 2 * k - 1
    BY <2>3
  <2> QED
    BY <1>1, <2>1, <2>2, <2>4
<1>8. Guests(Range(w), A, id, m)
  BY <1>5, <1>6, <1>7 DEF Guests
<1> QED
  BY <1>1, <1>3, <1>8 DEF w, m, NewRungs

\* A line is walked on.
LEMMA WalkLineInv ==
  ASSUME IInv, NEW i \in DOMAIN panes, NEW keep \in 0..MaxId, NEW n \in 1..MaxWalk, WalkLine(i, keep, n)
  PROVE  IInv'
<1> DEFINE line == panes[i].line
           w == Rungs(nextId, n)
           L == Walked(line, keep, w)
           A == AllSheets(panes)
<1>0. MaxId \in Nat /\ MaxWalk \in Nat
  BY PanesAssumption
<1>1. nextId \in Nat /\ LayoutInv(panes, nextId) /\ Cast(A, nextId)
  BY DEF IInv, LayoutInv, Sound
<1>2. /\ panes \in Seq(Pane) /\ PaneOK(panes[i])
      /\ line \in Seq(Sheet) /\ line # <<>> /\ Range(line) \subseteq A
      /\ LineOK(line) /\ Single(line)
  BY <1>1, PaneAt DEF LayoutInv, PaneOK
<1>3. keep \in Nat /\ n \in Nat /\ n > 0
  BY <1>0
<1>4. /\ held = None /\ held' = held /\ nextId' = nextId + 2 * n
      /\ keep <= Len(SubSeq(line, Len(Base(line)) + 1, Len(line)))
      /\ IF Rooted(panes[i]) THEN Last(Base(line)).kind = "MenuItem" ELSE keep = 0 /\ n = 1
      /\ WithLayout(WithLine(panes, i, L))
  BY DEF WalkLine, Free, Mint, Base, Walked, Rungs, WithLine
<1>5. /\ w \in Seq(Sheet) /\ Len(w) = n
      /\ \A j \in 1..n : /\ w[j].id = nextId + 2 * (j - 1) /\ w[j].kind = "Sheet"
                         /\ CardOf(w[j]) = {nextId + 2 * j - 1}
      /\ Guests(Range(w), A, nextId, nextId')
  <2>1. NewRungs(w, A, nextId, n)
    BY <1>1, <1>3, RungsAre
  <2> HIDE DEF w, A
  <2> QED
    BY <1>4, <2>1 DEF NewRungs
<1> HIDE DEF w, line
<1>6. keep <= Len(line) - Len(Base(line))
  <2>1. Len(Base(line)) \in 0..Len(line) /\ Len(line) \in Nat
    BY <1>2, BaseIs
  <2>2. Len(SubSeq(line, Len(Base(line)) + 1, Len(line))) = Len(line) - Len(Base(line))
    BY <1>2, <2>1
  <2> QED
    BY <1>4, <2>2
<1>7. IF line[1].kind = "Menu" THEN Last(Base(line)).kind = "MenuItem" ELSE keep = 0 /\ n = 1
  BY <1>4 DEF Rooted, line
<1>8. /\ L \in Seq(Sheet) /\ LineOK(L) /\ (L[1].kind = "Menu" <=> line[1].kind = "Menu")
      /\ \E k \in 0..Len(line) :
            /\ Len(L) = k + n
            /\ \A j \in 1..k : L[j] = line[j]
            /\ \A j \in 1..n : L[k + j] = w[j]
  <2> HIDE DEF L
  <2>1. \A j \in 1..n : w[j].kind = "Sheet"
    BY <1>5
  <2>2. Walks(line, keep, w, n)
    BY <1>2, <1>3, <1>5, <1>6, <1>7, <2>1 DEF Walks
  <2>3. WalkedOn(L, line, w, n)
    BY <2>2, WalkedIs DEF L
  <2> QED
    BY <2>3 DEF WalkedOn
<1> HIDE DEF L
<1>9. PICK k \in 0..Len(line) : /\ Len(L) = k + n
                                /\ \A j \in 1..k : L[j] = line[j]
                                /\ \A j \in 1..n : L[k + j] = w[j]
  BY <1>8
<1>10. /\ DOMAIN L = 1..(k + n) /\ DOMAIN line = 1..Len(line) /\ Len(line) \in Nat
       /\ \A j \in 1..(k + n) : \/ j \in 1..k /\ j \in DOMAIN line /\ L[j] = line[j]
                                \/ j - k \in 1..n /\ L[j] = w[j - k]
  <2>1. DOMAIN L = 1..(k + n) /\ DOMAIN line = 1..Len(line) /\ Len(line) \in Nat
    BY <1>2, <1>8, <1>9, SeqIs
  <2>2. ASSUME NEW j \in 1..(k + n), j \notin 1..k PROVE j - k \in 1..n /\ L[j] = w[j - k]
    <3>1. j - k \in 1..n /\ k + (j - k) = j
      BY <1>3, <2>1, <2>2
    <3> QED
      BY <1>9, <3>1
  <2>3. \A j \in 1..k : j \in 1..Len(line)
    BY <2>1
  <2> QED
    BY <1>9, <2>1, <2>2, <2>3
<1>11. \A j \in 1..n : w[j] \in Range(w) /\ w[j].id >= nextId /\ \A id \in CardOf(w[j]) : nextId <= id
  BY <1>1, <1>3, <1>5, SeqIs
<1>12. \A j \in DOMAIN line : line[j] \in Range(line) /\ line[j].id \in Nat /\ line[j].id < nextId
  BY <1>1, <1>2, SheetIs DEF Range, Cast, SheetInv, Known
<1>13. Single(L)
  <2> SUFFICES ASSUME NEW j \in 1..(k + n), NEW l \in 1..(k + n), L[j].id = L[l].id
               PROVE  j = l
    BY <1>10 DEF Single
  <2>1. CASE j \in DOMAIN line /\ L[j] = line[j] /\ l \in DOMAIN line /\ L[l] = line[l]
    BY <1>2, <2>1 DEF Single
  <2>2. CASE j - k \in 1..n /\ L[j] = w[j - k] /\ l - k \in 1..n /\ L[l] = w[l - k]
    <3>1. nextId + 2 * ((j - k) - 1) = nextId + 2 * ((l - k) - 1)
      BY <1>5, <2>2
    <3> QED
      BY <1>1, <1>10, <3>1
  <2>3. CASE j \in DOMAIN line /\ L[j] = line[j] /\ l - k \in 1..n /\ L[l] = w[l - k]
    <3>1. L[j].id < nextId /\ L[l].id >= nextId /\ L[j].id \in Nat
      BY <1>11, <1>12, <2>3
    <3> QED
      BY <1>1, <3>1
  <2>4. CASE l \in DOMAIN line /\ L[l] = line[l] /\ j - k \in 1..n /\ L[j] = w[j - k]
    <3>1. L[l].id < nextId /\ L[j].id >= nextId /\ L[l].id \in Nat
      BY <1>11, <1>12, <2>4
    <3> QED
      BY <1>1, <3>1
  <2> QED
    BY <1>10, <2>1, <2>2, <2>3, <2>4
<1>14. \A s \in Range(L) : \/ s \in Range(line)
                           \/ s \in Range(w) /\ \A id \in CardOf(s) : nextId <= id
  BY <1>10, <1>11, <1>12 DEF Range
<1>15. NewLine(L, panes, i, Range(w), nextId, nextId')
  <2>1. L # <<>>
    BY <1>3, <1>8, <1>9, <1>10
  <2>2. L[1].kind = "Menu" <=> Rooted(panes[i])
    BY <1>8 DEF Rooted, line
  <2>3. \A s \in Range(L) : \/ s \in Range(panes[i].line)
                            \/ s \in Range(w) /\ \A id \in CardOf(s) : nextId <= id
    BY <1>14 DEF line
  <2> QED
    BY <1>5, <1>8, <1>13, <2>1, <2>2, <2>3 DEF NewLine
<1>16. nextId' \in Nat /\ nextId <= nextId'
  BY <1>1, <1>3, <1>4
<1>17. LayoutInv(WithLine(panes, i, L), nextId')
  BY <1>1, <1>15, <1>16, LineChanged
<1> QED
  BY <1>4, <1>16, <1>17, LaidFree DEF L, w, line

\* A Cover goes back, or a line steps down.
LEMMA GoBackInv ==
  ASSUME IInv, NEW i \in DOMAIN panes, GoBack(i)
  PROVE  IInv'
<1>1. nextId \in Nat /\ LayoutInv(panes, nextId)
  BY DEF IInv
<1>2. held' = None /\ nextId' = nextId
  BY DEF GoBack, Free
<1>3. CASE panes[i].covers # <<>> /\ WithLayout(LeaveCover(i, Last(panes[i].covers)))
  <2>1. panes[i].covers \in Seq(Sheet)
    BY <1>1, PaneAt DEF LayoutInv
  <2>2. Last(panes[i].covers) \in Range(panes[i].covers)
    <3>1. Len(panes[i].covers) \in 1..Len(panes[i].covers)
      BY <1>3, <2>1
    <3> QED
      BY <2>1, <3>1, SeqIs DEF Last
  <2>3. Leaving(panes, LeaveCover(i, Last(panes[i].covers)), nextId)
    BY <1>1, <2>2, CoverLeaves
  <2> QED
    BY <1>1, <1>2, <1>3, <2>3, LaidFree DEF Leaving
<1>4. CASE CanStepDown(panes[i]) /\ WithLayout(StepDown(i))
  <2>1. Leaving(panes, StepDown(i), nextId)
    BY <1>1, <1>4, StepLeaves
  <2> QED
    BY <1>1, <1>2, <1>4, <2>1, LaidFree DEF Leaving
<1> QED
  BY <1>3, <1>4 DEF GoBack

\* A Floating Pane closes.
LEMMA ClosePaneInv ==
  ASSUME IInv, NEW i \in DOMAIN panes, ClosePane(i)
  PROVE  IInv'
<1>1. nextId \in Nat /\ LayoutInv(panes, nextId)
  BY DEF IInv
<1>2. held' = None /\ nextId' = nextId /\ WithLayout(RemovedPane(i)) /\ ~Rooted(panes[i])
  BY DEF ClosePane, Free
<1>3. Leaving(panes, RemovedPane(i), nextId)
  BY <1>1, <1>2, PaneLeaves
<1> QED
  BY <1>1, <1>2, <1>3, LaidFree DEF Leaving

\* The Covers of a Pane are gone, and their Cards are back.
LEMMA CoversClear ==
  ASSUME nextId \in Nat, LayoutInv(panes, nextId), NEW i \in DOMAIN panes,
         NEW mid, mid = WithCovers(panes, i, <<>>),
         NEW qs, qs = Collapsed(mid, panes[i].covers)
  PROVE  /\ Leaving(panes, qs, nextId) /\ StillOpen(mid, qs) /\ Fronted(qs, panes[i].covers, 1)
<1>1. panes[i].covers \in Seq(Sheet) /\ panes \in Seq(Pane)
  BY PaneAt DEF LayoutInv
<1>2. LayoutInv(mid, nextId) /\ CoverSheets(panes, i, <<>>)
  <2>1. NewCovers(<<>>, panes, i, {}, nextId, nextId)
    BY NoGuests DEF NewCovers, Single, Range
  <2>2. nextId <= nextId
    OBVIOUS
  <2> QED
    BY <2>1, <2>2, CoversChanged
<1>3. /\ LayoutInv(qs, nextId) /\ Drawn(mid, qs) /\ StillOpen(mid, qs)
      /\ Fronted(qs, panes[i].covers, 1)
  BY <1>1, <1>2, CollapsedIs
<1>4. AllSheets(mid) \subseteq AllSheets(panes)
  <2> SUFFICES ASSUME NEW s \in AllSheets(mid) PROVE s \in AllSheets(panes)
    OBVIOUS
  <2>1. \/ s \in Range(panes[i].line) \cup Range(<<>>)
        \/ \E j \in DOMAIN panes : j # i /\ s \in SheetsIn(panes[j])
    BY <1>2 DEF CoverSheets
  <2>2. s \notin Range(<<>>)
    BY DEF Range
  <2>3. Range(panes[i].line) \subseteq AllSheets(panes)
    BY PaneAt DEF LayoutInv
  <2> QED
    BY <1>1, <2>1, <2>2, <2>3, SheetsAre
<1>5. Drawn(panes, qs)
  BY <1>3, <1>4, FewerDrawn, DrawnTwice
<1> QED
  BY <1>3, <1>5 DEF Leaving

\* Covers cleared.
LEMMA ClearCoversInv ==
  ASSUME IInv, NEW i \in DOMAIN panes, ClearCovers(i)
  PROVE  IInv'
<1> DEFINE mid == WithCovers(panes, i, <<>>)
           qs == Collapsed(mid, panes[i].covers)
<1>1. nextId \in Nat /\ LayoutInv(panes, nextId)
  BY DEF IInv
<1>2. held' = None /\ nextId' = nextId /\ WithLayout(qs)
  BY DEF ClearCovers, Free, WithCovers
<1>3. Leaving(panes, qs, nextId)
  BY <1>1, CoversClear
<1> HIDE DEF qs
<1> QED
  BY <1>1, <1>2, <1>3, LaidFree DEF Leaving

-----------------------------------------------------------------------------
(* New Panes and Covers.                                                    *)

\* A Pane of one Sheet.
LEMMA SinglePane ==
  ASSUME NEW id \in Nat, NEW g \in Sheet, g.kind # "MenuItem",
         NEW q, q = [id |-> id, covers |-> <<>>, line |-> <<g>>]
  PROVE  /\ q \in Pane /\ PaneOK(q) /\ SheetsIn(q) = {g} /\ q.id = id
         /\ Range(q.line) = {g} /\ (Rooted(q) <=> g.kind = "Menu")
<1>1. /\ q.id = id /\ q.line = <<g>> /\ q.covers = <<>> /\ q \in Pane
  BY DEF Pane
<1>2. /\ Range(<<g>>) = {g} /\ Range(<<>>) = {} /\ <<g>>[1] = g /\ Len(<<g>>) = 1
      /\ DOMAIN <<g>> = {1} /\ <<g>> # <<>> /\ DOMAIN <<>> = {}
  BY DEF Range
<1>3. g.kind \in {"Menu", "Sheet"}
  BY DEF Sheet
<1>4. LineOK(<<g>>)
  BY <1>2, <1>3 DEF LineOK
<1>5. PaneOK(q)
  BY <1>1, <1>2, <1>4 DEF PaneOK, Single
<1>6. SheetsIn(q) = {g}
  BY <1>1, <1>2 DEF SheetsIn
<1>7. Rooted(q) <=> g.kind = "Menu"
  BY <1>1, <1>2 DEF Rooted
<1> QED
  BY <1>1, <1>2, <1>5, <1>6, <1>7

\* A new Pane of one Sheet stands beside another.
LEMMA PaneComes ==
  ASSUME NEW n \in Nat, NEW m \in Nat, n <= m, LayoutInv(panes, n), NEW i \in DOMAIN panes, NEW edge,
         NEW id \in Nat, n <= id, id < m, NEW g, Guests({g}, AllSheets(panes), n, m),
         g.kind # "MenuItem", g.kind = "Menu" => CardOf(g) = {},
         NEW q, q = [id |-> id, covers |-> <<>>, line |-> <<g>>]
  PROVE  LayoutInv(Beside(i, edge, q), m)
<1>1. g \in Sheet
  BY DEF Guests
<1>2. /\ q \in Pane /\ PaneOK(q) /\ SheetsIn(q) = {g} /\ q.id = id
      /\ Range(q.line) = {g} /\ (Rooted(q) <=> g.kind = "Menu")
  BY SMTT(30), <1>1, SinglePane
<1>3. NewPane(q, panes, {g}, n, m)
  <2>1. n <= q.id /\ q.id < m
    BY <1>2
  <2>2. Rooted(q) => \A s \in Range(q.line) : CardOf(s) = {}
    BY <1>2
  <2>3. SheetsIn(q) \subseteq {g}
    BY <1>2
  <2> QED
    BY <1>2, <2>1, <2>2, <2>3 DEF NewPane
<1> DEFINE k == IF edge = "inline-start" THEN i ELSE i + 1
<1>4. k \in 1..(Len(panes) + 1)
  <2>1. DOMAIN panes = 1..Len(panes) /\ Len(panes) \in Nat
    BY SheetsAre DEF LayoutInv, Sound, Frame
  <2> QED
    BY <2>1
<1>5. Beside(i, edge, q) = InsertAt(panes, k, q)
  BY DEF Beside
<1> HIDE DEF k
<1>6. LayoutInv(InsertAt(panes, k, q), m)
  BY <1>3, <1>4, PaneInserted
<1> QED
  BY <1>5, <1>6

\* A new Cover lies over the others.
LEMMA CoverComes ==
  ASSUME NEW n \in Nat, NEW m \in Nat, n <= m, LayoutInv(panes, n), NEW i \in DOMAIN panes,
         NEW id \in Nat, NEW card,
         Guests({Rung(id, "Sheet", card)}, AllSheets(panes), n, m)
  PROVE  LayoutInv(PushCover(i, id, card), m)
<1> DEFINE g == Rung(id, "Sheet", card)
           covers == panes[i].covers
           C == Append(covers, g)
<1>1. /\ PaneOK(panes[i]) /\ Cast(AllSheets(panes), n)
      /\ covers \in Seq(Sheet) /\ Range(covers) \subseteq AllSheets(panes)
  BY PaneAt DEF LayoutInv
<1>2. g \in Sheet /\ g.kind = "Sheet"
  BY DEF Guests, Rung
<1> HIDE DEF g
<1>7. Guests({g}, AllSheets(panes), n, m)
  BY DEF g
<1>3. \A s \in Range(covers) : s.id # g.id
  BY <1>1, <1>7, GuestDiffers
<1>4. C \in Seq(Sheet) /\ Range(C) = Range(covers) \cup {g}
  BY <1>1, <1>2, AppendIs
<1>5. Single(C)
  <2>1. Single(covers)
    BY <1>1 DEF PaneOK
  <2> QED
    BY <1>1, <1>2, <1>3, <2>1, SingleAppended
<1>6. NewCovers(C, panes, i, {g}, n, m)
  BY <1>1, <1>2, <1>4, <1>5, <1>7 DEF NewCovers, PaneOK
<1>8. PushCover(i, id, card) = WithCovers(panes, i, C)
  BY DEF PushCover, WithCovers, g
<1> HIDE DEF C
<1> QED
  BY <1>6, <1>8, CoversChanged

\* A Rooted Pane is spawned.
LEMMA SpawnInv ==
  ASSUME IInv, NEW i \in DOMAIN panes, NEW edge \in Edges, SpawnRootedPane(i, edge)
  PROVE  IInv'
<1> DEFINE g == Rung(nextId + 1, "Menu", None)
           q == [id |-> nextId, covers |-> <<>>, line |-> <<g>>]
<1>1. nextId \in Nat /\ LayoutInv(panes, nextId)
  BY DEF IInv
<1>2. held' = None /\ nextId' = nextId + 3 /\ WithLayout(Beside(i, edge, q))
  BY DEF SpawnRootedPane, Free, Mint
<1>3. /\ nextId' \in Nat /\ nextId <= nextId' /\ nextId + 1 \in Nat /\ nextId <= nextId + 1
      /\ nextId + 1 < nextId' /\ nextId < nextId' /\ nextId <= nextId
  BY <1>1, <1>2
<1>4. Guests({g}, AllSheets(panes), nextId, nextId') /\ CardOf(g) = {}
  BY <1>1, <1>3, BareGuest
<1>5. g.kind = "Menu"
  BY DEF Rung
<1> HIDE DEF g
<1>6. LayoutInv(Beside(i, edge, q), nextId')
  BY <1>1, <1>3, <1>4, <1>5, PaneComes
<1> HIDE DEF q
<1> QED
  BY <1>2, <1>3, <1>6, LaidFree

\* A link is followed.
LEMMA FollowLinkInv ==
  ASSUME IInv, NEW i \in DOMAIN panes, FollowLink(i)
  PROVE  IInv'
<1>1. nextId \in Nat /\ LayoutInv(panes, nextId) /\ Cast(AllSheets(panes), nextId)
  BY DEF IInv, LayoutInv, Sound
<1>2. /\ held' = None /\ nextId' = nextId + 2
      /\ WithLayout(PushCover(i, nextId + 1, Fresh(nextId)))
  BY DEF FollowLink, Free, Mint
<1>3. /\ nextId' \in Nat /\ nextId <= nextId' /\ nextId + 1 \in Nat /\ nextId <= nextId + 1
      /\ nextId + 1 < nextId' /\ nextId < nextId' /\ nextId <= nextId
  BY <1>1, <1>2
<1>4. Guests({Rung(nextId + 1, "Sheet", Fresh(nextId))}, AllSheets(panes), nextId, nextId')
  BY <1>1, <1>3, FreshGuest
<1>5. LayoutInv(PushCover(i, nextId + 1, Fresh(nextId)), nextId')
  BY <1>1, <1>3, <1>4, CoverComes
<1> QED
  BY <1>2, <1>3, <1>5, LaidFree

\* The Held Card settles as a Sheet.
LEMMA HeldGuest ==
  ASSUME IInv, held # None, NEW m \in Nat, nextId <= m, NEW id \in Nat, nextId <= id, id < m
  PROVE  Guests({Rung(id, "Sheet", held.card)}, AllSheets(panes), nextId, m)
<1>1. HeldInv /\ nextId \in Nat
  BY DEF IInv, Free
<1> DEFINE card == held.card
<1>2. /\ card \in Presentation /\ card.id < nextId /\ card.id \in Nat
      /\ \A t \in AllSheets(panes) : card.id \notin CardOf(t) /\ Agrees(card, t)
  BY <1>1 DEF HeldInv, Presentation
<1> HIDE DEF card
<1>3. card # None
  BY <1>2, NoneApart
<1>4. card.id < m
  BY <1>1, <1>2
<1>5. Guests({Rung(id, "Sheet", card)}, AllSheets(panes), nextId, m)
  BY <1>1, <1>2, <1>3, <1>4, OneGuest
<1> QED
  BY <1>5 DEF card

\* The Held Card settles as a Cover.
LEMMA ExpandOverInv ==
  ASSUME IInv, NEW i \in DOMAIN panes, ExpandOver(i)
  PROVE  IInv'
<1>1. nextId \in Nat /\ LayoutInv(panes, nextId)
  BY DEF IInv
<1>2. /\ held # None /\ held' = None /\ nextId' = nextId + 1
      /\ WithLayout(PushCover(i, nextId, held.card))
  BY DEF ExpandOver, Free, Mint
<1>3. nextId' \in Nat /\ nextId <= nextId' /\ nextId < nextId' /\ nextId <= nextId
  BY <1>1, <1>2
<1>4. Guests({Rung(nextId, "Sheet", held.card)}, AllSheets(panes), nextId, nextId')
  BY <1>1, <1>2, <1>3, HeldGuest
<1>5. LayoutInv(PushCover(i, nextId, held.card), nextId')
  BY <1>1, <1>3, <1>4, CoverComes
<1> QED
  BY <1>2, <1>3, <1>5, LaidFree

\* The Held Card settles as the Ground of a Floating Pane.
LEMMA ExpandBesideInv ==
  ASSUME IInv, NEW i \in DOMAIN panes, NEW edge \in Edges, ExpandBeside(i, edge)
  PROVE  IInv'
<1> DEFINE g == Rung(nextId + 1, "Sheet", held.card)
           q == [id |-> nextId, covers |-> <<>>, line |-> <<g>>]
<1>1. nextId \in Nat /\ LayoutInv(panes, nextId)
  BY DEF IInv
<1>2. held # None /\ held' = None /\ nextId' = nextId + 3 /\ WithLayout(Beside(i, edge, q))
  BY DEF ExpandBeside, Free, Mint
<1>3. /\ nextId' \in Nat /\ nextId <= nextId' /\ nextId + 1 \in Nat /\ nextId <= nextId + 1
      /\ nextId + 1 < nextId' /\ nextId < nextId' /\ nextId <= nextId
  BY <1>1, <1>2
<1>4. Guests({g}, AllSheets(panes), nextId, nextId')
  BY <1>1, <1>2, <1>3, HeldGuest
<1>5. g.kind = "Sheet"
  BY DEF Rung
<1> HIDE DEF g
<1>6. LayoutInv(Beside(i, edge, q), nextId')
  BY <1>1, <1>3, <1>4, <1>5, PaneComes
<1> HIDE DEF q
<1> QED
  BY <1>2, <1>3, <1>6, LaidFree

-----------------------------------------------------------------------------
(* Lifts, and what ends them.                                               *)

\* What a Sheet shows was minted, and agrees with every slot.
LEMMA CoverAgrees ==
  ASSUME NEW n, NEW ps, LayoutInv(ps, n), NEW s \in AllSheets(ps), s.card # None
  PROVE  /\ s.card \in Presentation /\ s.card.id < n
         /\ \A t \in AllSheets(ps) : Agrees(s.card, t)
<1>1. s \in Sheet /\ Known(s, n)
  BY DEF LayoutInv, Sound, Cast, SheetInv
<1>2. s.card \in Presentation
  BY <1>1 DEF Sheet
<1>3. s.card.id < n
  BY <1>1 DEF Known, CardOf
<1> QED
  BY <1>2, <1>3 DEF LayoutInv, Agreement

\* A Cover is lifted.
LEMMA LiftCoverInv ==
  ASSUME IInv, NEW i \in DOMAIN panes, NEW cover \in Range(panes[i].covers), LiftCover(i, cover)
  PROVE  IInv'
<1>1. nextId \in Nat /\ LayoutInv(panes, nextId)
  BY DEF IInv
<1>2. Hold(cover.card, "Cover") /\ nextId' = nextId /\ WithLayout(LeaveCover(i, cover))
  BY DEF LiftCover
<1>3. /\ Leaving(panes, LeaveCover(i, cover), nextId)
      /\ NotShown(LeaveCover(i, cover), cover.card)
      /\ cover \in AllSheets(panes) /\ cover.card # None
  BY <1>1, CoverLeaves
<1>4. /\ cover.card \in Presentation /\ cover.card.id < nextId
      /\ \A t \in AllSheets(panes) : Agrees(cover.card, t)
  BY <1>1, <1>3, CoverAgrees
<1>5. panes' = LeaveCover(i, cover) /\ active' \in PaneIds(panes')
  BY <1>2, <1>3, Laid DEF Leaving
<1>6. nextId <= nextId'
  BY <1>1, <1>2
<1> QED
  BY <1>1, <1>2, <1>3, <1>4, <1>5, <1>6, ThenHeld

\* A Rooted Pane that shows a selection can step down.
LEMMA GroundSteps ==
  ASSUME NEW n, NEW ps, LayoutInv(ps, n), NEW i \in DOMAIN ps, Rooted(ps[i]),
         ps[i].covers = <<>>, Ground(ps[i]).card # None
  PROVE  CanStepDown(ps[i])
<1> DEFINE g == Ground(ps[i])
<1>1. /\ ps[i].line \in Seq(Sheet) /\ ps[i].line # <<>>
      /\ Range(ps[i].line) \subseteq AllSheets(ps) /\ Cast(AllSheets(ps), n)
  BY PaneAt DEF LayoutInv
<1>2. g \in Range(ps[i].line)
  <2>1. Len(ps[i].line) \in 1..Len(ps[i].line)
    BY <1>1
  <2> QED
    BY <1>1, <2>1, SeqIs DEF Ground, Last
<1>3. g.kind = "Sheet"
  BY <1>1, <1>2 DEF Cast, SheetInv
<1>4. Len(ps[i].line) # 1
  BY <1>3 DEF Rooted, Ground, Last
<1>5. Len(ps[i].line) \in Nat /\ Len(ps[i].line) # 0
  BY <1>1
<1>6. \A k : k \in Nat /\ k # 0 /\ k # 1 => k > 1
  OBVIOUS
<1>7. Len(ps[i].line) > 1
  BY <1>4, <1>5, <1>6
<1> QED
  BY <1>7 DEF CanStepDown

\* A Ground is lifted.
LEMMA LiftGroundInv ==
  ASSUME IInv, NEW i \in DOMAIN panes, LiftGround(i)
  PROVE  IInv'
<1> DEFINE g == Ground(panes[i])
<1>1. nextId \in Nat /\ LayoutInv(panes, nextId)
  BY DEF IInv
<1>2. nextId' = nextId /\ g.card # None /\ panes[i].covers = <<>> /\ nextId <= nextId'
  BY <1>1 DEF LiftGround
<1>3. /\ panes \in Seq(Pane) /\ PaneOK(panes[i])
      /\ panes[i].line \in Seq(Sheet) /\ panes[i].line # <<>>
      /\ Range(panes[i].line) \subseteq AllSheets(panes)
      /\ Cast(AllSheets(panes), nextId)
  BY <1>1, PaneAt DEF LayoutInv
<1>4. g \in Range(panes[i].line)
  <2>1. Len(panes[i].line) \in 1..Len(panes[i].line)
    BY <1>3
  <2> QED
    BY <1>3, <2>1, SeqIs DEF Ground, Last
<1>5. /\ g.card \in Presentation /\ g.card.id < nextId
      /\ \A t \in AllSheets(panes) : Agrees(g.card, t)
  BY <1>1, <1>2, <1>3, <1>4, CoverAgrees
<1>6. CASE Rooted(panes[i])
  <2>1. Hold(g.card, "RootedGround") /\ WithLayout(StepDown(i))
    BY <1>6 DEF LiftGround
  <2>2. CanStepDown(panes[i])
    BY <1>1, <1>2, <1>6, GroundSteps
  <2>3. Leaving(panes, StepDown(i), nextId) /\ NotShown(StepDown(i), g.card)
    BY <1>1, <1>2, <2>2, StepLeaves
  <2>4. panes' = StepDown(i) /\ active' \in PaneIds(panes')
    BY <2>1, <2>3, Laid DEF Leaving
  <2> HIDE DEF g
  <2> QED
    BY <1>1, <1>2, <1>5, <2>1, <2>3, <2>4, ThenHeld
<1>7. CASE ~Rooted(panes[i])
  <2>1. Hold(g.card, "FloatingGround") /\ WithLayout(RemovedPane(i))
    BY <1>7 DEF LiftGround
  <2>3. Leaving(panes, RemovedPane(i), nextId) /\ NotShown(RemovedPane(i), g.card)
    BY <1>1, <1>2, <1>7, PaneLeaves
  <2>4. panes' = RemovedPane(i) /\ active' \in PaneIds(panes')
    BY <2>1, <2>3, Laid DEF Leaving
  <2> HIDE DEF g
  <2> QED
    BY <1>1, <1>2, <1>5, <2>1, <2>3, <2>4, ThenHeld
<1> QED
  BY <1>6, <1>7

\* A new Card is lifted.
LEMMA LiftFreshInv ==
  ASSUME IInv, LiftFresh
  PROVE  IInv'
<1> DEFINE card == Fresh(nextId)
<1>1. nextId \in Nat /\ LayoutInv(panes, nextId) /\ active \in PaneIds(panes)
  BY DEF IInv
<1>2. /\ Hold(card, "Fresh") /\ nextId' = nextId + 1
      /\ panes' = panes /\ active' = active
  BY DEF LiftFresh, Mint
<1>3. nextId' \in Nat /\ nextId <= nextId' /\ nextId < nextId' /\ nextId <= nextId
  BY <1>1, <1>2
<1>4. card \in Presentation /\ card.id = nextId
  BY <1>1, FreshIs
<1> HIDE DEF card
<1>5. \A t \in AllSheets(panes) : card.id \notin CardOf(t) /\ Agrees(card, t)
  BY <1>1, <1>3, <1>4, NewCardApart DEF LayoutInv, Sound
<1>6. NotShown(panes, card)
  BY <1>5 DEF NotShown
<1>7. Leaving(panes, panes, nextId')
  BY <1>1, <1>3, LayoutLater, DrawnSelf DEF Leaving
<1> QED
  BY <1>1, <1>2, <1>3, <1>4, <1>5, <1>6, <1>7, ThenHeld

\* A resting Card is lifted: its id is open nowhere.
LEMMA LiftCardInv ==
  ASSUME IInv, NEW s \in Dealers(panes), NEW c \in Range(s.deck.cards), LiftCard(s, c)
  PROVE  IInv'
<1> DEFINE A == AllSheets(panes)
<1>1. nextId \in Nat /\ LayoutInv(panes, nextId) /\ active \in PaneIds(panes) /\ Sound(panes, nextId)
  BY DEF IInv, LayoutInv
<1>2. /\ Hold(c, "Deck") /\ nextId' = nextId /\ panes' = panes /\ active' = active
      /\ c.id \notin OpenIds(panes)
  BY DEF LiftCard, Liftable, Resting
<1>3. s \in A /\ s.deck # None /\ s \in Sheet
  BY <1>1, ShownWithin DEF Dealers, Sound, Cast
<1>4. c \in Presentation /\ c.id \in SlotsOf(s) /\ c.id \in Nat /\ c.id < nextId
  <2>1. c \in Presentation /\ c.id \in SlotsOf(s)
    BY <1>3, SheetIs DEF SlotsOf, CardIds
  <2>2. Known(s, nextId)
    BY <1>1, <1>3 DEF Sound, Cast, SheetInv
  <2> QED
    BY <2>1, <2>2 DEF Known, Presentation
<1>5. ASSUME NEW t \in A PROVE Agrees(c, t)
  <2>1. CASE t = s
    <3>1. s.deck.cards \in Seq(Presentation) /\ CardsOnce(s.deck.cards)
      BY <1>1, <1>3, SheetIs DEF Sound, Cast, SheetInv, DeckOK
    <3>2. ASSUME NEW d \in Range(s.deck.cards), d.id = c.id PROVE d = c
      BY <3>1, <3>2 DEF CardsOnce, Range
    <3> QED
      BY <2>1, <3>2 DEF Agrees
  <2>2. CASE t # s
    <3>1. SlotsOf(s) \cap SlotsOf(t) = {}
      BY <1>1, <1>3, <2>2 DEF Sound, Cast, Apart
    <3>2. t.deck # None => \A d \in Range(t.deck.cards) : d.id \in SlotsOf(t)
      BY DEF SlotsOf, CardIds
    <3> QED
      BY <1>4, <3>1, <3>2 DEF Agrees
  <2> QED
    BY <2>1, <2>2
<1>6. ASSUME NEW t \in A PROVE c.id \notin CardOf(t)
  <2>1. PICK i \in DOMAIN panes : t \in SheetsIn(panes[i])
    BY <1>1, PaneAt, SheetsAre DEF Sound, Frame
  <2>2. /\ panes \in Seq(Pane) /\ PaneOK(panes[i]) /\ panes[i] \in Range(panes)
        /\ panes[i].line \in Seq(Sheet)
    BY <1>1, PaneAt
  <2>3. CASE t \in SheetsOf(panes[i])
    <3>1. t \in Shown(panes)
      BY <2>2, <2>3 DEF Shown
    <3> QED
      BY <1>2, <3>1 DEF OpenIds, CardOf
  <2>4. CASE t \notin SheetsOf(panes[i])
    <3>1. t \in Range(panes[i].line) /\ t # Last(panes[i].line)
      BY <2>1, <2>4 DEF SheetsIn, SheetsOf, Ground
    <3>2. Len(panes[i].line) # 1
      BY <2>2, <3>1 DEF Range, Last
    <3>3. Rooted(panes[i])
      <4>1. LineOK(panes[i].line) /\ panes[i].line # <<>>
        BY <2>2 DEF PaneOK
      <4>2. 1 \in DOMAIN panes[i].line
        BY <2>2, <4>1
      <4> QED
        BY <3>2, <4>1, <4>2 DEF LineOK, Rooted
    <3>4. CardOf(t) \cap SlotsOf(s) = {}
      BY <1>1, <1>3, <2>2, <3>1, <3>3 DEF Sound, RootedApart
    <3> QED
      BY <1>4, <3>4
  <2> QED
    BY <2>3, <2>4
<1>7. NotShown(panes, c)
  BY <1>6 DEF NotShown
<1>8. Leaving(panes, panes, nextId')
  BY <1>1, <1>2, DrawnSelf DEF Leaving
<1>9. nextId <= nextId'
  BY <1>1, <1>2
<1> HIDE DEF A
<1>10. \A t \in AllSheets(panes) : Agrees(c, t)
  BY <1>5 DEF A
<1> QED
  BY <1>1, <1>2, <1>4, <1>7, <1>8, <1>9, <1>10, ThenHeld

\* The checkpoint comes back, and is in order under the counter that stays.
LEMMA RestoreInv ==
  ASSUME IInv, held # None, Restore
  PROVE  IInv'
<1>1. /\ nextId \in Nat /\ LayoutInv(held.panes, nextId) /\ held.active \in PaneIds(held.panes)
  BY DEF IInv, HeldInv, Free
<1>2. panes' = held.panes /\ active' = held.active /\ held' = None /\ nextId' = nextId
  BY DEF Restore, CounterStays
<1> QED
  BY <1>1, <1>2, ThenFree

\* A Held Card is let go.
LEMMA ReleaseInv ==
  ASSUME IInv, Release
  PROVE  IInv'
<1>1. CASE held.origin = "RootedGround"
  BY <1>1, RestoreInv DEF Release, Free
<1>2. CASE held.origin # "RootedGround"
  <2>1. held' = None /\ panes' = panes /\ active' = active /\ nextId' = nextId
    BY <1>2 DEF Release
  <2> QED
    BY <2>1, ThenFree DEF IInv
<1> QED
  BY <1>1, <1>2

\* Another Pane is active.
LEMMA ActivatePaneInv ==
  ASSUME IInv, NEW id \in PaneIds(panes), ActivatePane(id)
  PROVE  IInv'
<1>1. active' = id /\ panes' = panes /\ nextId' = nextId /\ held' = held
  BY DEF ActivatePane
<1>2. CheckpointKeepsUp' /\ (~Free => HeldInv') /\ (Free' <=> Free)
  BY <1>1 DEF IInv, CheckpointKeepsUp, HeldInv, Free
<1> QED
  BY <1>1, <1>2 DEF IInv

-----------------------------------------------------------------------------
(* Decks dealt and swept away.                                              *)

\* A Deck all of whose ids are new.
FreshDeck(d, n, m) ==
    /\ d \in Deck /\ DeckOK(d) /\ n <= d.id /\ d.id < m
    /\ \A id \in CardIds(d) : n <= id /\ id < m

\* A Sheet that gets such a Deck, or none, leaves the layout in order.
LEMMA DeckSet ==
  ASSUME NEW n \in Nat, NEW m \in Nat, n <= m, NEW ps, LayoutInv(ps, n),
         NEW x \in AllSheets(ps), NEW d, d = None \/ FreshDeck(d, n, m)
  PROVE  LayoutInv(SetDeck(ps, x.id, d), m) /\ StillOpen(ps, SetDeck(ps, x.id, d))
<1> DEFINE y == [x EXCEPT !.deck = d]
           qs == SetDeck(ps, x.id, d)
           A == AllSheets(ps)
<1>1. /\ Sound(ps, n) /\ Agreement(A) /\ Cast(A, n)
      /\ x \in Sheet /\ SheetInv(x, n)
  BY DEF LayoutInv, Sound, Cast
<1>2. d = None => DeckOf(y) = {} /\ SlotsOf(y) = {}
  BY <1>1 DEF DeckOf, SlotsOf, Sheet
<1>3. /\ y \in Sheet /\ y.id = x.id /\ y.kind = x.kind /\ y.card = x.card /\ y.deck = d
  BY <1>1 DEF Sheet, FreshDeck
<1> HIDE DEF y
<1>4. FreshDeck(d, n, m) => /\ DeckOf(y) = {d.id} /\ SlotsOf(y) = CardIds(d) /\ d # None
  BY <1>3, NoneApart DEF DeckOf, SlotsOf, FreshDeck
<1>5. CardOf(y) = CardOf(x)
  BY <1>3 DEF CardOf
<1>6. \A id \in DeckOf(y) \cup SlotsOf(y) : n <= id /\ id < m
  BY <1>2, <1>4 DEF FreshDeck
<1>7. SheetInv(y, m)
  <2>1. \A id \in {x.id} \cup CardOf(x) : id \in Nat /\ id < n
    BY <1>1, SheetIs DEF SheetInv, Known
  <2>2. \A id \in {x.id} \cup CardOf(x) : id < m
    BY <2>1
  <2>3. Known(y, m)
    BY <1>3, <1>5, <1>6, <2>2 DEF Known
  <2>4. y.deck # None => DeckOK(y.deck)
    BY <1>3 DEF FreshDeck
  <2> QED
    BY <1>1, <1>3, <2>3, <2>4 DEF SheetInv
<1>8. /\ Sound(qs, m)
      /\ Turned(A, x, y, AllSheets(qs)) /\ Turned(Shown(ps), x, y, Shown(qs))
  <2>1. Redeals(ps, x, d, y, n, m)
    BY <1>1, <1>3, <1>6, <1>7 DEF Redeals, y
  <2> QED
    BY <2>1, Redealt
<1> HIDE DEF qs
<1>9. Agreement(AllSheets(qs))
  <2>1. ASSUME NEW s \in A, s.card # None, NEW t \in A PROVE Agrees(s.card, t)
    BY <1>1, <2>1 DEF Agreement
  <2>2. ASSUME NEW s \in A, s.card # None PROVE Agrees(s.card, y)
    <3>1. s.card.id \in Nat /\ s.card.id < n
      <4>1. s \in Sheet /\ SheetInv(s, n) /\ CardOf(s) = {s.card.id}
        BY <1>1, <2>2 DEF Cast, CardOf
      <4> QED
        BY <4>1, <2>2, SheetIs DEF SheetInv, Known
    <3>2. FreshDeck(d, n, m) => \A c \in Range(d.cards) : c.id # s.card.id
      <4>1. \A id \in Nat : n <= id => id # s.card.id
        BY <3>1
      <4>2. FreshDeck(d, n, m) => \A c \in Range(d.cards) : c.id \in Nat /\ n <= c.id
        BY <1>3, <1>4, SheetIs DEF FreshDeck, CardIds
      <4> QED
        BY <4>1, <4>2
    <3> QED
      BY <1>3, <3>2 DEF Agrees
  <2>3. \A s \in AllSheets(qs) : \E s0 \in A : s0.card = s.card /\ (s = s0 \/ s = y)
    BY <1>3, <1>8 DEF Turned
  <2> SUFFICES ASSUME NEW s \in AllSheets(qs), s.card # None, NEW t \in AllSheets(qs)
               PROVE  Agrees(s.card, t)
    BY DEF Agreement
  <2>4. PICK s0 \in A : s0.card = s.card
    BY <2>3
  <2>5. t \in A \/ t = y
    BY <2>3
  <2> QED
    BY <2>1, <2>2, <2>4, <2>5
<1>10. StillOpen(ps, qs)
  BY <1>5, <1>8 DEF Turned, StillOpen
<1> QED
  BY <1>8, <1>9, <1>10 DEF LayoutInv, qs

\* The topmost Sheet of a Pane is one of the layout's.
LEMMA TopIs ==
  ASSUME NEW n, NEW ps, LayoutInv(ps, n), NEW i \in DOMAIN ps
  PROVE  Top(ps[i]) \in AllSheets(ps)
<1>1. /\ ps \in Seq(Pane) /\ ps[i].line \in Seq(Sheet) /\ ps[i].line # <<>>
      /\ ps[i].covers \in Seq(Sheet) /\ SheetsIn(ps[i]) \subseteq AllSheets(ps)
  BY SheetsAre, PaneIs DEF LayoutInv, Sound, Frame, PaneOK
<1>2. ASSUME NEW s \in Seq(Sheet), s # <<>> PROVE Last(s) \in Range(s)
  <2>1. Len(s) \in 1..Len(s)
    BY <1>2
  <2> QED
    BY <2>1, SeqIs DEF Last
<1>3. Top(ps[i]) \in SheetsIn(ps[i])
  BY <1>1, <1>2 DEF Top, Ground, SheetsIn
<1> QED
  BY <1>1, <1>3

\* Cards are dealt under new ids.
LEMMA DealInv ==
  ASSUME IInv, NEW i \in DOMAIN panes, NEW cards \in Deals, Deal(i, cards)
  PROVE  IInv'
<1> DEFINE d == [id |-> nextId, front |-> None,
                 cards |-> [j \in DOMAIN cards |-> Card(nextId + j, cards[j])]]
<1>1. nextId \in Nat /\ LayoutInv(panes, nextId) /\ held = None
  BY DEF IInv, Deal, Free
<1>2. cards \in Seq(Dealt) /\ Len(cards) \in Nat /\ DOMAIN cards = 1..Len(cards)
  BY PanesAssumption
<1>3. nextId' = nextId + (1 + Len(cards)) /\ held' = None
  BY <1>1 DEF Deal, Mint
<1>4. nextId' \in Nat /\ nextId <= nextId' /\ nextId < nextId'
  BY <1>1, <1>2, <1>3
<1>5. ASSUME NEW j \in 1..Len(cards)
      PROVE  /\ Card(nextId + j, cards[j]) \in Presentation
             /\ Card(nextId + j, cards[j]).id = nextId + j
             /\ nextId <= nextId + j /\ nextId + j < nextId'
  <2>1. cards[j] \in Dealt
    BY <1>2
  <2>2. nextId + j \in Nat /\ nextId <= nextId + j /\ nextId + j < nextId'
    BY <1>1, <1>2, <1>3
  <2> QED
    BY <2>1, <2>2 DEF Card, Dealt, Presentation
<1>6. d.cards \in Seq(Presentation) /\ DOMAIN d.cards = 1..Len(cards) /\ d.id = nextId /\ d.front = None
      /\ \A j \in 1..Len(cards) : d.cards[j] = Card(nextId + j, cards[j])
  BY <1>2, <1>5
<1>7. d \in Deck
  <2>1. [j \in DOMAIN cards |-> Card(nextId + j, cards[j])] \in Seq(Presentation)
    BY <1>6
  <2> QED
    BY <1>1, <2>1 DEF Deck
<1> HIDE DEF d
<1>8. \A id \in CardIds(d) : nextId <= id /\ id < nextId'
  BY <1>5, <1>6 DEF CardIds, Range
<1>9. CardsOnce(d.cards)
  <2>1. \A j, k \in 1..Len(cards) : nextId + j = nextId + k => j = k
    BY <1>1, <1>2
  <2> QED
    BY <1>5, <1>6, <2>1 DEF CardsOnce
<1>10. FreshDeck(d, nextId, nextId')
  BY <1>1, <1>4, <1>6, <1>7, <1>8, <1>9 DEF FreshDeck, DeckOK
<1>11. LayoutInv(SetDeck(panes, Top(panes[i]).id, d), nextId')
  BY <1>1, <1>4, <1>10, TopIs, DeckSet
<1>12. WithLayout(SetDeck(panes, Top(panes[i]).id, d))
  BY DEF Deal, d
<1> QED
  BY <1>3, <1>4, <1>11, <1>12, LaidFree

\* A Deck is swept away.
LEMMA SweepInv ==
  ASSUME IInv, NEW i \in DOMAIN panes, Sweep(i)
  PROVE  IInv'
<1>1. nextId \in Nat /\ LayoutInv(panes, nextId) /\ held = None
  BY DEF IInv, Sweep, Free
<1>2. nextId' = nextId /\ held' = None /\ WithLayout(SetDeck(panes, Top(panes[i]).id, None))
  BY <1>1 DEF Sweep
<1>3. nextId' \in Nat /\ nextId <= nextId'
  BY <1>1, <1>2
<1>4. LayoutInv(SetDeck(panes, Top(panes[i]).id, None), nextId')
  BY <1>1, <1>3, TopIs, DeckSet
<1> QED
  BY <1>2, <1>3, <1>4, LaidFree

\* A Card comes in front.
LEMMA BringToFrontInv ==
  ASSUME IInv, NEW s \in Dealers(panes), NEW id \in CardIds(s.deck), BringToFront(s, id)
  PROVE  IInv'
<1>1. nextId \in Nat /\ LayoutInv(panes, nextId) /\ held = None
  BY DEF IInv, BringToFront, Free
<1>2. /\ nextId' = nextId /\ held' = None
      /\ WithLayout(SetDeck(panes, s.id, [s.deck EXCEPT !.front = id]))
  BY <1>1 DEF BringToFront
<1>3. s \in AllSheets(panes) /\ s.deck # None
  BY <1>1, ShownWithin DEF Dealers, LayoutInv
<1>4. LayoutInv(SetDeck(panes, s.id, [s.deck EXCEPT !.front = id]), nextId')
  BY <1>1, <1>2, <1>3, FrontSet
<1> QED
  BY <1>1, <1>2, <1>4, LaidFree

-----------------------------------------------------------------------------
(* What an update of a Deck mints.                                          *)

\* Chosen members are members of both, each from a place of its own.
LEMMA ChosenPicks ==
  ASSUME NEW S, NEW s \in Seq(S), NEW T
  PROVE  /\ Chosen(s, T) \in Seq(S)
         /\ \A x : x \in Range(Chosen(s, T)) <=> x \in Range(s) /\ x \in T
         /\ \E g \in [1..Len(Chosen(s, T)) -> 1..Len(s)] :
               /\ \A k \in 1..Len(Chosen(s, T)) : Chosen(s, T)[k] = s[g[k]]
               /\ \A k, l \in 1..Len(Chosen(s, T)) : g[k] = g[l] => k = l
<1> DEFINE t == Chosen(s, T)
<1>1. t \in Seq(S)
  BY ChosenIs
<1>2. PICK g : Positions(g, t, s, T, Len(s))
  BY ChosenIs
<1> HIDE DEF t
<1>3. /\ g \in [1..Len(t) -> 1..Len(s)]
      /\ \A k \in 1..Len(t) : t[k] = s[g[k]]
      /\ \A k, l \in 1..Len(t) : k < l => g[k] < g[l]
      /\ \A i \in 1..Len(s) : s[i] \in T <=> \E k \in 1..Len(t) : g[k] = i
  BY <1>2 DEF Positions
<1>4. \A k, l \in 1..Len(t) : g[k] = g[l] => k = l
  <2> SUFFICES ASSUME NEW k \in 1..Len(t), NEW l \in 1..Len(t), g[k] = g[l], k # l PROVE FALSE
    OBVIOUS
  <2>1. k < l \/ l < k
    OBVIOUS
  <2>2. g[k] \in Int /\ g[l] \in Int
    BY <1>3
  <2> QED
    BY <1>3, <2>1, <2>2
<1>5. \A x : x \in Range(t) <=> x \in Range(s) /\ x \in T
  <2>1. /\ \A x : x \in Range(t) <=> \E k \in 1..Len(t) : x = t[k]
        /\ \A x : x \in Range(s) <=> \E i \in 1..Len(s) : x = s[i]
    BY <1>1, SeqIs
  <2>2. ASSUME NEW k \in 1..Len(t) PROVE t[k] \in Range(s) /\ t[k] \in T
    <3>1. g[k] \in 1..Len(s) /\ t[k] = s[g[k]]
      BY <1>3
    <3> QED
      BY <1>3, <2>1, <3>1
  <2>3. ASSUME NEW i \in 1..Len(s), s[i] \in T PROVE s[i] \in Range(t)
    <3>1. PICK k \in 1..Len(t) : g[k] = i
      BY <1>3, <2>3
    <3> QED
      BY <1>3, <2>1, <3>1
  <2> QED
    BY <2>1, <2>2, <2>3
<1> QED
  BY <1>1, <1>3, <1>4, <1>5 DEF t

\* Of no members, none are chosen.
LEMMA ChosenNone ==
  ASSUME NEW S, NEW s \in Seq(S)
  PROVE  Chosen(s, {}) = <<>>
<1>1. Chosen(s, {}) \in Seq(S) /\ \A x : x \notin Range(Chosen(s, {}))
  BY ChosenPicks
<1> DEFINE t == Chosen(s, {})
<1> HIDE DEF t
<1>2. t \in Seq(S) /\ \A x : x \notin Range(t)
  BY <1>1 DEF t
<1>3. Len(t) \in Nat /\ \A i \in 1..Len(t) : t[i] \in Range(t)
  BY <1>2, SeqIs
<1>4. Len(t) = 0
  <2>1. \A k \in Nat : k # 0 => 1 \in 1..k
    OBVIOUS
  <2> QED
    BY <1>2, <1>3, <2>1
<1>5. t = <<>>
  BY <1>2, <1>4
<1> QED
  BY <1>5 DEF t

\* Each given Card has a key, and no two have the same.
Keyed(cards) ==
    /\ cards \in Seq(Dealt)
    /\ \A i, j \in 1..Len(cards) : cards[i].key = cards[j].key => i = j
    /\ \A i \in 1..Len(cards) : cards[i].key \in Keys /\ cards[i].key # None

\* An update gives each Card a key of its own.
LEMMA UpdatesKeyed ==
  ASSUME NEW cards \in Updates
  PROVE  Keyed(cards)
<1>1. cards \in Seq(Dealt) /\ None \notin KeysOf(cards) /\ Cardinality(KeysOf(cards)) = Len(cards)
  BY PanesAssumption
<1> DEFINE f == [i \in 1..Len(cards) |-> cards[i].key]
<1>2. Len(cards) \in Nat /\ \A x : x \in Range(cards) <=> \E i \in 1..Len(cards) : x = cards[i]
  BY <1>1, SeqIs
<1>3. \A k : k \in KeysOf(cards) <=> \E i \in 1..Len(cards) : k = cards[i].key
  BY <1>2 DEF KeysOf
<1>4. f \in Surjection(1..Len(cards), KeysOf(cards))
  BY <1>3 DEF Surjection
<1>5. IsFiniteSet(1..Len(cards)) /\ Cardinality(1..Len(cards)) = Len(cards)
  <2>1. 1 \in Int /\ Len(cards) \in Int
    BY <1>2
  <2>2. /\ IsFiniteSet(1..Len(cards))
        /\ Cardinality(1..Len(cards)) = IF 1 > Len(cards) THEN 0 ELSE Len(cards) - 1 + 1
    BY <2>1, FS_Interval
  <2> QED
    BY <1>2, <2>2
<1> HIDE DEF f
<1>6. f \in Injection(1..Len(cards), KeysOf(cards))
  BY <1>1, <1>4, <1>5, FS_Surjection
<1>7. \A i, j \in 1..Len(cards) : cards[i].key = cards[j].key => i = j
  <2>1. \A i, j \in 1..Len(cards) : f[i] = f[j] => i = j
    BY <1>6 DEF Injection, IsInjective
  <2> QED
    BY <2>1 DEF f
<1>8. \A i \in 1..Len(cards) : cards[i].key \in Keys /\ cards[i].key # None
  <2> SUFFICES ASSUME NEW i \in 1..Len(cards) PROVE cards[i].key \in Keys /\ cards[i].key # None
    OBVIOUS
  <2>1. cards[i] \in Dealt
    BY <1>1
  <2>2. cards[i].key \in Keys \cup {None}
    BY <2>1 DEF Dealt
  <2>3. cards[i].key \in KeysOf(cards)
    BY <1>3
  <2> QED
    BY <1>1, <2>2, <2>3
<1> QED
  BY <1>1, <1>7, <1>8 DEF Keyed

\* The last Card with a key has a place.
LEMMA PlaceIs ==
  ASSUME NEW minted \in Seq(Dealt), NEW key \in KeysOf(minted)
  PROVE  Place(minted, key) \in 1..Len(minted) /\ minted[Place(minted, key)].key = key
<1>1. /\ Len(minted) \in Nat /\ DOMAIN minted = 1..Len(minted)
      /\ \A x : x \in Range(minted) <=> \E i \in 1..Len(minted) : x = minted[i]
  BY SeqIs
<1> DEFINE n == Len(minted)
           T == {i \in 0..n : \E j \in 1..n : minted[j].key = key /\ i = n - j}
<1>2. PICK j0 \in 1..n : minted[j0].key = key
  BY <1>1 DEF KeysOf
<1>3. n - j0 \in T /\ T \in SUBSET Nat
  BY <1>1, <1>2
<1> HIDE DEF T
<1>4. PICK i \in T : \A k \in T : i <= k
  BY <1>3, LeastNat
<1>5. PICK j \in 1..n : minted[j].key = key /\ i = n - j
  BY <1>4 DEF T
<1>6. ASSUME NEW k \in 1..n, minted[k].key = key PROVE k <= j
  <2>1. n - k \in T
    <3>1. n - k \in 0..n
      BY <1>1
    <3> QED
      BY <1>6, <3>1 DEF T
  <2>2. n - j <= n - k
    BY <1>4, <1>5, <2>1
  <2> QED
    BY <1>1, <2>2
<1>7. \E h \in DOMAIN minted : /\ minted[h].key = key
                              /\ \A k \in DOMAIN minted : minted[k].key = key => k <= h
  BY <1>1, <1>5, <1>6
<1>8. Place(minted, key) \in DOMAIN minted /\ minted[Place(minted, key)].key = key
  BY <1>7 DEF Place
<1> QED
  BY <1>1, <1>8

\* New Cards are numbered from the counter on, and apart by their keys.
LEMMA NewCardIs ==
  ASSUME nextId \in Nat, NEW minted \in Seq(Dealt), NEW dealt \in Dealt, dealt.key \in KeysOf(minted)
  PROVE  /\ NewCard(minted, dealt) \in Presentation
         /\ NewCard(minted, dealt).key = dealt.key
         /\ nextId <= NewCard(minted, dealt).id
         /\ NewCard(minted, dealt).id < nextId + Len(minted)
         /\ minted[NewCard(minted, dealt).id - nextId + 1].key = dealt.key
<1> DEFINE p == Place(minted, dealt.key)
<1>1. p \in 1..Len(minted) /\ minted[p].key = dealt.key /\ Len(minted) \in Nat
  BY PlaceIs
<1>2. NewCard(minted, dealt) = [id |-> nextId - 1 + p, subject |-> dealt.subject, key |-> dealt.key]
  BY DEF NewCard, Card
<1> HIDE DEF p
<1>3. /\ nextId - 1 + p \in Nat /\ nextId <= nextId - 1 + p /\ nextId - 1 + p < nextId + Len(minted)
      /\ nextId - 1 + p - nextId + 1 = p
  BY <1>1
<1>4. dealt.subject \in Subjects /\ dealt.key \in Keys \cup {None}
  BY DEF Dealt
<1> QED
  BY <1>1, <1>2, <1>3, <1>4 DEF Presentation

\* Every key that a Deck has no Card for is minted.
Provides(minted, old, cards) ==
    /\ minted \in Seq(Dealt)
    /\ \A i \in 1..Len(cards) : cards[i].key \notin KeysOf(old) => cards[i].key \in KeysOf(minted)

-----------------------------------------------------------------------------
(* The slots of a Deck after an update.                                     *)

IdsOf(slots) == {c.id : c \in Range(slots)}

SubjectIn(cards, c) ==
    IF c.key = None THEN c.subject ELSE (CHOOSE g \in Range(cards) : g.key = c.key).subject

StillIn(old, cards) == {c \in Range(old) : c.key = None \/ c.key \in KeysOf(cards)}

\* What an update keeps, given the slots that were.
KeptOf(old, cards) ==
    LET kept == Chosen(old, StillIn(old, cards)) IN
    [j \in DOMAIN kept |-> [kept[j] EXCEPT !.subject = SubjectIn(cards, kept[j])]]

\* The Cards that are kept keep their ids, and their keys are those given.
LEMMA KeptOfIs ==
  ASSUME NEW old \in Seq(Presentation), CardsOnce(old), NEW cards, Keyed(cards)
  PROVE  /\ KeptOf(old, cards) \in Seq(Presentation) /\ CardsOnce(KeptOf(old, cards))
         /\ IdsOf(KeptOf(old, cards)) \subseteq IdsOf(old)
         /\ \A k \in KeysOf(cards) : k \in KeysOf(old) => k \in KeysOf(KeptOf(old, cards))
<1> DEFINE kept == Chosen(old, StillIn(old, cards))
           slot(c) == [c EXCEPT !.subject = SubjectIn(cards, c)]
           slots == [j \in 1..Len(kept) |-> slot(kept[j])]
<1>1. /\ kept \in Seq(Presentation)
      /\ \A x : x \in Range(kept) <=> x \in Range(old) /\ x \in StillIn(old, cards)
      /\ \E g \in [1..Len(kept) -> 1..Len(old)] :
               /\ \A k \in 1..Len(kept) : kept[k] = old[g[k]]
               /\ \A k, l \in 1..Len(kept) : g[k] = g[l] => k = l
  BY ChosenPicks
<1> HIDE DEF kept
<1>2. PICK g \in [1..Len(kept) -> 1..Len(old)] :
               /\ \A k \in 1..Len(kept) : kept[k] = old[g[k]]
               /\ \A k, l \in 1..Len(kept) : g[k] = g[l] => k = l
  BY <1>1
<1>3. /\ Len(kept) \in Nat /\ DOMAIN kept = 1..Len(kept)
      /\ \A x : x \in Range(kept) <=> \E i \in 1..Len(kept) : x = kept[i]
  BY <1>1, SeqIs
<1>4. ASSUME NEW k \in 1..Len(kept)
      PROVE  /\ slot(kept[k]) \in Presentation /\ slot(kept[k]).id = kept[k].id
             /\ slot(kept[k]).key = kept[k].key
  <2>1. kept[k] \in Presentation /\ kept[k] \in StillIn(old, cards)
    BY <1>1, <1>3
  <2>2. SubjectIn(cards, kept[k]) \in Subjects
    <3>1. CASE kept[k].key = None
      BY <2>1, <3>1 DEF SubjectIn, Presentation
    <3>2. CASE kept[k].key # None
      <4>1. \E d \in Range(cards) : d.key = kept[k].key
        BY <2>1, <3>2 DEF StillIn, KeysOf
      <4>2. Range(cards) \subseteq Dealt
        BY SeqIs DEF Keyed
      <4> DEFINE d == CHOOSE h \in Range(cards) : h.key = kept[k].key
      <4>3. d \in Dealt
        BY <4>1, <4>2
      <4>4. SubjectIn(cards, kept[k]) = d.subject
        BY <3>2 DEF SubjectIn
      <4> HIDE DEF d
      <4> QED
        BY <4>3, <4>4 DEF Dealt
    <3> QED
      BY <3>1, <3>2
  <2> QED
    BY <2>1, <2>2 DEF Presentation
<1>5. KeptOf(old, cards) = slots
  BY <1>3 DEF KeptOf, kept
<1>6. /\ slots \in Seq(Presentation) /\ Len(slots) = Len(kept) /\ DOMAIN slots = 1..Len(kept)
      /\ \A k \in 1..Len(kept) : slots[k] = slot(kept[k])
  <2>1. \A k \in 1..Len(kept) : slot(kept[k]) \in Presentation
    BY <1>4
  <2> HIDE DEF slot
  <2> QED
    BY <1>3, <2>1
<1> HIDE DEF slots, slot
<1>7. CardsOnce(slots)
  <2> SUFFICES ASSUME NEW i \in 1..Len(kept), NEW j \in 1..Len(kept), slots[i].id = slots[j].id
               PROVE  i = j
    BY <1>6 DEF CardsOnce
  <2>1. old[g[i]].id = old[g[j]].id
    BY <1>2, <1>4, <1>6
  <2>2. g[i] \in DOMAIN old /\ g[j] \in DOMAIN old
    BY <1>2, SeqIs
  <2>3. g[i] = g[j]
    BY <2>1, <2>2 DEF CardsOnce
  <2> QED
    BY <1>2, <2>3
<1>8. \A x : x \in Range(slots) <=> \E i \in 1..Len(kept) : x = slots[i]
  BY <1>6, SeqIs
<1>9. IdsOf(slots) \subseteq IdsOf(old)
  <2> SUFFICES ASSUME NEW i \in 1..Len(kept) PROVE slots[i].id \in IdsOf(old)
    BY <1>8 DEF IdsOf
  <2>1. kept[i] \in Range(old) /\ slots[i].id = kept[i].id
    BY <1>1, <1>3, <1>4, <1>6
  <2> QED
    BY <2>1 DEF IdsOf
<1>10. ASSUME NEW k \in KeysOf(cards), k \in KeysOf(old) PROVE k \in KeysOf(slots)
  <2>1. PICK c \in Range(old) : c.key = k
    BY <1>10 DEF KeysOf
  <2>2. c \in Range(kept)
    BY <1>1, <2>1 DEF StillIn
  <2>3. PICK i \in 1..Len(kept) : c = kept[i]
    BY <1>3, <2>2
  <2>4. slots[i] \in Range(slots) /\ slots[i].key = k
    BY <1>4, <1>6, <1>8, <2>1, <2>3
  <2> QED
    BY <2>4 DEF KeysOf
<1> QED
  BY <1>5, <1>6, <1>7, <1>9, <1>10

SlotAfter(cards, slots, j) ==
    IF j = 1 THEN 1 ELSE 1 + CHOOSE k \in DOMAIN slots : slots[k].key = cards[j - 1].key

AddSlot(old, cards, minted, slots, j) ==
    IF cards[j].key \in KeysOf(old) THEN slots
    ELSE InsertAt(slots, SlotAfter(cards, slots, j), NewCard(minted, cards[j]))

SlottedOf(old, cards, minted) ==
    LET upTo[j \in 0..Len(cards)] ==
          IF j = 0 THEN KeptOf(old, cards)
          ELSE AddSlot(old, cards, minted, upTo[j - 1], j) IN
    upTo[Len(cards)]

\* The slots depend on those that were, not on what was in front.
LEMMA SlottedByCards ==
  ASSUME NEW deck, NEW cards, NEW minted
  PROVE  SlottedIn(deck, cards, minted) = SlottedOf(deck.cards, cards, minted)
BY DEF SlottedIn, SlottedOf, Kept, KeptOf, StillIn, SubjectIn, AddSlot, SlotAfter

\* The slots after the first j given Cards.
SlotsUpTo(old, cards, minted, j) ==
    {slots \in Seq(Presentation) :
        /\ CardsOnce(slots)
        /\ \A c \in Range(slots) :
              \/ c.id \in IdsOf(old)
              \/ \E k \in 1..j : /\ cards[k].key \notin KeysOf(old)
                                 /\ c.id = NewCard(minted, cards[k]).id
        /\ \A i \in 1..Len(cards) :
              i <= j \/ cards[i].key \in KeysOf(old) => cards[i].key \in KeysOf(slots)}

\* One slot more: a new key comes after the one given before it, under an id
\* that is new.
LEMMA SlotAdded ==
  ASSUME nextId \in Nat, NEW old \in Seq(Presentation), \A id \in IdsOf(old) : id < nextId,
         NEW cards, Keyed(cards), NEW minted, Provides(minted, old, cards),
         NEW j \in 1..Len(cards), NEW slots \in SlotsUpTo(old, cards, minted, j - 1)
  PROVE  AddSlot(old, cards, minted, slots, j) \in SlotsUpTo(old, cards, minted, j)
<1>1. /\ slots \in Seq(Presentation) /\ CardsOnce(slots)
      /\ \A c \in Range(slots) :
              \/ c.id \in IdsOf(old)
              \/ \E k \in 1..(j - 1) : /\ cards[k].key \notin KeysOf(old)
                                       /\ c.id = NewCard(minted, cards[k]).id
      /\ \A i \in 1..Len(cards) :
            i <= j - 1 \/ cards[i].key \in KeysOf(old) => cards[i].key \in KeysOf(slots)
  BY DEF SlotsUpTo
<1>2. cards \in Seq(Dealt) /\ Len(cards) \in Nat /\ minted \in Seq(Dealt)
  BY DEF Keyed, Provides
<1>3. \A i \in 1..Len(cards) : i <= j => i <= j - 1 \/ i = j
  BY <1>2
<1>4. CASE cards[j].key \in KeysOf(old)
  <2>1. AddSlot(old, cards, minted, slots, j) = slots
    BY <1>4 DEF AddSlot
  <2>2. \A k \in 1..(j - 1) : k \in 1..j
    BY <1>2
  <2>3. \A c \in Range(slots) :
              \/ c.id \in IdsOf(old)
              \/ \E k \in 1..j : /\ cards[k].key \notin KeysOf(old)
                                 /\ c.id = NewCard(minted, cards[k]).id
    BY <1>1, <2>2
  <2>4. \A i \in 1..Len(cards) :
            i <= j \/ cards[i].key \in KeysOf(old) => cards[i].key \in KeysOf(slots)
    BY <1>1, <1>3, <1>4
  <2> QED
    BY <1>1, <2>1, <2>3, <2>4 DEF SlotsUpTo
<1>5. CASE cards[j].key \notin KeysOf(old)
  <2> DEFINE e == NewCard(minted, cards[j])
             at == SlotAfter(cards, slots, j)
             t == InsertAt(slots, at, e)
  <2>1. ASSUME NEW k \in 1..j, cards[k].key \notin KeysOf(old)
        PROVE  /\ NewCard(minted, cards[k]) \in Presentation
               /\ NewCard(minted, cards[k]).key = cards[k].key
               /\ nextId <= NewCard(minted, cards[k]).id
               /\ minted[NewCard(minted, cards[k]).id - nextId + 1].key = cards[k].key
    <3>1. k \in 1..Len(cards) /\ cards[k] \in Dealt
      BY <1>2
    <3>2. cards[k].key \in KeysOf(minted)
      BY <2>1, <3>1 DEF Provides
    <3> QED
      BY <1>2, <3>1, <3>2, NewCardIs
  <2>2. e \in Presentation /\ e.key = cards[j].key /\ nextId <= e.id /\ e.id \in Nat
    <3>1. j \in 1..j
      BY <1>2
    <3> QED
      BY <1>5, <2>1, <3>1 DEF Presentation
  <2>3. Len(slots) \in Nat /\ DOMAIN slots = 1..Len(slots)
    BY <1>1, SeqIs
  <2>4. at \in 1..(Len(slots) + 1)
    <3>1. CASE j = 1
      BY <2>3, <3>1 DEF SlotAfter
    <3>2. CASE j # 1
      <4>1. j - 1 \in 1..Len(cards) /\ j - 1 <= j - 1
        BY <1>2, <3>2
      <4>2. cards[j - 1].key \in KeysOf(slots)
        BY <1>1, <4>1
      <4>3. \E k \in DOMAIN slots : slots[k].key = cards[j - 1].key
        <5>1. PICK c \in Range(slots) : c.key = cards[j - 1].key
          BY <4>2 DEF KeysOf
        <5>2. PICK k \in 1..Len(slots) : c = slots[k]
          BY <1>1, SeqIs
        <5> QED
          BY <2>3, <5>1, <5>2
      <4> DEFINE k == CHOOSE h \in DOMAIN slots : slots[h].key = cards[j - 1].key
      <4>4. k \in 1..Len(slots)
        BY <2>3, <4>3
      <4>5. at = 1 + k
        BY <3>2 DEF SlotAfter
      <4> HIDE DEF k
      <4> QED
        BY <2>3, <4>4, <4>5
    <3> QED
      BY <3>1, <3>2
  <2>5. AddSlot(old, cards, minted, slots, j) = t
    BY <1>5 DEF AddSlot
  <2> HIDE DEF at, e
  <2>6. /\ t \in Seq(Presentation) /\ Len(t) = Len(slots) + 1
        /\ \A k \in 1..(Len(slots) + 1) :
              t[k] = IF k < at THEN slots[k] ELSE IF k = at THEN e ELSE slots[k - 1]
    <3>1. slots \in Seq(Presentation) /\ at \in 1..(Len(slots) + 1) /\ e \in Presentation
      BY <1>1, <2>2, <2>4
    <3>2. Inserted(t, Presentation, slots, at, e)
      BY <3>1, InsertIs
    <3> QED
      BY <3>2 DEF Inserted
  <2>7. Range(t) = Range(slots) \cup {e}
    <3>1. slots \in Seq(Presentation) /\ at \in 1..(Len(slots) + 1) /\ e \in Presentation
      BY <1>1, <2>2, <2>4
    <3>2. Range(InsertAt(slots, at, e)) = Range(slots) \cup {e}
      BY <3>1, InsertPicks
    <3> QED
      BY <3>2
  <2> HIDE DEF t
  <2>8. \A c \in Range(slots) : c.id # e.id
    <3> SUFFICES ASSUME NEW c \in Range(slots), c.id = e.id PROVE FALSE
      OBVIOUS
    <3>1. CASE c.id \in IdsOf(old)
      <4>1. c.id < nextId
        BY <3>1
      <4> QED
        BY <2>2, <4>1
    <3>2. ASSUME NEW k \in 1..(j - 1), cards[k].key \notin KeysOf(old),
                 c.id = NewCard(minted, cards[k]).id
          PROVE  FALSE
      <4>1. k \in 1..j /\ k \in 1..Len(cards) /\ j \in 1..j /\ k # j
        BY <1>2
      <4>2. cards[k].key = cards[j].key
        <5>1. minted[c.id - nextId + 1].key = cards[k].key
          BY <2>1, <3>2, <4>1
        <5>2. minted[e.id - nextId + 1].key = cards[j].key
          BY <1>5, <2>1, <4>1 DEF e
        <5> QED
          BY <5>1, <5>2
      <4> QED
        BY <4>1, <4>2 DEF Keyed
    <3> QED
      BY <1>1, <3>1, <3>2
  <2>9. CardsOnce(t)
    <3> SUFFICES ASSUME NEW k \in 1..(Len(slots) + 1), NEW l \in 1..(Len(slots) + 1), t[k].id = t[l].id
                 PROVE  k = l
      <4>1. DOMAIN t = 1..(Len(slots) + 1)
        BY <2>6, SeqIs
      <4> QED
        BY <4>1 DEF CardsOnce
    <3>1. ASSUME NEW i \in 1..(Len(slots) + 1), i # at
          PROVE  /\ t[i] = slots[IF i < at THEN i ELSE i - 1]
                 /\ (IF i < at THEN i ELSE i - 1) \in DOMAIN slots
                 /\ t[i].id # e.id
      <4>1. t[i] = slots[IF i < at THEN i ELSE i - 1]
        BY <2>6, <3>1
      <4>2. (IF i < at THEN i ELSE i - 1) \in 1..Len(slots)
        BY <2>3, <2>4, <3>1
      <4>3. slots[IF i < at THEN i ELSE i - 1] \in Range(slots)
        BY <1>1, <4>2, SeqIs
      <4> QED
        BY <2>3, <2>8, <4>1, <4>2, <4>3
    <3>2. t[at] = e
      BY <2>4, <2>6
    <3>3. CASE k = at
      <4>1. t[l].id = e.id
        BY <3>2, <3>3
      <4> QED
        BY <3>1, <3>3, <4>1
    <3>4. CASE l = at
      <4>1. t[k].id = e.id
        BY <3>2, <3>4
      <4> QED
        BY <3>1, <3>4, <4>1
    <3>5. CASE k # at /\ l # at
      <4>1. (IF k < at THEN k ELSE k - 1) = (IF l < at THEN l ELSE l - 1)
        BY <1>1, <3>1, <3>5 DEF CardsOnce
      <4>2. k \in Int /\ l \in Int /\ at \in Int
        BY <2>3, <2>4
      <4> QED
        BY <3>5, <4>1, <4>2
    <3> QED
      BY <3>3, <3>4, <3>5
  <2>10. \A c \in Range(t) :
              \/ c.id \in IdsOf(old)
              \/ \E k \in 1..j : /\ cards[k].key \notin KeysOf(old)
                                 /\ c.id = NewCard(minted, cards[k]).id
    <3>1. (\A k \in 1..(j - 1) : k \in 1..j) /\ j \in 1..j
      BY <1>2
    <3>2. \E k \in 1..j : /\ cards[k].key \notin KeysOf(old)
                          /\ e.id = NewCard(minted, cards[k]).id
      BY <1>5, <3>1 DEF e
    <3> QED
      BY <1>1, <2>7, <3>1, <3>2
  <2>11. \A i \in 1..Len(cards) :
            i <= j \/ cards[i].key \in KeysOf(old) => cards[i].key \in KeysOf(t)
    <3>1. KeysOf(slots) \subseteq KeysOf(t) /\ cards[j].key \in KeysOf(t)
      BY <2>2, <2>7 DEF KeysOf
    <3> QED
      BY <1>1, <1>3, <3>1
  <2> QED
    BY <2>5, <2>6, <2>9, <2>10, <2>11 DEF SlotsUpTo
<1> QED
  BY <1>4, <1>5

\* The slots after all given Cards.
LEMMA SlottedOfIs ==
  ASSUME nextId \in Nat, NEW old \in Seq(Presentation), CardsOnce(old),
         \A id \in IdsOf(old) : id < nextId,
         NEW cards, Keyed(cards), NEW minted, Provides(minted, old, cards)
  PROVE  SlottedOf(old, cards, minted) \in SlotsUpTo(old, cards, minted, Len(cards))
<1> DEFINE n == Len(cards)
           b == KeptOf(old, cards)
           Add(slots, j) == AddSlot(old, cards, minted, slots, j)
           Fit(j) == SlotsUpTo(old, cards, minted, j)
           Stage == [j \in 0..n |-> Fit(j)]
           step == [j \in 1..n |-> [slots \in Fit(j - 1) |-> Add(slots, j)]]
           Eq(h) == h = [j \in 0..n |-> IF j = 0 THEN b ELSE Add(h[j - 1], j)]
<1>1. n \in Nat /\ 0 \in 0..n /\ DOMAIN cards = 1..n
  BY DEF Keyed
<1>2. b \in Fit(0)
  <2>1. /\ b \in Seq(Presentation) /\ CardsOnce(b) /\ IdsOf(b) \subseteq IdsOf(old)
        /\ \A k \in KeysOf(cards) : k \in KeysOf(old) => k \in KeysOf(b)
    BY KeptOfIs
  <2> HIDE DEF b
  <2>2. \A c \in Range(b) : c.id \in IdsOf(old)
    BY <2>1 DEF IdsOf
  <2>3. \A i \in 1..n : cards[i].key \in KeysOf(cards) /\ ~(i <= 0)
    BY <1>1, SeqIs DEF Keyed, KeysOf
  <2> QED
    BY <2>1, <2>2, <2>3 DEF SlotsUpTo
<1>3. \A j \in 1..n : \A slots \in Fit(j - 1) : Add(slots, j) \in Fit(j)
  BY SlotAdded
<1> HIDE DEF Fit, Add, b
<1>4. \A j \in 0..n : Stage[j] = Fit(j)
  OBVIOUS
<1>5. \A j \in 1..n : \A slots \in Fit(j - 1) : step[j][slots] = Add(slots, j)
  OBVIOUS
<1>6. \A j \in 1..n : j \in 0..n /\ j - 1 \in 0..n /\ j # 0
  BY <1>1
<1> HIDE DEF Stage, step, n
<1>7. PICK f : Runs(f, n, b, Stage, step)
  <2>1. b \in Stage[0] /\ \A j \in 1..n : \A x \in Stage[j - 1] : step[j][x] \in Stage[j]
    BY <1>1, <1>2, <1>3, <1>4, <1>5, <1>6
  <2> HIDE DEF Eq
  <2> QED
    BY <1>1, <2>1, Iterates
<1>8. Eq(f)
  <2>1. f = [j \in 0..n |-> f[j]]
    BY <1>7 DEF Runs
  <2>2. ASSUME NEW j \in 0..n PROVE f[j] = IF j = 0 THEN b ELSE Add(f[j - 1], j)
    <3>1. CASE j = 0
      BY <1>7, <3>1 DEF Runs
    <3>2. CASE j # 0
      <4>1. j \in 1..n /\ j - 1 \in 0..n
        BY <1>1, <3>2
      <4> QED
        BY <1>4, <1>5, <1>7, <4>1, <3>2 DEF Runs
    <3> QED
      BY <3>1, <3>2
  <2> QED
    BY <2>1, <2>2
<1> DEFINE upTo == CHOOSE h : Eq(h)
<1>9. Eq(upTo)
  <2> HIDE DEF Eq
  <2> QED
    BY <1>8
<1>10. SlottedOf(old, cards, minted) = upTo[n]
  BY Zenon DEF SlottedOf, n, Add, b
<1> HIDE DEF upTo
<1>11. upTo[0] = b /\ \A j \in 1..n : upTo[j] = Add(upTo[j - 1], j)
  <2>1. upTo[0] = b
    BY <1>1, <1>9
  <2>2. ASSUME NEW j \in 1..n PROVE upTo[j] = Add(upTo[j - 1], j)
    BY <1>6, <1>9
  <2> QED
    BY <2>1, <2>2
<1> DEFINE Good == {j \in 0..n : upTo[j] \in Fit(j)}
<1>12. \A j \in 0..n : j \in Good
  <2>1. 0 \in Good
    BY <1>1, <1>2, <1>11
  <2>2. \A j \in 1..n : j - 1 \in Good => j \in Good
    <3> SUFFICES ASSUME NEW j \in 1..n, j - 1 \in Good PROVE j \in Good
      OBVIOUS
    <3>1. upTo[j] \in Fit(j)
      BY <1>3, <1>11
    <3> QED
      BY <1>6, <3>1
  <2> HIDE DEF Good
  <2> QED
    BY <1>1, <2>1, <2>2, CountUp
<1>13. upTo[n] \in Fit(n)
  BY <1>1, <1>12
<1> QED
  BY <1>10, <1>13 DEF Fit, n

\* An updated Deck has its id, its kept Cards and new ones.
Renewed(e, d, n, m) ==
    /\ e \in Deck /\ DeckOK(e) /\ e.id = d.id
    /\ \A id \in CardIds(e) : id \in CardIds(d) \/ (n <= id /\ id < m)

\* A Deck that is reconciled keeps its id, and its slots have old ids or new
\* ones.
LEMMA ReconciledIs ==
  ASSUME nextId \in Nat, NEW m \in Nat, NEW d \in Deck, DeckOK(d),
         \A id \in CardIds(d) : id < nextId,
         NEW cards, Keyed(cards), NEW minted, Provides(minted, d.cards, cards),
         nextId + Len(minted) <= m
  PROVE  /\ Renewed(Reconciled(d, cards, minted), d, nextId, m)
         /\ Reconciled(d, cards, minted).cards = SlottedOf(d.cards, cards, minted)
<1> DEFINE slots == SlottedIn(d, cards, minted)
           e == Reconciled(d, cards, minted)
<1>1. d.id \in Nat /\ d.cards \in Seq(Presentation) /\ d.front \in Nat \cup {None}
  BY DEF Deck
<1>2. slots = SlottedOf(d.cards, cards, minted)
  BY SlottedByCards
<1>3. slots \in SlotsUpTo(d.cards, cards, minted, Len(cards))
  <2>1. CardsOnce(d.cards) /\ \A id \in IdsOf(d.cards) : id < nextId
    BY DEF DeckOK, CardIds, IdsOf
  <2> QED
    BY <1>1, <1>2, <2>1, SlottedOfIs
<1>4. e = [d EXCEPT !.cards = slots,
                    !.front = IF \E c \in Range(slots) : c.id = @ THEN @ ELSE None]
  BY DEF Reconciled
<1> HIDE DEF slots, e
<1>5. /\ e.id = d.id /\ e.cards = slots
      /\ e.front = IF \E c \in Range(slots) : c.id = d.front THEN d.front ELSE None
  BY <1>4 DEF Deck
<1>6. e \in Deck
  <2>1. slots \in Seq(Presentation)
    BY <1>3 DEF SlotsUpTo
  <2> DEFINE fr == IF \E c \in Range(slots) : c.id = d.front THEN d.front ELSE None
  <2>2. fr \in Nat \cup {None}
    BY <1>1
  <2>3. e = [d EXCEPT !.cards = slots, !.front = fr]
    BY <1>4
  <2> HIDE DEF fr
  <2> QED
    BY <2>1, <2>2, <2>3 DEF Deck
<1>7. DeckOK(e)
  <2>1. CardsOnce(slots)
    BY <1>3 DEF SlotsUpTo
  <2>2. e.front \in CardIds(e) \cup {None}
    BY <1>5 DEF CardIds
  <2> QED
    BY <1>5, <2>1, <2>2 DEF DeckOK
<1>8. \A id \in CardIds(e) : id \in CardIds(d) \/ (nextId <= id /\ id < m)
  <2> SUFFICES ASSUME NEW c \in Range(slots)
               PROVE  c.id \in CardIds(d) \/ (nextId <= c.id /\ c.id < m)
    BY <1>5 DEF CardIds
  <2>1. \/ c.id \in IdsOf(d.cards)
        \/ \E k \in 1..Len(cards) : /\ cards[k].key \notin KeysOf(d.cards)
                                    /\ c.id = NewCard(minted, cards[k]).id
    BY <1>3 DEF SlotsUpTo
  <2>2. CASE c.id \in IdsOf(d.cards)
    BY <2>2 DEF IdsOf, CardIds
  <2>3. ASSUME NEW k \in 1..Len(cards), cards[k].key \notin KeysOf(d.cards),
               c.id = NewCard(minted, cards[k]).id
        PROVE  nextId <= c.id /\ c.id < m
    <3>1. cards[k] \in Dealt /\ cards[k].key \in KeysOf(minted) /\ minted \in Seq(Dealt)
      BY <2>3 DEF Keyed, Provides
    <3>2. nextId <= c.id /\ c.id < nextId + Len(minted) /\ c.id \in Nat
      BY <2>3, <3>1, NewCardIs DEF Presentation
    <3>3. Len(minted) \in Nat
      BY <3>1
    <3> QED
      BY <3>2, <3>3
  <2> QED
    BY <2>1, <2>2, <2>3
<1> QED
  BY <1>2, <1>5, <1>6, <1>7, <1>8 DEF Renewed, e

-----------------------------------------------------------------------------
(* The Sheets that show a Card of an updated Deck.                          *)

\* The Card of a slot, or the Presentation as it was.
LEMMA RetoldIs ==
  ASSUME NEW e \in Deck, DeckOK(e), NEW card \in Presentation \cup {None}
  PROVE  /\ Retold(card, e) \in Presentation \cup {None}
         /\ (Retold(card, e) = None) <=> (card = None)
         /\ card # None => Retold(card, e).id = card.id
         /\ card # None => \A c \in Range(e.cards) : c.id = card.id => Retold(card, e) = c
         /\ card # None /\ card.id \notin CardIds(e) => Retold(card, e) = card
<1>1. e.cards \in Seq(Presentation) /\ Range(e.cards) \subseteq Presentation
  BY SeqIs DEF Deck
<1>2. CASE card # None /\ card.id \in CardIds(e)
  <2> DEFINE r == CHOOSE c \in Range(e.cards) : c.id = card.id
  <2>1. \E c \in Range(e.cards) : c.id = card.id
    BY <1>2 DEF CardIds
  <2>2. r \in Range(e.cards) /\ r.id = card.id
    BY <2>1
  <2>3. Retold(card, e) = r
    BY <1>2 DEF Retold
  <2> HIDE DEF r
  <2>4. \A c \in Range(e.cards) : c.id = card.id => c = r
    <3>1. \A x : x \in Range(e.cards) <=> \E i \in 1..Len(e.cards) : x = e.cards[i]
      BY <1>1, SeqIs
    <3>2. DOMAIN e.cards = 1..Len(e.cards)
      BY <1>1, SeqIs
    <3> QED
      BY <2>2, <3>1, <3>2 DEF DeckOK, CardsOnce
  <2>5. r # None
    BY <1>1, <2>2, NoneApart
  <2> QED
    BY <1>1, <1>2, <2>2, <2>3, <2>4, <2>5
<1>3. CASE ~(card # None /\ card.id \in CardIds(e))
  <2>1. Retold(card, e) = card
    BY <1>3 DEF Retold
  <2>2. card # None => \A c \in Range(e.cards) : c.id # card.id
    BY <1>3 DEF CardIds
  <2> QED
    BY <2>1, <2>2
<1> QED
  BY <1>2, <1>3

\* The Sheet t0 after the Sheet x got the Deck e.
Reset(t, t0, x, e) == t.deck = IF t0 = x THEN e ELSE t0.deck

\* A retold Presentation agrees with every slot.
LEMMA RetoldAgrees ==
  ASSUME NEW n \in Nat, NEW m \in Nat, NEW A, Cast(A, n), NEW x \in A, x.deck # None,
         NEW e, Renewed(e, x.deck, n, m), NEW card \in Presentation, card.id < n,
         NEW t0 \in A, Agrees(card, t0), NEW t, Reset(t, t0, x, e)
  PROVE  Agrees(Retold(card, e), t)
<1>1. e \in Deck /\ DeckOK(e) /\ card \in Presentation \cup {None} /\ card # None /\ card.id \in Nat
  BY NoneApart DEF Renewed, Presentation
<1>2. /\ Retold(card, e).id = card.id
      /\ \A c \in Range(e.cards) : c.id = card.id => Retold(card, e) = c
      /\ card.id \notin CardIds(e) => Retold(card, e) = card
  BY <1>1, RetoldIs
<1>3. CASE t0 = x
  BY <1>2, <1>3 DEF Reset, Agrees
<1>4. CASE t0 # x
  <2>1. t.deck = t0.deck
    BY <1>4 DEF Reset
  <2>2. CASE card.id \notin CardIds(e)
    BY <1>2, <2>1, <2>2 DEF Agrees
  <2>3. CASE card.id \in CardIds(e)
    <3>1. card.id \in SlotsOf(x)
      BY <1>1, <2>3 DEF Renewed, SlotsOf
    <3>2. SlotsOf(t0) \cap SlotsOf(x) = {}
      BY <1>4 DEF Cast, Apart
    <3>3. card.id \notin SlotsOf(t0)
      BY <3>1, <3>2
    <3> QED
      BY <1>2, <2>1, <3>3 DEF Agrees, SlotsOf, CardIds
  <2> QED
    BY <2>2, <2>3
<1> QED
  BY <1>3, <1>4

ShowF(A, B, e) == [s \in A |-> IF s \in B THEN [s EXCEPT !.card = Retold(@, e)] ELSE s]

\* ShownAs rewrites Sheets.
LEMMA ShownAsIs ==
  ASSUME NEW ps \in Seq(Pane), NEW e
  PROVE  ShownAs(ps, e) = MappedBy(ps, ShowF(AllSheets(ps), Shown(ps), e))
<1> DEFINE f == ShowF(AllSheets(ps), Shown(ps), e)
           Show(s) == IF s \in Shown(ps) THEN [s EXCEPT !.card = Retold(@, e)] ELSE s
           All(sheets) == [j \in DOMAIN sheets |-> Show(sheets[j])]
<1>1. ShownAs(ps, e)
        = [i \in DOMAIN ps |-> [ps[i] EXCEPT !.line = All(@), !.covers = All(@)]]
  BY DEF ShownAs, MapSheets
<1>2. ASSUME NEW i \in DOMAIN ps
      PROVE  /\ All(ps[i].line) = MappedTo(ps[i].line, f)
             /\ All(ps[i].covers) = MappedTo(ps[i].covers, f)
  <2>1. /\ \A j \in DOMAIN ps[i].line : ps[i].line[j] \in AllSheets(ps)
        /\ \A j \in DOMAIN ps[i].covers : ps[i].covers[j] \in AllSheets(ps)
    BY SheetsAre DEF SheetsIn, Range
  <2>2. \A s \in AllSheets(ps) : f[s] = Show(s)
    BY DEF ShowF
  <2> HIDE DEF Show, f
  <2> QED
    BY <2>1, <2>2 DEF MappedTo
<1>3. \A i \in DOMAIN ps :
         [ps[i] EXCEPT !.line = All(@), !.covers = All(@)]
           = [ps[i] EXCEPT !.line = MappedTo(@, f), !.covers = MappedTo(@, f)]
  <2> HIDE DEF All, f
  <2>1. \A i \in DOMAIN ps : ps[i] \in Pane
    BY SheetsAre
  <2> QED
    BY <1>2, <2>1 DEF Pane
<1> HIDE DEF All, f
<1> QED
  BY <1>1, <1>3 DEF MappedBy, f

\* What no Pane shows is beneath the Ground of a Rooted one.
LEMMA Beneath ==
  ASSUME NEW n, NEW ps, Frame(ps, n), NEW s \in AllSheets(ps), s \notin Shown(ps)
  PROVE  \E p \in Range(ps) : Rooted(p) /\ s \in Range(p.line)
<1>1. ps \in Seq(Pane)
  BY DEF Frame
<1>2. PICK i \in DOMAIN ps : s \in SheetsIn(ps[i])
  BY <1>1, SheetsAre
<1> DEFINE p == ps[i]
<1>3. /\ p \in Range(ps) /\ p \in Pane /\ PaneOK(p) /\ s \in SheetsIn(p)
  BY <1>1, <1>2, SheetsAre DEF Frame
<1> HIDE DEF p
<1>4. s \notin SheetsOf(p)
  BY <1>3 DEF Shown
<1>5. s \in Range(p.line) /\ s # Ground(p)
  BY <1>3, <1>4 DEF SheetsIn, SheetsOf
<1>6. p.line \in Seq(Sheet) /\ p.line # <<>> /\ LineOK(p.line)
  BY <1>3, PaneIs DEF PaneOK
<1>7. PICK j \in 1..Len(p.line) : s = p.line[j]
  BY <1>5, <1>6, SeqIs
<1>8. Len(p.line) # 1
  BY <1>5, <1>7 DEF Ground, Last
<1>9. 1 \in DOMAIN p.line
  BY <1>6, <1>7
<1>10. Rooted(p)
  BY <1>6, <1>8, <1>9 DEF LineOK, Rooted
<1> QED
  BY <1>3, <1>5, <1>10

Updated(ps, qs, x, e, m) ==
    /\ LayoutInv(qs, m) /\ PaneIds(qs) = PaneIds(ps) /\ StillOpen(ps, qs)
    /\ \A t \in AllSheets(qs) : \E t0 \in AllSheets(ps) :
          Reset(t, t0, x, e) /\ CardOf(t) = CardOf(t0)
    /\ \A t \in Shown(qs) : \E t0 \in Shown(ps) : Reset(t, t0, x, e)
    /\ \E t \in Shown(qs) : t.deck = e

\* A Sheet of a layout whose Deck is renewed, and what its Cards show then.
LEMMA LayoutRenewed ==
  ASSUME NEW n \in Nat, NEW m \in Nat, n <= m, NEW ps, LayoutInv(ps, n),
         NEW x \in Shown(ps), x.deck # None, NEW e, Renewed(e, x.deck, n, m)
  PROVE  Updated(ps, ShownAs(SetDeck(ps, x.id, e), e), x, e, m)
<1> DEFINE A == AllSheets(ps)
           qs == SetDeck(ps, x.id, e)
           B == AllSheets(qs)
           y == [x EXCEPT !.deck = e]
           f == ShowF(B, Shown(qs), e)
           rs == ShownAs(qs, e)
<1>1. /\ Sound(ps, n) /\ Frame(ps, n) /\ RootedApart(ps) /\ Agreement(A) /\ Cast(A, n)
      /\ x \in A /\ x \in Sheet /\ SheetInv(x, n) /\ Shown(ps) \subseteq A
  BY ShownWithin DEF LayoutInv, Sound, Cast
<1>2. e \in Deck /\ DeckOK(e) /\ e # None
  BY NoneApart DEF Renewed
<1>3. /\ y \in Sheet /\ y.id = x.id /\ y.kind = x.kind /\ y.card = x.card /\ y.deck = e
  BY <1>1, <1>2 DEF Sheet
<1>4. y = [x EXCEPT !.deck = e]
  OBVIOUS
<1> HIDE DEF y
<1>5. /\ CardOf(y) = CardOf(x) /\ DeckOf(y) = {x.deck.id} /\ SlotsOf(y) = CardIds(e)
      /\ DeckOf(x) = {x.deck.id} /\ SlotsOf(x) = CardIds(x.deck)
  BY <1>2, <1>3 DEF CardOf, DeckOf, SlotsOf, Renewed
<1>6. SheetInv(y, m)
  <2>1. \A id \in {x.id} \cup CardOf(x) \cup DeckOf(x) \cup SlotsOf(x) : id \in Nat /\ id < n
    BY <1>1, SheetIs DEF SheetInv, Known
  <2>2. \A id \in {x.id} \cup CardOf(x) \cup DeckOf(x) \cup SlotsOf(x) : id < m
    BY <2>1
  <2>3. Known(y, m)
    BY <1>3, <1>5, <2>2 DEF Known, Renewed
  <2> QED
    BY <1>1, <1>2, <1>3, <2>3 DEF SheetInv
<1>7. Redeals(ps, x, e, y, n, m)
  BY <1>1, <1>3, <1>4, <1>5, <1>6 DEF Redeals, Renewed
<1>8. /\ Sound(qs, m) /\ Turned(A, x, y, B) /\ Turned(Shown(ps), x, y, Shown(qs))
      /\ PaneIds(qs) = PaneIds(ps)
  BY <1>7, Redealt
<1> HIDE DEF qs
<1>9. qs \in Seq(Pane) /\ Frame(qs, m) /\ Cast(B, m) /\ Shown(qs) \subseteq B
  BY <1>8, ShownWithin DEF Sound, Frame
<1>10. ASSUME NEW s \in Sheet
       PROVE  /\ [s EXCEPT !.card = Retold(@, e)] \in Sheet
              /\ [s EXCEPT !.card = Retold(@, e)].id = s.id
              /\ [s EXCEPT !.card = Retold(@, e)].kind = s.kind
              /\ [s EXCEPT !.card = Retold(@, e)].deck = s.deck
              /\ [s EXCEPT !.card = Retold(@, e)].card = Retold(s.card, e)
              /\ (Retold(s.card, e) = None) <=> (s.card = None)
              /\ s.card # None => Retold(s.card, e).id = s.card.id
  <2>1. s.card \in Presentation \cup {None}
    BY SheetIs
  <2>2. /\ Retold(s.card, e) \in Presentation \cup {None}
        /\ (Retold(s.card, e) = None) <=> (s.card = None)
        /\ s.card # None => Retold(s.card, e).id = s.card.id
    BY <1>2, <2>1, RetoldIs
  <2> QED
    BY <2>2 DEF Sheet
<1>11. ASSUME NEW s \in B
       PROVE  /\ s \in Sheet
              /\ f[s] \in Sheet /\ f[s].id = s.id /\ f[s].kind = s.kind /\ f[s].deck = s.deck
              /\ f[s].card = IF s \in Shown(qs) THEN Retold(s.card, e) ELSE s.card
              /\ (f[s].card = None) <=> (s.card = None)
              /\ CardOf(f[s]) = CardOf(s)
  <2>1. s \in Sheet
    BY <1>9 DEF Cast
  <2>2. f[s] = IF s \in Shown(qs) THEN [s EXCEPT !.card = Retold(@, e)] ELSE s
    BY DEF ShowF
  <2> HIDE DEF f
  <2>3. /\ f[s] \in Sheet /\ f[s].id = s.id /\ f[s].kind = s.kind /\ f[s].deck = s.deck
        /\ f[s].card = IF s \in Shown(qs) THEN Retold(s.card, e) ELSE s.card
    BY <1>10, <2>1, <2>2
  <2>4. (f[s].card = None) <=> (s.card = None)
    BY <1>10, <2>1, <2>3
  <2>5. s.card # None => f[s].card.id = s.card.id
    BY <1>10, <2>1, <2>3
  <2> QED
    BY <2>1, <2>3, <2>4, <2>5 DEF CardOf
<1>12. f \in [B -> Sheet]
  <2>1. f = [s \in B |-> f[s]]
    BY DEF ShowF
  <2>2. \A s \in B : f[s] \in Sheet
    BY <1>11
  <2> HIDE DEF f
  <2> QED
    BY <2>1, <2>2
<1>13. rs = MappedBy(qs, f)
  BY <1>9, ShownAsIs
<1> HIDE DEF f, rs, B
<1>14. Keeps(B, f, m, m)
  <2>1. ASSUME NEW s \in B
        PROVE  /\ f[s].id = s.id /\ f[s].kind = s.kind /\ CardOf(f[s]) = CardOf(s)
               /\ SheetInv(f[s], m) /\ SlotsOf(f[s]) = SlotsOf(s) /\ DeckOf(f[s]) = DeckOf(s)
    <3>1. SheetInv(s, m)
      BY <1>9 DEF Cast
    <3>2. SlotsOf(f[s]) = SlotsOf(s) /\ DeckOf(f[s]) = DeckOf(s)
      BY <1>11 DEF SlotsOf, DeckOf
    <3> QED
      BY <1>11, <3>1, <3>2 DEF SheetInv, Known
  <2>2. \A s, t \in B : s # t => /\ DeckOf(s) \cap DeckOf(t) = {}
                                 /\ SlotsOf(s) \cap SlotsOf(t) = {}
    BY <1>9 DEF Cast, Apart
  <2> QED
    BY <1>12, <2>1, <2>2 DEF Keeps
<1>15. Sound(rs, m)
  BY <1>8, <1>13, <1>14, SoundMapped DEF B
<1>16. \A t : t \in AllSheets(rs) <=> \E s \in B : t = f[s]
  BY <1>9, <1>12, <1>13, MappedByIs DEF B
<1>17. /\ \A t : t \in Shown(rs) <=> \E s \in Shown(qs) : t = f[s]
       /\ PaneIds(rs) = PaneIds(ps)
  BY <1>8, <1>9, <1>12, <1>13, ShownMapped DEF B
\* Where a Sheet of the new layout comes from.
<1>18. ASSUME NEW s \in B
       PROVE  \E s0 \in A : /\ s = IF s0 = x THEN y ELSE s0
                            /\ s0.card = s.card /\ CardOf(s0) = CardOf(s)
                            /\ Reset(s, s0, x, e)
                            /\ s0 \in Shown(ps) => s \in Shown(qs)
  <2>1. PICK s0 \in A : s = IF s0 = x THEN y ELSE s0
    BY <1>8 DEF Turned
  <2>2. s0.card = s.card /\ CardOf(s0) = CardOf(s) /\ Reset(s, s0, x, e)
    BY <1>3, <1>5, <2>1 DEF Reset
  <2>3. s0 \in Shown(ps) => s \in Shown(qs)
    BY <1>8, <2>1 DEF Turned
  <2> QED
    BY <2>1, <2>2, <2>3
<1>19. Agreement(AllSheets(rs))
  <2> SUFFICES ASSUME NEW s \in B, NEW t \in B, f[s].card # None
               PROVE  Agrees(f[s].card, f[t])
    BY <1>16 DEF Agreement
  <2>1. PICK s0 \in A : s0.card = s.card /\ (s0 \in Shown(ps) => s \in Shown(qs))
    BY <1>18
  <2>2. PICK t0 \in A : Reset(t, t0, x, e)
    BY <1>18
  <2>3. Reset(f[t], t0, x, e)
    BY <1>11, <2>2 DEF Reset
  <2>4. s.card # None
    BY <1>11
  <2>5. Agrees(s.card, t0)
    BY <1>1, <2>1, <2>4 DEF Agreement
  <2>6. /\ s.card \in Presentation /\ s.card.id < n /\ CardOf(s0) = {s.card.id}
        /\ s.card.id \in Nat
    <3>1. s0 \in Sheet /\ SheetInv(s0, n)
      BY <1>1 DEF Cast
    <3> QED
      BY <2>1, <2>4, <3>1, SheetIs DEF SheetInv, Known, CardOf
  <2>7. Agrees(Retold(s.card, e), f[t])
    BY <1>1, <2>3, <2>5, <2>6, RetoldAgrees
  <2>8. CASE s \in Shown(qs)
    BY <1>11, <2>7, <2>8
  <2>9. CASE s \notin Shown(qs)
    <3>1. PICK p \in Range(ps) : Rooted(p) /\ s0 \in Range(p.line)
      BY <1>1, <2>1, <2>9, Beneath
    <3>2. CardOf(s0) \cap SlotsOf(x) = {}
      BY <1>1, <3>1 DEF RootedApart
    <3>3. s.card.id \notin CardIds(e)
      BY <1>5, <2>6, <3>2 DEF Renewed
    <3>4. Retold(s.card, e) = s.card
      BY <3>3 DEF Retold
    <3>5. f[s].card = s.card
      BY <1>11, <2>9
    <3> QED
      BY <2>7, <3>4, <3>5
  <2> QED
    BY <2>8, <2>9
<1>20. LayoutInv(rs, m)
  BY <1>15, <1>19 DEF LayoutInv
<1>21. \A t \in AllSheets(rs) : \E t0 \in A : Reset(t, t0, x, e) /\ CardOf(t) = CardOf(t0)
  <2> SUFFICES ASSUME NEW s \in B
               PROVE  \E t0 \in A : Reset(f[s], t0, x, e) /\ CardOf(f[s]) = CardOf(t0)
    BY <1>16
  <2>1. PICK s0 \in A : Reset(s, s0, x, e) /\ CardOf(s0) = CardOf(s)
    BY <1>18
  <2> QED
    BY <1>11, <2>1 DEF Reset
<1>22. \A t \in Shown(rs) : \E t0 \in Shown(ps) : Reset(t, t0, x, e)
  <2> SUFFICES ASSUME NEW s \in Shown(qs) PROVE \E t0 \in Shown(ps) : Reset(f[s], t0, x, e)
    BY <1>17
  <2>1. PICK s0 \in Shown(ps) : s = IF s0 = x THEN y ELSE s0
    BY <1>8 DEF Turned
  <2>2. s.deck = f[s].deck
    BY <1>9, <1>11
  <2> QED
    BY <1>3, <2>1, <2>2 DEF Reset
<1>23. \E t \in Shown(rs) : t.deck = e
  <2>1. y \in Shown(qs)
    BY <1>8 DEF Turned
  <2>2. f[y] \in Shown(rs) /\ f[y].deck = e
    BY <1>3, <1>9, <1>11, <1>17, <2>1
  <2> QED
    BY <2>2
<1>24. StillOpen(ps, rs)
  <2> SUFFICES ASSUME NEW s \in Shown(ps) PROVE \E t \in Shown(rs) : CardOf(t) = CardOf(s)
    BY DEF StillOpen
  <2>1. PICK s1 \in Shown(qs) : s1 = IF s = x THEN y ELSE s
    BY <1>8 DEF Turned
  <2>2. CardOf(s1) = CardOf(s)
    BY <1>5, <2>1
  <2>3. f[s1] \in Shown(rs) /\ CardOf(f[s1]) = CardOf(s1)
    BY <1>9, <1>11, <1>17
  <2> QED
    BY <2>2, <2>3
<1> QED
  BY <1>17, <1>20, <1>21, <1>22, <1>23, <1>24 DEF Updated, rs, qs

-----------------------------------------------------------------------------
(* ReconcileDeck.                                                           *)

\* The new keys are Cards to mint, for each of the Decks.
LEMMA NewKeysProvide ==
  ASSUME NEW cards, Keyed(cards), NEW decks, \A d, e \in decks : d = e
  PROVE  /\ NewKeys(decks, cards) \in Seq(Dealt)
         /\ \A d \in decks : Provides(NewKeys(decks, cards), d.cards, cards)
<1>1. cards \in Seq(Dealt)
  BY DEF Keyed
<1>2. CASE decks = {}
  <2>1. NewKeys(decks, cards) = <<>>
    BY <1>2 DEF NewKeys
  <2>2. <<>> \in Seq(Dealt)
    OBVIOUS
  <2>3. NewKeys(decks, cards) \in Seq(Dealt)
    BY <2>1, <2>2
  <2> QED
    BY <1>2, <2>3
<1>3. CASE decks # {}
  <2> DEFINE T == {dealt \in Range(cards) : \A d \in decks : dealt.key \notin KeysOf(d.cards)}
             new == Chosen(cards, T)
  <2>1. NewKeys(decks, cards) = new
    BY <1>3 DEF NewKeys
  <2>2. new \in Seq(Dealt) /\ \A x : x \in Range(new) <=> x \in Range(cards) /\ x \in T
    BY <1>1, ChosenPicks
  <2> HIDE DEF new
  <2>3. ASSUME NEW d \in decks, NEW i \in 1..Len(cards), cards[i].key \notin KeysOf(d.cards)
        PROVE  cards[i].key \in KeysOf(new)
    <3>1. cards[i] \in Range(cards)
      BY <1>1, SeqIs
    <3>2. cards[i] \in T
      BY <2>3, <3>1
    <3>3. cards[i] \in Range(new)
      BY <2>2, <3>1, <3>2
    <3> QED
      BY <3>3 DEF KeysOf
  <2> QED
    BY <2>1, <2>2, <2>3 DEF Provides
<1> QED
  BY <1>2, <1>3

\* What is minted begins with the live Deck's, and leaves none out.
LEMMA MintedIs ==
  ASSUME NEW first \in Seq(Dealt), NEW second \in Seq(Dealt)
  PROVE  /\ Minted(first, second) \in Seq(Dealt)
         /\ Len(first) <= Len(Minted(first, second))
         /\ KeysOf(second) \subseteq KeysOf(Minted(first, second))
<1> DEFINE rest == Chosen(second, Range(second) \ Range(first))
<1>1. /\ rest \in Seq(Dealt)
      /\ \A x : x \in Range(rest) <=> x \in Range(second) /\ x \in Range(second) \ Range(first)
  BY ChosenPicks
<1>2. Minted(first, second) = first \o rest
  BY DEF Minted
<1> HIDE DEF rest
<1>3. /\ first \o rest \in Seq(Dealt) /\ Len(first \o rest) = Len(first) + Len(rest)
      /\ \A k \in 1..(Len(first) + Len(rest)) :
               (first \o rest)[k] = IF k <= Len(first) THEN first[k] ELSE rest[k - Len(first)]
  BY <1>1, ConcatIs
<1>4. Len(first) \in Nat /\ Len(rest) \in Nat
  BY <1>1
<1> DEFINE all == first \o rest
<1> HIDE DEF all
<1>5. /\ all \in Seq(Dealt) /\ Len(all) = Len(first) + Len(rest)
      /\ \A k \in 1..Len(all) : all[k] = IF k <= Len(first) THEN first[k] ELSE rest[k - Len(first)]
  BY <1>3 DEF all
<1>6. Range(second) \subseteq Range(all)
  <2> SUFFICES ASSUME NEW x \in Range(second) PROVE \E k \in 1..Len(all) : x = all[k]
    BY <1>5, SeqIs
  <2>1. CASE x \in Range(first)
    <3>1. PICK k \in 1..Len(first) : x = first[k]
      BY <2>1, SeqIs
    <3>2. k \in 1..Len(all) /\ all[k] = first[k]
      BY <1>4, <1>5
    <3> QED
      BY <3>1, <3>2
  <2>2. CASE x \notin Range(first)
    <3>1. PICK k \in 1..Len(rest) : x = rest[k]
      BY <1>1, <2>2, SeqIs
    <3>2. /\ Len(first) + k \in 1..Len(all) /\ ~(Len(first) + k <= Len(first))
          /\ Len(first) + k - Len(first) = k
      BY <1>4, <1>5
    <3>3. all[Len(first) + k] = rest[k]
      BY <1>5, <3>2
    <3> QED
      BY <3>1, <3>2, <3>3
  <2> QED
    BY <2>1, <2>2
<1>7. KeysOf(second) \subseteq KeysOf(all)
  BY <1>6 DEF KeysOf
<1>8. Len(first) <= Len(all)
  BY <1>4, <1>5
<1> QED
  BY <1>2, <1>5, <1>7, <1>8 DEF all

\* Decks of the same Cards mint the same.
LEMMA SameMinted ==
  ASSUME NEW cards, Keyed(cards), NEW ds, NEW es, ds # {}, es # {},
         \A d \in ds, e \in es : d.cards = e.cards
  PROVE  /\ NewKeys(ds, cards) = NewKeys(es, cards)
         /\ Minted(NewKeys(ds, cards), NewKeys(es, cards)) = NewKeys(ds, cards)
<1> DEFINE T(decks) == {dealt \in Range(cards) : \A d \in decks : dealt.key \notin KeysOf(d.cards)}
<1>1. T(ds) = T(es)
  OBVIOUS
<1>2. NewKeys(ds, cards) = Chosen(cards, T(ds)) /\ NewKeys(es, cards) = Chosen(cards, T(es))
  BY DEF NewKeys
<1> DEFINE new == Chosen(cards, T(ds))
<1>3. new \in Seq(Dealt)
  BY ChosenPicks DEF Keyed
<1>4. NewKeys(ds, cards) = new /\ NewKeys(es, cards) = new
  BY <1>1, <1>2
<1> HIDE DEF new, T
<1>5. Minted(new, new) = new
  <2>1. Range(new) \ Range(new) = {}
    OBVIOUS
  <2>2. Minted(new, new) = new \o Chosen(new, {})
    BY <2>1 DEF Minted
  <2>3. Chosen(new, {}) = <<>>
    BY <1>3, ChosenNone
  <2>4. new \o <<>> = new
    BY <1>3
  <2> QED
    BY <2>2, <2>3, <2>4
<1> QED
  BY <1>4, <1>5

\* A layout shows one Deck by an id, at most.
LEMMA OneDealer ==
  ASSUME NEW n \in Nat, NEW ps, LayoutInv(ps, n), NEW s \in Dealers(ps), NEW t \in Dealers(ps),
         s.deck.id = t.deck.id
  PROVE  s = t
<1>1. s \in AllSheets(ps) /\ t \in AllSheets(ps) /\ s.deck # None /\ t.deck # None
  BY ShownWithin DEF LayoutInv, Dealers
<1>2. DeckOf(s) \cap DeckOf(t) # {}
  BY <1>1 DEF DeckOf
<1> QED
  BY <1>1, <1>2 DEF LayoutInv, Sound, Cast, Apart

\* What an update needs minted for one layout.
Serves(minted, ps, deckId, cards, m) ==
    /\ minted \in Seq(Dealt) /\ nextId + Len(minted) <= m
    /\ \A d \in DeckIn(ps, deckId) : Provides(minted, d.cards, cards)

\* The Sheet x of the layout that shows the Deck, and the layout after.
Renews(ps, qs, x, e, deckId, cards, minted, m) ==
    /\ x \in Dealers(ps) /\ x.deck.id = deckId
    /\ \A t \in Dealers(ps) : t.deck.id = deckId => t = x
    /\ Renewed(e, x.deck, nextId, m) /\ e.cards = SlottedOf(x.deck.cards, cards, minted)
    /\ Updated(ps, qs, x, e, m)

\* A layout that shows the Deck is updated in its one Sheet.
LEMMA ReconcileInIs ==
  ASSUME nextId \in Nat, NEW m \in Nat, nextId <= m, NEW ps, LayoutInv(ps, nextId),
         NEW deckId, NEW cards, Keyed(cards), NEW minted, Serves(minted, ps, deckId, cards, m),
         DeckIn(ps, deckId) # {}
  PROVE  \E x, e : Renews(ps, ReconcileIn(ps, deckId, cards, minted), x, e, deckId, cards, minted, m)
<1> DEFINE x == CHOOSE t \in Dealers(ps) : t.deck.id = deckId
           e == Reconciled(x.deck, cards, minted)
<1>1. x \in Dealers(ps) /\ x.deck.id = deckId
  <2>1. \E t \in Dealers(ps) : t.deck.id = deckId
    BY DEF DeckIn
  <2> QED
    BY <2>1
<1>2. ReconcileIn(ps, deckId, cards, minted) = ShownAs(SetDeck(ps, x.id, e), e)
  BY DEF ReconcileIn
<1> HIDE DEF x
<1>3. \A t \in Dealers(ps) : t.deck.id = deckId => t = x
  BY <1>1, OneDealer
<1>4. x \in Shown(ps) /\ x.deck # None
  BY <1>1 DEF Dealers
<1>5. x \in AllSheets(ps)
  BY <1>4, ShownWithin DEF LayoutInv
<1>6. x \in Sheet /\ SheetInv(x, nextId)
  BY <1>5 DEF LayoutInv, Sound, Cast
<1>7. x.deck \in Deck /\ DeckOK(x.deck) /\ \A id \in CardIds(x.deck) : id < nextId
  BY <1>4, <1>6, SheetIs DEF SheetInv, Known, SlotsOf
<1>8. x.deck \in DeckIn(ps, deckId)
  BY <1>1 DEF DeckIn
<1>9. Provides(minted, x.deck.cards, cards) /\ nextId + Len(minted) <= m
  BY <1>8 DEF Serves
<1>10. Renewed(e, x.deck, nextId, m) /\ e.cards = SlottedOf(x.deck.cards, cards, minted)
  BY <1>7, <1>9, ReconciledIs
<1> HIDE DEF e
<1>11. Updated(ps, ShownAs(SetDeck(ps, x.id, e), e), x, e, m)
  BY <1>4, <1>10, LayoutRenewed
<1>12. Renews(ps, ReconcileIn(ps, deckId, cards, minted), x, e, deckId, cards, minted, m)
  BY <1>1, <1>2, <1>3, <1>10, <1>11 DEF Renews
<1> QED
  BY <1>12

\* The Sheets of an updated layout that deal Decks.
LEMMA DealersAfter ==
  ASSUME NEW ps, NEW qs, NEW x, NEW e, NEW deckId, NEW cards, NEW minted, NEW m,
         Renews(ps, qs, x, e, deckId, cards, minted, m), NEW t \in Dealers(qs)
  PROVE  \E t0 \in Dealers(ps) : Reset(t, t0, x, e) /\ t.deck.id = t0.deck.id
<1>1. t \in Shown(qs) /\ t.deck # None
  BY DEF Dealers
<1>2. PICK t0 \in Shown(ps) : Reset(t, t0, x, e)
  BY <1>1 DEF Renews, Updated
<1>3. t0.deck # None
  BY <1>1, <1>2 DEF Reset, Renews, Dealers
<1>4. t.deck.id = t0.deck.id
  BY <1>2 DEF Reset, Renews, Renewed
<1> QED
  BY <1>2, <1>3, <1>4 DEF Dealers

\* The card in hand, or the one it is retold as, is in no Sheet and agrees with all.
LEMMA HandRenewed ==
  ASSUME IInv, ~Free, NEW qs, NEW x, NEW e, NEW deckId, NEW cards, NEW minted,
         nextId' \in Nat, Renews(panes, qs, x, e, deckId, cards, minted, nextId'),
         NEW card, card = Retold(held.card, e)
  PROVE  /\ card \in Presentation /\ card.id = held.card.id
         /\ \A t \in AllSheets(qs) : card.id \notin CardOf(t) /\ Agrees(card, t)
<1>1. /\ nextId \in Nat /\ Cast(AllSheets(panes), nextId)
      /\ held.card \in Presentation /\ held.card.id < nextId
      /\ \A t \in AllSheets(panes) : held.card.id \notin CardOf(t) /\ Agrees(held.card, t)
  BY DEF IInv, HeldInv, LayoutInv, Sound
<1>2. /\ x \in Dealers(panes) /\ Renewed(e, x.deck, nextId, nextId')
      /\ Updated(panes, qs, x, e, nextId')
  BY DEF Renews
<1>3. x \in AllSheets(panes) /\ x.deck # None
  BY <1>1, <1>2, ShownWithin DEF Dealers, IInv, LayoutInv
<1>4. card \in Presentation /\ card.id = held.card.id
  <2>1. e \in Deck /\ DeckOK(e) /\ held.card \in Presentation \cup {None} /\ held.card # None
    BY <1>1, <1>2, NoneApart DEF Renewed
  <2> QED
    BY <2>1, RetoldIs
<1>5. ASSUME NEW t \in AllSheets(qs) PROVE card.id \notin CardOf(t) /\ Agrees(card, t)
  <2>1. PICK t0 \in AllSheets(panes) : Reset(t, t0, x, e) /\ CardOf(t) = CardOf(t0)
    BY <1>2 DEF Updated
  <2>2. Agrees(held.card, t0)
    BY <1>1
  <2>3. Agrees(card, t)
    BY <1>1, <1>2, <1>3, <2>1, <2>2, RetoldAgrees
  <2> QED
    BY <1>1, <1>4, <2>1, <2>3
<1> QED
  BY <1>4, <1>5

\* Decks that both layouts show have the same Cards, also after the update.
LEMMA KeepsUpRenewed ==
  ASSUME NEW ps, NEW qs, NEW x, NEW e, NEW ps2, NEW qs2, NEW x2, NEW e2,
         NEW deckId, NEW cards, NEW minted, NEW m,
         Renews(ps, qs, x, e, deckId, cards, minted, m),
         Renews(ps2, qs2, x2, e2, deckId, cards, minted, m),
         \A s \in Dealers(ps), t \in Dealers(ps2) : s.deck.id = t.deck.id => s.deck.cards = t.deck.cards,
         NEW s \in Dealers(qs), NEW t \in Dealers(qs2), s.deck.id = t.deck.id
  PROVE  s.deck.cards = t.deck.cards
<1>1. PICK s0 \in Dealers(ps) : Reset(s, s0, x, e) /\ s.deck.id = s0.deck.id
  BY DealersAfter
<1>2. PICK t0 \in Dealers(ps2) : Reset(t, t0, x2, e2) /\ t.deck.id = t0.deck.id
  BY DealersAfter
<1>3. s0.deck.cards = t0.deck.cards
  BY <1>1, <1>2
<1>4. (s0 = x) <=> (s0.deck.id = deckId)
  BY DEF Renews
<1>5. (t0 = x2) <=> (t0.deck.id = deckId)
  BY DEF Renews
<1>6. CASE s0 = x
  <2>1. t0 = x2 /\ s.deck = e /\ t.deck = e2
    BY <1>1, <1>2, <1>4, <1>5, <1>6 DEF Reset
  <2> QED
    BY <1>3, <1>6, <2>1 DEF Renews
<1>7. CASE s0 # x
  BY <1>1, <1>2, <1>3, <1>4, <1>5, <1>7 DEF Reset
<1> QED
  BY <1>6, <1>7

\* A Deck is rewritten, in the layout, in hand and in the checkpoint.
LEMMA ReconcileDeckInv ==
  ASSUME IInv, NEW deckId \in LiveDecks, NEW cards \in Updates, ReconcileDeck(deckId, cards)
  PROVE  IInv'
<1> DEFINE first == NewKeys(DeckIn(panes, deckId), cards)
           second == IF Free THEN <<>> ELSE NewKeys(DeckIn(held.panes, deckId), cards)
           minted == Minted(first, second)
           after == ReconcileIn(panes, deckId, cards, first)
<1>1. /\ nextId \in Nat /\ LayoutInv(panes, nextId) /\ active \in PaneIds(panes)
      /\ ~Free => HeldInv
      /\ CheckpointKeepsUp
  BY DEF IInv
<1>2. Keyed(cards)
  BY UpdatesKeyed
<1>3. /\ nextId' = nextId + Len(minted) /\ panes' = after /\ active' = active
      /\ held' = IF Free THEN None
                 ELSE [held EXCEPT
                         !.panes = ReconcileIn(@, deckId, cards, minted),
                         !.card = IF DeckIn(after, deckId) = {} THEN @
                                  ELSE Retold(@, CHOOSE d \in DeckIn(after, deckId) : TRUE)]
  BY Zenon DEF ReconcileDeck, Mint
<1>4. ASSUME NEW ps, LayoutInv(ps, nextId)
      PROVE  /\ \A d, e \in DeckIn(ps, deckId) : d = e
             /\ NewKeys(DeckIn(ps, deckId), cards) \in Seq(Dealt)
             /\ \A d \in DeckIn(ps, deckId) :
                   Provides(NewKeys(DeckIn(ps, deckId), cards), d.cards, cards)
  <2>1. \A d, e \in DeckIn(ps, deckId) : d = e
    BY <1>1, <1>4, OneDealer DEF DeckIn
  <2> QED
    BY <1>2, <2>1, NewKeysProvide
<1>5. /\ first \in Seq(Dealt)
      /\ \A d \in DeckIn(panes, deckId) : Provides(first, d.cards, cards)
  BY <1>1, <1>4
<1>6. /\ second \in Seq(Dealt)
      /\ ~Free => \A d \in DeckIn(held.panes, deckId) : Provides(second, d.cards, cards)
  <2>1. CASE Free
    BY <2>1
  <2>2. CASE ~Free
    <3>1. LayoutInv(held.panes, nextId)
      BY <1>1, <2>2 DEF HeldInv
    <3> QED
      BY <1>4, <2>2, <3>1
  <2> QED
    BY <2>1, <2>2
<1> HIDE DEF first, second
<1>7. /\ minted \in Seq(Dealt) /\ Len(first) <= Len(minted)
      /\ KeysOf(second) \subseteq KeysOf(minted)
  BY <1>5, <1>6, MintedIs
<1> HIDE DEF minted
<1>8. /\ nextId' \in Nat /\ nextId <= nextId'
      /\ nextId + Len(first) <= nextId' /\ nextId + Len(minted) <= nextId'
  <2>1. Len(first) \in Nat /\ Len(minted) \in Nat
    BY <1>5, <1>7
  <2> QED
    BY <1>1, <1>3, <1>7, <2>1
<1>9. Serves(first, panes, deckId, cards, nextId')
  BY <1>5, <1>8 DEF Serves
<1>10. DeckIn(panes, deckId) # {}
  BY DEF LiveDecks, DeckIn
<1>11. PICK x, e : Renews(panes, panes', x, e, deckId, cards, first, nextId')
  BY <1>1, <1>2, <1>3, <1>8, <1>9, <1>10, ReconcileInIs
<1>12. /\ LayoutInv(panes', nextId') /\ PaneIds(panes') = PaneIds(panes)
       /\ \E t \in Shown(panes') : t.deck = e
       /\ e # None /\ e.id = deckId
  BY <1>11, NoneApart DEF Renews, Updated, Renewed
<1>13. active' \in PaneIds(panes')
  BY <1>1, <1>3, <1>12
<1>14. CASE Free
  BY <1>3, <1>8, <1>12, <1>13, <1>14, ThenFree
<1>15. CASE ~Free
  <2> DEFINE card == Retold(held.card, e)
             ps == held.panes
             qs == ReconcileIn(ps, deckId, cards, minted)
  <2>1. HeldInv
    BY <1>1, <1>15
  <2>2. DeckIn(panes', deckId) = {e}
    <3>1. \A d \in DeckIn(panes', deckId) : d = e
      <4> SUFFICES ASSUME NEW t \in Dealers(panes'), t.deck.id = deckId PROVE t.deck = e
        BY DEF DeckIn
      <4>1. PICK t0 \in Dealers(panes) : Reset(t, t0, x, e) /\ t.deck.id = t0.deck.id
        BY <1>11, DealersAfter
      <4>2. t0 = x
        BY <1>11, <4>1 DEF Renews
      <4> QED
        BY <4>1, <4>2 DEF Reset
    <3>2. e \in DeckIn(panes', deckId)
      BY <1>12 DEF DeckIn, Dealers
    <3> QED
      BY <3>1, <3>2
  <2>3. (CHOOSE d \in DeckIn(after, deckId) : TRUE) = e /\ DeckIn(after, deckId) # {}
    BY <1>3, <2>2
  <2>4. held' = [held EXCEPT !.panes = qs, !.card = card]
    <3>1. held' = [held EXCEPT
                     !.panes = ReconcileIn(@, deckId, cards, minted),
                     !.card = IF DeckIn(after, deckId) = {} THEN @
                              ELSE Retold(@, CHOOSE d \in DeckIn(after, deckId) : TRUE)]
      BY <1>3, <1>15
    <3> HIDE DEF after
    <3> QED
      BY <2>3, <3>1
  <2> HIDE DEF qs, card
  <2>5. /\ held'.card = card /\ held'.origin = held.origin /\ held'.panes = qs
        /\ held'.active = held.active /\ held'.nextId = held.nextId
        /\ held' = [card |-> held'.card, origin |-> held'.origin, panes |-> held'.panes,
                    active |-> held'.active, nextId |-> held'.nextId]
    <3>1. held = [card |-> held.card, origin |-> held.origin, panes |-> held.panes,
                  active |-> held.active, nextId |-> held.nextId]
      BY <2>1 DEF HeldInv
    <3>2. held' = [card |-> card, origin |-> held.origin, panes |-> qs,
                   active |-> held.active, nextId |-> held.nextId]
      BY <2>4, <3>1
    <3> QED
      BY <3>2
  <2>6. LayoutInv(ps, nextId) /\ held.active \in PaneIds(ps)
    BY <2>1 DEF HeldInv
  <2>7. /\ card \in Presentation /\ card.id = held.card.id
        /\ \A t \in AllSheets(panes') : card.id \notin CardOf(t) /\ Agrees(card, t)
    BY <1>8, <1>11, <1>15, HandRenewed DEF card
  <2>8. held.card.id < nextId' /\ held.origin \in {"Deck", "Cover", "FloatingGround", "RootedGround", "Fresh"}
    <3>1. held.card.id \in Nat /\ held.card.id < nextId
      BY <2>1 DEF HeldInv, Presentation
    <3> QED
      BY <1>1, <1>8, <2>1, <3>1 DEF HeldInv
  <2>9. \A s \in Dealers(panes), t \in Dealers(ps) :
           s.deck.id = t.deck.id => s.deck.cards = t.deck.cards
    BY <1>1, <1>15 DEF CheckpointKeepsUp
  <2>10. /\ LayoutInv(qs, nextId') /\ PaneIds(qs) = PaneIds(ps)
         /\ \A s \in Dealers(panes'), t \in Dealers(qs) :
               s.deck.id = t.deck.id => s.deck.cards = t.deck.cards
    <3>1. CASE DeckIn(ps, deckId) = {}
      <4>1. qs = ps
        BY <3>1 DEF ReconcileIn, qs
      <4>2. LayoutInv(ps, nextId')
        BY <1>1, <1>8, <2>6, LayoutLater
      <4>3. ASSUME NEW s \in Dealers(panes'), NEW t \in Dealers(ps), s.deck.id = t.deck.id
            PROVE  s.deck.cards = t.deck.cards
        <5>1. PICK s0 \in Dealers(panes) : Reset(s, s0, x, e) /\ s.deck.id = s0.deck.id
          BY <1>11, DealersAfter
        <5>2. t.deck.id # deckId
          BY <3>1 DEF DeckIn
        <5>3. s0 # x
          BY <1>11, <4>3, <5>1, <5>2 DEF Renews
        <5> QED
          BY <2>9, <4>3, <5>1, <5>3 DEF Reset
      <4> QED
        BY <4>1, <4>2, <4>3
    <3>2. CASE DeckIn(ps, deckId) # {}
      <4>1. second = NewKeys(DeckIn(ps, deckId), cards)
        BY <1>15 DEF second
      <4>2. minted = first
        <5>1. \A d \in DeckIn(panes, deckId), d2 \in DeckIn(ps, deckId) : d.cards = d2.cards
          BY <2>9 DEF DeckIn
        <5> QED
          BY <1>2, <1>10, <3>2, <4>1, <5>1, SameMinted DEF minted, first
      <4>3. Serves(minted, ps, deckId, cards, nextId')
        BY <1>6, <1>7, <1>8, <1>15 DEF Serves, Provides
      <4>4. PICK x2, e2 : Renews(ps, qs, x2, e2, deckId, cards, minted, nextId')
        BY <1>1, <1>2, <1>8, <2>6, <3>2, <4>3, ReconcileInIs DEF qs
      <4>5. LayoutInv(qs, nextId') /\ PaneIds(qs) = PaneIds(ps)
        BY <4>4 DEF Renews, Updated
      <4>6. Renews(panes, panes', x, e, deckId, cards, minted, nextId')
        BY <1>11, <4>2
      <4>7. ASSUME NEW s \in Dealers(panes'), NEW t \in Dealers(qs), s.deck.id = t.deck.id
            PROVE  s.deck.cards = t.deck.cards
        BY <2>9, <4>4, <4>6, <4>7, KeepsUpRenewed
      <4> QED
        BY <4>5, <4>7
    <3> QED
      BY <3>1, <3>2
  <2>11. HeldInv'
    <3>1. /\ held'.card \in Presentation /\ held'.card.id < nextId'
          /\ held'.origin \in {"Deck", "Cover", "FloatingGround", "RootedGround", "Fresh"}
          /\ LayoutInv(held'.panes, nextId')
          /\ held'.active \in PaneIds(held'.panes)
          /\ \A t \in AllSheets(panes') : held'.card.id \notin CardOf(t) /\ Agrees(held'.card, t)
      BY <2>5, <2>6, <2>7, <2>8, <2>10
    <3> QED
      BY <2>5, <3>1 DEF HeldInv
  <2>12. CheckpointKeepsUp'
    BY <2>5, <2>10 DEF CheckpointKeepsUp
  <2> QED
    BY <1>8, <1>12, <1>13, <2>11, <2>12 DEF IInv
<1> QED
  BY <1>14, <1>15

-----------------------------------------------------------------------------
(* The invariant holds.                                                     *)

\* The invariant holds in the first workspace.
LEMMA InitInv ==
  ASSUME Init
  PROVE  IInv
<1> DEFINE g == Rung(2, "Menu", None)
           q == [id |-> 1, covers |-> <<>>, line |-> <<g>>]
<1>1. panes = <<q>> /\ active = 1 /\ nextId = 3 /\ held = None
  BY DEF Init
<1>2. g \in Sheet /\ g.id = 2 /\ g.kind = "Menu" /\ g.card = None /\ g.deck = None
  BY DEF Rung, Sheet
<1> HIDE DEF g
<1>3. /\ q \in Pane /\ PaneOK(q) /\ SheetsIn(q) = {g} /\ q.id = 1
      /\ Range(q.line) = {g} /\ Rooted(q)
  BY <1>2, SinglePane
<1>4. CardOf(g) = {} /\ DeckOf(g) = {} /\ SlotsOf(g) = {}
  BY <1>2 DEF CardOf, DeckOf, SlotsOf
<1> HIDE DEF q
<1>5. /\ <<q>> \in Seq(Pane) /\ DOMAIN <<q>> = {1} /\ <<q>>[1] = q
  BY <1>3
<1>6. Range(<<q>>) = {q}
  BY <1>5 DEF Range
<1>7. AllSheets(<<q>>) = {g}
  BY <1>3, <1>6 DEF AllSheets
<1>8. Frame(<<q>>, 3)
  BY <1>3, <1>5, <1>6 DEF Frame
<1>9. Cast({g}, 3)
  BY <1>2, <1>4 DEF Cast, SheetInv, Known
<1>10. RootedApart(<<q>>)
  BY <1>3, <1>4, <1>6, <1>7 DEF RootedApart
<1>11. Agreement({g})
  BY <1>2 DEF Agreement
<1>12. LayoutInv(<<q>>, 3)
  BY <1>7, <1>8, <1>9, <1>10, <1>11 DEF LayoutInv, Sound
<1>13. 1 \in PaneIds(<<q>>)
  BY <1>3, <1>6 DEF PaneIds
<1> QED
  BY <1>1, <1>12, <1>13 DEF IInv, Free, CheckpointKeepsUp

\* Every step keeps it.
LEMMA NextInv ==
  ASSUME IInv, [Next]_vars
  PROVE  IInv'
<1>1. CASE UNCHANGED vars
  BY <1>1 DEF vars, IInv, HeldInv, Free, CheckpointKeepsUp
<1>2. ASSUME NEW i \in DOMAIN panes, Move(i) PROVE IInv'
  BY <1>2, StepUpInv, GoBackInv, FollowLinkInv, ClearCoversInv, ClosePaneInv, WalkLineInv, SpawnInv
     DEF Move
<1>3. CASE UseDeck
  BY <1>3, SweepInv, DealInv, BringToFrontInv, ReconcileDeckInv DEF UseDeck
<1>4. CASE Lift
  BY <1>4, LiftCardInv, LiftGroundInv, LiftCoverInv, LiftFreshInv DEF Lift
<1>5. CASE Settle
  BY <1>5, ExpandOverInv, ExpandBesideInv, ReleaseInv, RestoreInv DEF Settle, CancelGesture, Free
<1>6. ASSUME NEW id \in PaneIds(panes), ActivatePane(id) PROVE IInv'
  BY <1>6, ActivatePaneInv
<1> QED
  BY <1>1, <1>2, <1>3, <1>4, <1>5, <1>6 DEF Next

\* The inductive invariant.
THEOREM PanesInvariant == Spec => []IInv
<1>1. Init => IInv
  BY InitInv
<1>2. IInv /\ [Next]_vars => IInv'
  BY NextInv
<1> QED
  BY <1>1, <1>2, PTL DEF Spec

-----------------------------------------------------------------------------
(* What it implies.                                                         *)

\* A layout in order is well-typed.
LEMMA LayoutIsOK ==
  ASSUME NEW ps, NEW n, LayoutInv(ps, n)
  PROVE  LayoutOK(ps)
<1>1. /\ ps \in Seq(Pane) /\ \E p \in Range(ps) : Rooted(p)
      /\ \A i \in DOMAIN ps : PaneOK(ps[i])
      /\ \A s \in AllSheets(ps) : SheetInv(s, n)
  BY DEF LayoutInv, Sound, Frame, Cast
<1>2. ASSUME NEW p \in Range(ps)
      PROVE  /\ p.line # <<>> /\ LineOK(p.line)
             /\ \A c \in Range(p.covers) : c.kind = "Sheet"
             /\ \A s \in Range(p.line) \cup Range(p.covers) :
                   /\ (s.card = None) <=> (s.kind # "Sheet")
                   /\ s.deck # None => s.deck.front \in CardIds(s.deck) \cup {None}
  <2>1. PaneOK(p)
    BY <1>1, SheetsAre
  <2>2. \A s \in Range(p.line) \cup Range(p.covers) : SheetInv(s, n)
    BY <1>1 DEF AllSheets, SheetsIn
  <2> QED
    BY <2>1, <2>2 DEF PaneOK, SheetInv, DeckOK
<1> QED
  BY <1>1, <1>2 DEF LayoutOK

\* A layout has a Rooted Pane and every Sheet a kind that fits its place, in
\* the checkpoint of a Lift, too, and the Active Pane is one of the layout's.
THEOREM PanesTypes == Spec => []TypeOK
<1>1. IInv => TypeOK
  BY LayoutIsOK DEF IInv, HeldInv, TypeOK
<1> QED
  BY <1>1, PanesInvariant, PTL

\* A Sheet stands on a line or among the Covers.
LEMMA PlaceAt ==
  ASSUME NEW n \in Nat, NEW ps, LayoutInv(ps, n), NEW x \in Places(ps)
  PROVE  \E i \in DOMAIN ps :
            \/ \E j \in DOMAIN ps[i].line :
                  /\ x = <<i, "line", j>> /\ At(ps, x) = ps[i].line[j]
                  /\ At(ps, x) \in Range(ps[i].line) /\ At(ps, x) \in AllSheets(ps)
            \/ \E j \in DOMAIN ps[i].covers :
                  /\ x = <<i, "covers", j>> /\ At(ps, x) = ps[i].covers[j]
                  /\ At(ps, x) \in Range(ps[i].covers) /\ At(ps, x) \in AllSheets(ps)
<1>1. PICK i \in DOMAIN ps :
         x \in {<<i, "line", j>> : j \in DOMAIN ps[i].line}
                 \cup {<<i, "covers", j>> : j \in DOMAIN ps[i].covers}
  BY DEF Places
<1>2. ps[i] \in Range(ps) /\ SheetsIn(ps[i]) \subseteq AllSheets(ps)
  BY SheetsAre DEF LayoutInv, Sound, Frame
<1>3. ASSUME NEW j \in DOMAIN ps[i].line, x = <<i, "line", j>>
      PROVE  /\ At(ps, x) = ps[i].line[j] /\ At(ps, x) \in Range(ps[i].line)
             /\ At(ps, x) \in AllSheets(ps)
  <2>1. At(ps, x) = ps[i].line[j]
    BY <1>3 DEF At
  <2> QED
    BY <1>2, <2>1 DEF SheetsIn, Range
<1>4. ASSUME NEW j \in DOMAIN ps[i].covers, x = <<i, "covers", j>>
      PROVE  /\ At(ps, x) = ps[i].covers[j] /\ At(ps, x) \in Range(ps[i].covers)
             /\ At(ps, x) \in AllSheets(ps)
  <2>1. At(ps, x) = ps[i].covers[j]
    BY <1>4 DEF At
  <2> QED
    BY <1>2, <2>1 DEF SheetsIn, Range
<1> QED
  BY <1>1, <1>3, <1>4

\* A Sheet's id names the place where it stands.
LEMMA SamePlace ==
  ASSUME NEW n \in Nat, NEW ps, LayoutInv(ps, n), NEW x \in Places(ps), NEW y \in Places(ps),
         At(ps, x).id = At(ps, y).id
  PROVE  x = y
<1>1. PICK i \in DOMAIN ps :
         \/ \E j \in DOMAIN ps[i].line :
               /\ x = <<i, "line", j>> /\ At(ps, x) = ps[i].line[j]
               /\ At(ps, x) \in Range(ps[i].line)
         \/ \E j \in DOMAIN ps[i].covers :
               /\ x = <<i, "covers", j>> /\ At(ps, x) = ps[i].covers[j]
               /\ At(ps, x) \in Range(ps[i].covers)
  BY PlaceAt
<1>2. PICK k \in DOMAIN ps :
         \/ \E j \in DOMAIN ps[k].line :
               /\ y = <<k, "line", j>> /\ At(ps, y) = ps[k].line[j]
               /\ At(ps, y) \in Range(ps[k].line)
         \/ \E j \in DOMAIN ps[k].covers :
               /\ y = <<k, "covers", j>> /\ At(ps, y) = ps[k].covers[j]
               /\ At(ps, y) \in Range(ps[k].covers)
  BY PlaceAt
<1>3. At(ps, x).id \in IdsIn(ps[i]) /\ At(ps, y).id \in IdsIn(ps[k])
  BY <1>1, <1>2 DEF IdsIn, SheetsIn
<1>4. i = k /\ PaneOK(ps[i])
  BY <1>3 DEF LayoutInv, Sound, Frame
<1> QED
  BY <1>1, <1>2, <1>4 DEF PaneOK, Single

\* What a layout's Sheets name, where they stand.
LEMMA NamesOnce ==
  ASSUME NEW n \in Nat, NEW ps, LayoutInv(ps, n), NEW x \in Places(ps), NEW y \in Places(ps)
  PROVE  /\ CardOf(At(ps, x)) \cap CardOf(At(ps, y)) # {} => x = y
         /\ DeckOf(At(ps, x)) \cap DeckOf(At(ps, y)) # {} => x = y
         /\ SlotsOf(At(ps, x)) \cap SlotsOf(At(ps, y)) # {} => x = y
         /\ At(ps, x) \in AllSheets(ps) /\ SheetInv(At(ps, x), n)
<1>1. At(ps, x) \in AllSheets(ps) /\ At(ps, y) \in AllSheets(ps)
  BY PlaceAt
<1>2. SheetInv(At(ps, x), n) /\ (At(ps, x) # At(ps, y) => Apart(At(ps, x), At(ps, y)))
  BY <1>1 DEF LayoutInv, Sound, Cast
<1>3. At(ps, x) = At(ps, y) => x = y
  BY SamePlace
<1> QED
  BY <1>1, <1>2, <1>3 DEF Apart

\* A slot is a Card of a Deck of a Sheet.
LEMMA SlotIs ==
  ASSUME NEW n \in Nat, NEW ps, LayoutInv(ps, n), NEW a \in Slots(ps)
  PROVE  \E x \in Places(ps) :
            /\ At(ps, x).deck # None /\ At(ps, x) \in AllSheets(ps)
            /\ InSlot(ps, a) \in Range(At(ps, x).deck.cards)
            /\ InSlot(ps, a).id \in SlotsOf(At(ps, x))
            /\ CardsOnce(At(ps, x).deck.cards)
            /\ \E j \in DOMAIN At(ps, x).deck.cards :
                  a = <<x, j>> /\ InSlot(ps, a) = At(ps, x).deck.cards[j]
<1>1. PICK x \in DeckSheets(ps) : a \in {<<x, j>> : j \in DOMAIN At(ps, x).deck.cards}
  BY DEF Slots
<1>2. PICK j \in DOMAIN At(ps, x).deck.cards : a = <<x, j>>
  BY <1>1
<1>3. x \in Places(ps) /\ At(ps, x).deck # None
  BY DEF DeckSheets
<1>4. InSlot(ps, a) = At(ps, x).deck.cards[j]
  BY <1>2 DEF InSlot
<1>5. InSlot(ps, a) \in Range(At(ps, x).deck.cards)
  BY <1>4 DEF Range
<1>6. InSlot(ps, a).id \in SlotsOf(At(ps, x))
  BY <1>3, <1>5 DEF SlotsOf, CardIds
<1>7. At(ps, x) \in AllSheets(ps) /\ CardsOnce(At(ps, x).deck.cards)
  BY <1>3, NamesOnce DEF SheetInv, DeckOK
<1> QED
  BY <1>2, <1>3, <1>4, <1>5, <1>6, <1>7

\* In a layout in order every id names one thing, minted before the counter.
LEMMA LayoutIds ==
  ASSUME NEW n \in Nat, NEW ps, LayoutInv(ps, n)
  PROVE  /\ \A i, j \in DOMAIN ps : ps[i].id = ps[j].id => i = j
         /\ \A x, y \in Places(ps) : At(ps, x).id = At(ps, y).id => x = y
         /\ \A x, y \in DeckSheets(ps) : At(ps, x).deck.id = At(ps, y).deck.id => x = y
         /\ \A a, b \in Slots(ps) : InSlot(ps, a).id = InSlot(ps, b).id => a = b
         /\ \A p \in Range(ps) : p.id < n
         /\ \A x \in Places(ps) : At(ps, x).id < n
         /\ \A x \in DeckSheets(ps) : At(ps, x).deck.id < n
         /\ \A a \in Slots(ps) : InSlot(ps, a).id < n
<1>1. /\ \A i, j \in DOMAIN ps : ps[i].id = ps[j].id => i = j
      /\ \A p \in Range(ps) : p.id < n
  BY SheetsAre DEF LayoutInv, Sound, Frame
<1>2. \A x \in DeckSheets(ps) : /\ x \in Places(ps) /\ DeckOf(At(ps, x)) = {At(ps, x).deck.id}
  BY DEF DeckSheets, DeckOf
<1>3. \A x, y \in DeckSheets(ps) : At(ps, x).deck.id = At(ps, y).deck.id => x = y
  BY <1>2, NamesOnce
<1>4. ASSUME NEW a \in Slots(ps), NEW b \in Slots(ps), InSlot(ps, a).id = InSlot(ps, b).id
      PROVE  a = b
  <2>1. PICK x \in Places(ps) :
            /\ InSlot(ps, a).id \in SlotsOf(At(ps, x))
            /\ CardsOnce(At(ps, x).deck.cards)
            /\ \E j \in DOMAIN At(ps, x).deck.cards :
                  a = <<x, j>> /\ InSlot(ps, a) = At(ps, x).deck.cards[j]
    BY SlotIs
  <2>2. PICK y \in Places(ps) :
            /\ InSlot(ps, b).id \in SlotsOf(At(ps, y))
            /\ \E j \in DOMAIN At(ps, y).deck.cards :
                  b = <<y, j>> /\ InSlot(ps, b) = At(ps, y).deck.cards[j]
    BY SlotIs
  <2>3. x = y
    BY <1>4, <2>1, <2>2, NamesOnce
  <2> QED
    BY <1>4, <2>1, <2>2, <2>3 DEF CardsOnce
<1>5. \A x \in Places(ps) : At(ps, x).id < n
  BY NamesOnce DEF SheetInv, Known
<1>6. \A x \in DeckSheets(ps) : At(ps, x).deck.id < n
  BY <1>2, NamesOnce DEF SheetInv, Known
<1>7. \A a \in Slots(ps) : InSlot(ps, a).id < n
  BY SlotIs, NamesOnce DEF SheetInv, Known
<1>8. \A x, y \in Places(ps) : At(ps, x).id = At(ps, y).id => x = y
  BY SamePlace
<1> QED
  BY <1>1, <1>3, <1>4, <1>5, <1>6, <1>7, <1>8

\* The layout and the checkpoint.
LEMMA LayoutsAre ==
  ASSUME IInv, NEW ps \in Layouts
  PROVE  nextId \in Nat /\ LayoutInv(ps, nextId)
BY DEF IInv, HeldInv, Layouts

\* Every id names one Pane, Sheet, Deck or slot of a layout, and is behind the
\* counter: also in the checkpoint that a cancel brings back.
THEOREM IdsAreOnce == Spec => []IdsNameOneThing
<1>1. IInv => IdsNameOneThing
  BY LayoutsAre, LayoutIds DEF IdsNameOneThing
<1> QED
  BY <1>1, PanesInvariant, PTL

\* In a layout in order a Presentation is open once, and as its slot has it.
LEMMA LayoutCards ==
  ASSUME NEW n \in Nat, NEW ps, LayoutInv(ps, n)
  PROVE  /\ \A x, y \in CardSheets(ps) : At(ps, x).card.id = At(ps, y).card.id => x = y
         /\ \A x \in CardSheets(ps), a \in Slots(ps) :
               At(ps, x).card.id = InSlot(ps, a).id =>
                   At(ps, x).card.subject = InSlot(ps, a).subject
<1>1. \A x \in CardSheets(ps) : /\ x \in Places(ps) /\ At(ps, x).card # None
                                /\ CardOf(At(ps, x)) = {At(ps, x).card.id}
  BY DEF CardSheets, CardOf
<1>2. \A x, y \in CardSheets(ps) : At(ps, x).card.id = At(ps, y).card.id => x = y
  BY <1>1, NamesOnce
<1>3. ASSUME NEW x \in CardSheets(ps), NEW a \in Slots(ps),
             At(ps, x).card.id = InSlot(ps, a).id
      PROVE  At(ps, x).card.subject = InSlot(ps, a).subject
  <2>1. PICK y \in Places(ps) :
            /\ At(ps, y).deck # None /\ At(ps, y) \in AllSheets(ps)
            /\ InSlot(ps, a) \in Range(At(ps, y).deck.cards)
    BY SlotIs
  <2>2. At(ps, x) \in AllSheets(ps)
    BY <1>1, NamesOnce
  <2>3. Agrees(At(ps, x).card, At(ps, y))
    BY <1>1, <2>1, <2>2 DEF LayoutInv, Agreement
  <2> QED
    BY <1>3, <2>1, <2>3 DEF Agrees
<1> QED
  BY <1>2, <1>3

\* A Presentation is open once or in hand, and has the Subject of its Card.
THEOREM PresentationsAreOpenOnce == Spec => []PresentationsAreOnce
<1>1. ASSUME IInv PROVE PresentationsAreOnce
  <2>1. /\ nextId \in Nat /\ LayoutInv(panes, nextId) /\ ~Free => HeldInv
    BY <1>1 DEF IInv
  <2>2. ASSUME ~Free
        PROVE  /\ \A x \in CardSheets(panes) : At(panes, x).card.id # held.card.id
               /\ \A a \in Slots(panes) :
                     InSlot(panes, a).id = held.card.id =>
                         InSlot(panes, a).subject = held.card.subject
    <3>1. \A t \in AllSheets(panes) : held.card.id \notin CardOf(t) /\ Agrees(held.card, t)
      BY <1>1, <2>2 DEF IInv, HeldInv
    <3>2. \A x \in CardSheets(panes) : At(panes, x).card.id # held.card.id
      BY <1>1, <3>1, NamesOnce DEF IInv, CardSheets, CardOf
    <3>3. ASSUME NEW a \in Slots(panes), InSlot(panes, a).id = held.card.id
          PROVE  InSlot(panes, a).subject = held.card.subject
      <4>1. PICK y \in Places(panes) :
                /\ At(panes, y).deck # None /\ At(panes, y) \in AllSheets(panes)
                /\ InSlot(panes, a) \in Range(At(panes, y).deck.cards)
        BY <1>1, SlotIs DEF IInv
      <4> QED
        BY <3>1, <3>3, <4>1 DEF Agrees
    <3> QED
      BY <3>2, <3>3
  <2> QED
    BY <1>1, <2>2, LayoutsAre, LayoutCards DEF PresentationsAreOnce
<1> QED
  BY <1>1, PanesInvariant, PTL

\* A Deck that the layout and the checkpoint both show has the same Cards in
\* both, whatever updates came while a Card was in hand.
THEOREM CheckpointKeepsUpAlways == Spec => []CheckpointKeepsUp
<1>1. IInv => CheckpointKeepsUp
  BY DEF IInv
<1> QED
  BY <1>1, PanesInvariant, PTL

-----------------------------------------------------------------------------
(* What leaves is in front.                                                 *)

\* The ids that are open are those of the Presentations shown.
LEMMA OpenIs ==
  ASSUME NEW ps
  PROVE  \A id : id \in OpenIds(ps) <=> \E s \in Shown(ps) : id \in CardOf(s)
BY DEF OpenIds, CardOf

\* Where what is shown stays shown, what is open stays open.
LEMMA StaysOpen ==
  ASSUME NEW ps, NEW qs, StillOpen(ps, qs)
  PROVE  OpenIds(ps) \subseteq OpenIds(qs)
<1> SUFFICES ASSUME NEW id \in OpenIds(ps) PROVE id \in OpenIds(qs)
  OBVIOUS
<1>1. PICK s \in Shown(ps) : id \in CardOf(s)
  BY OpenIs
<1>2. PICK t \in Shown(qs) : CardOf(t) = CardOf(s)
  BY DEF StillOpen
<1> QED
  BY <1>1, <1>2, OpenIs

\* What left is in front of the Deck of its slot, or a Card that was lower is.
InFront ==
    \A s \in Dealers(panes') : \A c \in Range(s.deck.cards) :
        Leaves(c.id) =>
            \/ s.deck.front = c.id
            \/ \E d \in Range(s.deck.cards) : s.deck.front = d.id /\ Lower(d, c)

\* Nothing leaves.
LEMMA NothingLeaves ==
  ASSUME OpenIds(panes) \subseteq OpenIds(panes')
  PROVE  InFront
BY DEF InFront, Leaves

\* What leaves a layout whose Panes show, but for those of B, what they showed.
LEMMA LeavesFrom ==
  ASSUME NEW mid, StillOpen(mid, panes'), NEW B,
         \A s \in Shown(panes) : s \in B \/ s \in Shown(mid),
         NEW id, Leaves(id)
  PROVE  \E s \in Shown(panes) : s \in B /\ id \in CardOf(s)
<1>1. id \in OpenIds(panes) /\ id \notin OpenIds(panes')
  BY DEF Leaves
<1>2. PICK s \in Shown(panes) : id \in CardOf(s)
  BY <1>1, OpenIs
<1>3. s \notin Shown(mid)
  BY <1>1, <1>2, StaysOpen, OpenIs
<1> QED
  BY <1>2, <1>3

\* One Presentation leaves, and its Card comes in front.
LEMMA OneLeaves ==
  ASSUME NEW mid, NEW id, TurnedUp(mid, panes', id), \A k : Leaves(k) => k = id
  PROVE  InFront
BY DEF InFront, TurnedUp, OnTop, CardIds

\* A Pane with other Covers: the rest of the layout shows what it showed.
LEMMA ShownWithCovers ==
  ASSUME NEW ps \in Seq(Pane), NEW i \in DOMAIN ps, NEW C
  PROVE  /\ \A s \in Shown(ps) : s \in Range(ps[i].covers) \/ s \in Shown(WithCovers(ps, i, C))
         /\ Range(C) \subseteq Shown(WithCovers(ps, i, C))
<1> DEFINE qs == WithCovers(ps, i, C)
<1>1. ps[i] \in Pane
  BY SheetsAre
<1>2. /\ DOMAIN qs = DOMAIN ps /\ qs[i].line = ps[i].line /\ qs[i].covers = C
      /\ \A j \in DOMAIN ps : j # i => qs[j] = ps[j]
  BY <1>1 DEF WithCovers, Pane
<1> HIDE DEF qs
<1>3. \A j \in DOMAIN qs : SheetsOf(qs[j]) \subseteq Shown(qs)
  BY DEF Shown, Range
<1>4. ASSUME NEW s \in Shown(ps) PROVE s \in Range(ps[i].covers) \/ s \in Shown(qs)
  <2>1. PICK j \in DOMAIN ps : s \in SheetsOf(ps[j])
    BY SheetsAre DEF Shown
  <2>2. CASE j # i
    BY <1>2, <1>3, <2>1, <2>2
  <2>3. CASE j = i
    <3>1. s \in Range(ps[i].covers) \/ s = Ground(ps[i])
      BY <2>1, <2>3 DEF SheetsOf
    <3>2. Ground(ps[i]) \in SheetsOf(qs[i])
      BY <1>2 DEF SheetsOf, Ground
    <3> QED
      BY <1>2, <1>3, <3>1, <3>2
  <2> QED
    BY <2>2, <2>3
<1>5. Range(C) \subseteq Shown(qs)
  <2>1. Range(C) \subseteq SheetsOf(qs[i])
    BY <1>2 DEF SheetsOf
  <2> QED
    BY <1>2, <1>3, <2>1
<1> QED
  BY <1>4, <1>5 DEF qs

\* A Cover that goes back or is lifted is in front where it has a slot.
LEMMA CoverInFront ==
  ASSUME nextId \in Nat, LayoutInv(panes, nextId), NEW i \in DOMAIN panes,
         NEW cover \in Range(panes[i].covers), panes' = LeaveCover(i, cover)
  PROVE  InFront
<1> DEFINE C == Without(panes[i].covers, cover.id)
           mid == WithCovers(panes, i, C)
<1>1. /\ panes \in Seq(Pane) /\ panes[i].covers \in Seq(Sheet) /\ Cast(AllSheets(panes), nextId)
      /\ Range(panes[i].covers) \subseteq AllSheets(panes)
  BY PaneAt DEF LayoutInv
<1>2. \A s \in Range(panes[i].covers) : s.id # cover.id => s \in Range(C)
  <2> DEFINE T == {c \in Range(panes[i].covers) : c.id # cover.id}
  <2>1. C = Chosen(panes[i].covers, T)
    BY DEF Without
  <2>2. \A s \in Range(panes[i].covers) : s.id # cover.id => s \in T
    OBVIOUS
  <2> HIDE DEF T, C
  <2> QED
    BY <1>1, <2>1, <2>2, ChosenSingle
<1>3. TurnedUp(mid, panes', cover.card.id) /\ cover.card # None
  BY CoverLeaves
<1> HIDE DEF C
<1>4. \A s \in Shown(panes) : s \in {cover} \/ s \in Shown(mid)
  <2> SUFFICES ASSUME NEW s \in Shown(panes), s \notin Shown(mid) PROVE s = cover
    OBVIOUS
  <2>1. s \in Range(panes[i].covers) /\ Range(C) \subseteq Shown(mid)
    BY <1>1, ShownWithCovers
  <2>2. s.id = cover.id
    BY <1>2, <2>1
  <2> QED
    BY <1>1, <2>1, <2>2, SameSheet
<1> HIDE DEF mid
<1>5. ASSUME NEW k, Leaves(k) PROVE k = cover.card.id
  <2>1. StillOpen(mid, panes')
    BY <1>3 DEF TurnedUp
  <2>2. \E s \in Shown(panes) : s \in {cover} /\ k \in CardOf(s)
    BY <1>4, <1>5, <2>1, LeavesFrom
  <2> QED
    BY <1>3, <2>2 DEF CardOf
<1> QED
  BY <1>3, <1>5, OneLeaves

\* The Ground that a Rooted Pane steps down from is in no slot.
LEMMA StepInFront ==
  ASSUME nextId \in Nat, LayoutInv(panes, nextId), NEW i \in DOMAIN panes,
         CanStepDown(panes[i]), panes' = StepDown(i)
  PROVE  InFront
<1> DEFINE p == panes[i]
           g == Ground(p)
<1>1. /\ panes \in Seq(Pane) /\ p \in Pane /\ p \in Range(panes) /\ RootedApart(panes)
      /\ p.line \in Seq(Sheet) /\ p.line # <<>>
  BY PaneAt DEF LayoutInv, Sound
<1>2. Rooted(p) /\ p.covers = <<>>
  BY DEF CanStepDown
<1>3. g \in Range(p.line)
  <2>1. Len(p.line) \in 1..Len(p.line)
    BY <1>1
  <2> QED
    BY <1>1, <2>1, SeqIs DEF Ground, Last
<1>4. Drawn(panes, panes') /\ LayoutInv(panes', nextId)
  BY StepLeaves DEF Leaving
<1>5. \A j \in DOMAIN panes : j # i => j \in DOMAIN panes' /\ panes'[j] = panes[j]
  BY <1>1 DEF StepDown
<1>6. ASSUME NEW s \in Shown(panes) PROVE s \in {g} \/ s \in Shown(panes')
  <2>1. PICK j \in DOMAIN panes : s \in SheetsOf(panes[j])
    BY <1>1, SheetsAre DEF Shown
  <2>2. CASE j # i
    <3>1. panes'[j] \in Range(panes') /\ s \in SheetsOf(panes'[j])
      BY <1>5, <2>1, <2>2 DEF Range
    <3> QED
      BY <3>1 DEF Shown
  <2>3. CASE j = i
    <3>1. Range(p.covers) = {}
      BY <1>2 DEF Range
    <3> QED
      BY <2>1, <2>3, <3>1 DEF SheetsOf
  <2> QED
    BY <2>2, <2>3
<1> HIDE DEF g
<1>7. ASSUME NEW s \in Dealers(panes'), NEW c \in Range(s.deck.cards), Leaves(c.id) PROVE FALSE
  <2>1. StillOpen(panes', panes')
    BY DEF StillOpen
  <2>2. \E r \in Shown(panes) : r \in {g} /\ c.id \in CardOf(r)
    BY <1>6, <1>7, <2>1, LeavesFrom
  <2>3. s \in AllSheets(panes') /\ s.deck # None
    BY <1>4, ShownWithin DEF Dealers, LayoutInv
  <2>4. PICK s0 \in AllSheets(panes) : Alike(s0, s)
    BY <1>4, <2>3 DEF Drawn
  <2>5. c.id \in SlotsOf(s0)
    BY <2>3, <2>4 DEF Alike, SlotsOf, CardIds
  <2> QED
    BY <1>1, <1>2, <1>3, <2>2, <2>5 DEF RootedApart
<1> QED
  BY <1>7 DEF InFront

\* The Ground of a Floating Pane that closes is in front where it has a slot.
LEMMA PaneInFront ==
  ASSUME nextId \in Nat, LayoutInv(panes, nextId), NEW i \in DOMAIN panes, ~Rooted(panes[i]),
         panes' = RemovedPane(i)
  PROVE  InFront
<1> DEFINE p == panes[i]
           mid == RemoveAt(panes, i)
<1>1. /\ panes \in Seq(Pane) /\ Frame(panes, nextId)
  BY DEF LayoutInv, Sound, Frame
<1>2. i \in 1..Len(panes) /\ Len(panes) \in Nat /\ DOMAIN panes = 1..Len(panes)
  BY <1>1, SheetsAre
<1>3. /\ mid \in Seq(Pane) /\ Len(mid) = Len(panes) - 1
      /\ \A k \in 1..(Len(panes) - 1) : mid[k] = IF k < i THEN panes[k] ELSE panes[k + 1]
  <2>1. Removed(mid, Pane, panes, i)
    BY <1>1, <1>2, RemoveIs
  <2> QED
    BY <2>1 DEF Removed
<1>4. TurnedUp(mid, panes', Ground(p).card.id)
  BY PaneLeaves
<1> HIDE DEF mid
<1>5. DOMAIN mid = 1..(Len(panes) - 1)
  BY <1>3, SheetsAre
<1>6. ASSUME NEW j \in DOMAIN panes, j # i PROVE panes[j] \in Range(mid)
  <2>1. CASE j < i
    <3>1. j \in DOMAIN mid /\ mid[j] = panes[j]
      BY <1>2, <1>3, <1>5, <2>1
    <3> QED
      BY <1>3, <3>1, SheetsAre
  <2>2. CASE j > i
    <3>1. j - 1 \in DOMAIN mid /\ mid[j - 1] = panes[j]
      BY <1>2, <1>3, <1>5, <2>2
    <3> QED
      BY <1>3, <3>1, SheetsAre
  <2> QED
    BY <1>2, <1>6, <2>1, <2>2
<1>7. ASSUME NEW k \in DOMAIN mid PROVE \E j \in DOMAIN panes : j # i /\ mid[k] = panes[j]
  <2>1. CASE k < i
    <3>1. k \in DOMAIN panes /\ k # i /\ mid[k] = panes[k]
      BY <1>2, <1>3, <1>5, <2>1
    <3> QED
      BY <3>1
  <2>2. CASE k >= i
    <3>1. k + 1 \in DOMAIN panes /\ k + 1 # i /\ mid[k] = panes[k + 1]
      BY <1>2, <1>3, <1>5, <2>2
    <3> QED
      BY <3>1
  <2> QED
    BY <1>2, <1>5, <2>1, <2>2
<1>8. p.id \notin PaneIds(panes')
  <2>1. \A r \in Range(mid) : r.id # p.id
    BY <1>1, <1>3, <1>7, SheetsAre DEF Frame
  <2>2. PaneIds(panes') = PaneIds(mid)
    BY <1>4 DEF TurnedUp, OnTop
  <2> QED
    BY <2>1, <2>2 DEF PaneIds
<1>9. ASSUME NEW s \in Shown(panes) PROVE s \in SheetsOf(p) \/ s \in Shown(mid)
  <2>1. PICK j \in DOMAIN panes : s \in SheetsOf(panes[j])
    BY <1>1, SheetsAre DEF Shown
  <2> QED
    BY <1>6, <2>1 DEF Shown
<1>10. ASSUME NEW k, Leaves(k) PROVE k = Ground(p).card.id
  <2>1. StillOpen(mid, panes')
    BY <1>4 DEF TurnedUp
  <2>2. PICK s \in SheetsOf(p) : k \in CardOf(s)
    BY <1>9, <1>10, <2>1, LeavesFrom
  <2>3. k = s.card.id
    BY <2>2 DEF CardOf
  <2>4. p \in Range(panes)
    BY <1>1, SheetsAre
  <2>5. s \notin Range(p.covers)
    BY <1>8, <1>10, <2>3, <2>4 DEF Leaves
  <2> QED
    BY <2>2, <2>3, <2>5 DEF SheetsOf
<1> QED
  BY <1>4, <1>10, OneLeaves

\* Of the Covers that are cleared, the lowest that a Deck has is in front of it.
LEMMA ClearInFront ==
  ASSUME nextId \in Nat, LayoutInv(panes, nextId), NEW i \in DOMAIN panes,
         panes' = Collapsed(WithCovers(panes, i, <<>>), panes[i].covers)
  PROVE  InFront
<1> DEFINE covers == panes[i].covers
           mid == WithCovers(panes, i, <<>>)
<1>1. /\ panes \in Seq(Pane) /\ covers \in Seq(Sheet) /\ panes[i] \in Range(panes)
      /\ Range(covers) \subseteq AllSheets(panes) /\ Agreement(AllSheets(panes))
      /\ PaneOK(panes[i]) /\ Cast(AllSheets(panes), nextId)
  BY PaneAt DEF LayoutInv
<1>2. /\ LayoutInv(panes', nextId) /\ Drawn(panes, panes') /\ StillOpen(mid, panes')
      /\ Fronted(panes', covers, 1)
  BY CoversClear DEF Leaving
<1>3. \A s \in Shown(panes) : s \in Range(covers) \/ s \in Shown(mid)
  BY <1>1, ShownWithCovers
<1> HIDE DEF mid
<1>4. Len(covers) \in Nat /\ DOMAIN covers = 1..Len(covers)
  BY <1>1, SeqIs
<1>5. ASSUME NEW j \in 1..Len(covers)
      PROVE  covers[j] \in AllSheets(panes) /\ covers[j].card # None /\ covers[j].card.id \in Nat
  <2>1. covers[j] \in Range(covers)
    BY <1>1, SeqIs
  <2>2. covers[j] \in Sheet /\ SheetInv(covers[j], nextId) /\ covers[j].kind = "Sheet"
    BY <1>1, <2>1 DEF PaneOK, Cast
  <2> QED
    BY <1>1, <2>1, <2>2, SheetIs DEF SheetInv
<1> SUFFICES ASSUME NEW t \in Dealers(panes'), NEW c \in Range(t.deck.cards), Leaves(c.id)
             PROVE  \/ t.deck.front = c.id
                    \/ \E d \in Range(t.deck.cards) : t.deck.front = d.id /\ Lower(d, c)
  BY DEF InFront
<1>6. PICK s \in Range(covers) : c.id \in CardOf(s)
  BY <1>2, <1>3, LeavesFrom
<1>7. PICK x \in 1..Len(covers) : s = covers[x]
  BY <1>1, <1>6, SeqIs
<1>8. c.id = covers[x].card.id
  BY <1>6, <1>7 DEF CardOf
<1>9. PICK k \in 1..x : t.deck.front = covers[k].card.id
  BY <1>2, <1>7, <1>8 DEF Fronted, CardIds
<1>10. k \in 1..Len(covers) /\ (k = x \/ k < x)
  BY <1>4, <1>7, <1>9
<1>11. CASE k = x
  BY <1>8, <1>9, <1>11
<1>12. CASE k < x
  <2>1. t \in AllSheets(panes') /\ t.deck # None
    BY <1>2, ShownWithin DEF Dealers, LayoutInv
  <2>2. t.deck.front \in CardIds(t.deck) \cup {None}
    BY <1>2, <2>1 DEF LayoutInv, Sound, Cast, SheetInv, DeckOK
  <2>3. t.deck.front # None
    BY <1>5, <1>9, <1>10, NoneApart
  <2>4. PICK d \in Range(t.deck.cards) : d.id = t.deck.front
    BY <2>2, <2>3 DEF CardIds
  <2>5. ASSUME NEW j \in 1..Len(covers) PROVE Agrees(covers[j].card, t)
    <3>1. PICK t0 \in AllSheets(panes) : Alike(t0, t)
      BY <1>2, <2>1 DEF Drawn
    <3>2. Agrees(covers[j].card, t0)
      BY <1>1, <1>5 DEF Agreement
    <3> QED
      BY <3>1, <3>2, AlikeAgree
  <2>6. c = covers[x].card
    BY <1>7, <1>8, <2>1, <2>5 DEF Agrees
  <2>7. d = covers[k].card
    BY <1>9, <1>10, <2>1, <2>4, <2>5 DEF Agrees
  <2>8. Lower(d, c)
    BY <1>1, <1>4, <1>7, <1>10, <1>12, <2>6, <2>7 DEF Lower
  <2> QED
    BY <2>4, <2>8
<1> QED
  BY <1>10, <1>11, <1>12

\* An updated layout shows what it showed.
LEMMA UpdateStaysOpen ==
  ASSUME IInv, Free, NEW deckId \in LiveDecks, NEW cards \in Updates, ReconcileDeck(deckId, cards)
  PROVE  StillOpen(panes, panes')
<1> DEFINE first == NewKeys(DeckIn(panes, deckId), cards)
<1>1. nextId \in Nat /\ LayoutInv(panes, nextId)
  BY DEF IInv
<1>2. Keyed(cards)
  BY UpdatesKeyed
<1>3. /\ nextId' = nextId + Len(Minted(first, <<>>))
      /\ panes' = ReconcileIn(panes, deckId, cards, first)
  BY DEF ReconcileDeck, Mint
<1>4. /\ first \in Seq(Dealt)
      /\ \A d \in DeckIn(panes, deckId) : Provides(first, d.cards, cards)
  <2>1. \A d, e \in DeckIn(panes, deckId) : d = e
    BY <1>1, OneDealer DEF DeckIn
  <2> QED
    BY <1>2, <2>1, NewKeysProvide
<1> HIDE DEF first
<1>5. /\ Minted(first, <<>>) \in Seq(Dealt) /\ Len(first) <= Len(Minted(first, <<>>))
  <2>1. PICK none : none = <<>>
    OBVIOUS
  <2>2. none \in Seq(Dealt)
    BY <2>1
  <2>3. /\ Minted(first, none) \in Seq(Dealt) /\ Len(first) <= Len(Minted(first, none))
    BY <1>4, <2>2, MintedIs
  <2> QED
    BY <2>1, <2>3
<1>6. nextId' \in Nat /\ nextId <= nextId' /\ nextId + Len(first) <= nextId'
  BY <1>1, <1>3, <1>4, <1>5
<1>7. DeckIn(panes, deckId) # {}
  BY DEF LiveDecks, DeckIn
<1>8. Serves(first, panes, deckId, cards, nextId')
  BY <1>4, <1>6 DEF Serves
<1>9. PICK x, e : Renews(panes, panes', x, e, deckId, cards, first, nextId')
  BY <1>1, <1>2, <1>3, <1>6, <1>7, <1>8, ReconcileInIs
<1> QED
  BY <1>9 DEF Renews, Updated

-----------------------------------------------------------------------------
(* The steps that mint nothing.                                             *)

\* Going back puts what leaves in front.
LEMMA GoBackInFront ==
  ASSUME IInv, NEW i \in DOMAIN panes, GoBack(i)
  PROVE  InFront
<1>1. nextId \in Nat /\ LayoutInv(panes, nextId)
  BY DEF IInv
<1>2. CASE panes[i].covers # <<>> /\ WithLayout(LeaveCover(i, Last(panes[i].covers)))
  <2>1. panes[i].covers \in Seq(Sheet)
    BY <1>1, PaneAt DEF LayoutInv
  <2>2. Last(panes[i].covers) \in Range(panes[i].covers)
    <3>1. Len(panes[i].covers) \in 1..Len(panes[i].covers)
      BY <1>2, <2>1
    <3> QED
      BY <2>1, <3>1, SeqIs DEF Last
  <2>3. panes' = LeaveCover(i, Last(panes[i].covers))
    BY <1>2 DEF WithLayout
  <2> QED
    BY <1>1, <2>2, <2>3, CoverInFront
<1>3. CASE CanStepDown(panes[i]) /\ WithLayout(StepDown(i))
  <2>1. panes' = StepDown(i)
    BY <1>3 DEF WithLayout
  <2> QED
    BY <1>1, <1>3, <2>1, StepInFront
<1> QED
  BY <1>2, <1>3 DEF GoBack

\* A Move mints, or what leaves is in front.
LEMMA MoveInFront ==
  ASSUME IInv, NEW i \in DOMAIN panes, Move(i), nextId' = nextId
  PROVE  InFront
<1>1. nextId \in Nat /\ LayoutInv(panes, nextId)
  BY DEF IInv
<1>2. \A k \in Nat : k > 0 => nextId' # nextId + k
  BY <1>1
<1>3. ~StepUp(i) /\ ~FollowLink(i)
  BY <1>2 DEF StepUp, FollowLink, Mint
<1>4. ASSUME NEW keep \in 0..MaxId, NEW n \in 1..MaxWalk, WalkLine(i, keep, n) PROVE FALSE
  <2>1. 2 * n \in Nat /\ 2 * n > 0
    BY <1>4, PanesAssumption
  <2> QED
    BY <1>2, <1>4, <2>1 DEF WalkLine, Mint
<1>5. ASSUME NEW edge \in Edges, SpawnRootedPane(i, edge) PROVE FALSE
  BY <1>2, <1>5 DEF SpawnRootedPane, Mint
<1>6. CASE GoBack(i)
  BY <1>6, GoBackInFront
<1>7. CASE ClearCovers(i)
  <2>1. panes' = Collapsed(WithCovers(panes, i, <<>>), panes[i].covers)
    BY <1>7 DEF ClearCovers, WithLayout, WithCovers
  <2> QED
    BY <1>1, <2>1, ClearInFront
<1>8. CASE ClosePane(i)
  <2>1. ~Rooted(panes[i]) /\ panes' = RemovedPane(i)
    BY <1>8 DEF ClosePane, WithLayout
  <2> QED
    BY <1>1, <2>1, PaneInFront
<1> QED
  BY <1>3, <1>4, <1>5, <1>6, <1>7, <1>8 DEF Move

\* What is done to a Deck takes nothing that is open away.
LEMMA DeckInFront ==
  ASSUME IInv, Free, UseDeck, nextId' = nextId
  PROVE  InFront
<1>1. nextId \in Nat /\ LayoutInv(panes, nextId) /\ nextId <= nextId
  BY DEF IInv
<1>2. ASSUME NEW i \in DOMAIN panes, Sweep(i) PROVE InFront
  <2>1. panes' = SetDeck(panes, Top(panes[i]).id, None)
    BY <1>2 DEF Sweep, WithLayout
  <2>2. StillOpen(panes, panes')
    BY <1>1, <2>1, TopIs, DeckSet
  <2> QED
    BY <2>2, StaysOpen, NothingLeaves
<1>3. ASSUME NEW i \in DOMAIN panes, NEW cards \in Deals, Deal(i, cards) PROVE FALSE
  <2>1. Len(cards) \in Nat
    BY PanesAssumption
  <2>2. nextId' = nextId + (1 + Len(cards))
    BY <1>3 DEF Deal, Mint
  <2> QED
    BY <1>1, <2>1, <2>2
<1>4. ASSUME NEW s \in Dealers(panes), NEW id \in CardIds(s.deck), BringToFront(s, id) PROVE InFront
  <2>1. panes' = SetDeck(panes, s.id, [s.deck EXCEPT !.front = id])
    BY <1>4 DEF BringToFront, WithLayout
  <2>2. s \in AllSheets(panes) /\ s.deck # None
    BY <1>1, ShownWithin DEF Dealers, LayoutInv
  <2>3. StillOpen(panes, panes')
    BY <1>1, <2>1, <2>2, FrontSet
  <2> QED
    BY <2>3, StaysOpen, NothingLeaves
<1>5. ASSUME NEW deckId \in LiveDecks, NEW cards \in Updates, ReconcileDeck(deckId, cards)
      PROVE  InFront
  <2>1. StillOpen(panes, panes')
    BY <1>5, UpdateStaysOpen
  <2> QED
    BY <2>1, StaysOpen, NothingLeaves
<1> QED
  BY <1>2, <1>3, <1>4, <1>5 DEF UseDeck

\* What a Lift takes is in front.
LEMMA LiftInFront ==
  ASSUME IInv, Lift, nextId' = nextId
  PROVE  InFront
<1>1. nextId \in Nat /\ LayoutInv(panes, nextId)
  BY DEF IInv
<1>2. ASSUME NEW s \in Dealers(panes), NEW c \in Range(s.deck.cards), LiftCard(s, c) PROVE InFront
  BY <1>2, NothingLeaves DEF LiftCard
<1>3. ASSUME NEW i \in DOMAIN panes, LiftGround(i) PROVE InFront
  <2>1. CASE Rooted(panes[i])
    <3>1. panes' = StepDown(i)
      BY <1>3, <2>1 DEF LiftGround, WithLayout
    <3>2. CanStepDown(panes[i])
      BY <1>1, <1>3, <2>1, GroundSteps DEF LiftGround
    <3> QED
      BY <1>1, <3>1, <3>2, StepInFront
  <2>2. CASE ~Rooted(panes[i])
    <3>1. panes' = RemovedPane(i)
      BY <1>3, <2>2 DEF LiftGround, WithLayout
    <3> QED
      BY <1>1, <2>2, <3>1, PaneInFront
  <2> QED
    BY <2>1, <2>2
<1>4. ASSUME NEW i \in DOMAIN panes, NEW s \in Range(panes[i].covers), LiftCover(i, s) PROVE InFront
  <2>1. panes' = LeaveCover(i, s)
    BY <1>4 DEF LiftCover, WithLayout
  <2> QED
    BY <1>1, <2>1, CoverInFront
<1>5. ~LiftFresh
  BY <1>1 DEF LiftFresh, Mint
<1> QED
  BY <1>2, <1>3, <1>4, <1>5 DEF Lift

\* Whatever leaves a Pane while no Card is in hand, and is a Card of a live
\* Deck, is in front of it: of several at once the one nearest the Ground.
THEOREM CollapsesAlwaysInFront == Spec => CollapsesInFront
<1>1. ASSUME IInv, [Next]_vars, held = None, nextId' = nextId PROVE InFront
  <2>1. CASE UNCHANGED vars
    BY <2>1, NothingLeaves DEF vars
  <2>2. ASSUME NEW i \in DOMAIN panes, Move(i) PROVE InFront
    BY <1>1, <2>2, MoveInFront
  <2>3. CASE UseDeck
    BY <1>1, <2>3, DeckInFront DEF Free
  <2>4. CASE Lift
    BY <1>1, <2>4, LiftInFront
  <2>5. ~Settle
    BY <1>1 DEF Settle, ExpandOver, ExpandBeside, Release, CancelGesture, Free
  <2>6. ASSUME NEW id \in PaneIds(panes), ActivatePane(id) PROVE InFront
    BY <2>6, NothingLeaves DEF ActivatePane
  <2> QED
    BY <1>1, <2>1, <2>2, <2>3, <2>4, <2>5, <2>6 DEF Next
<1>2. IInv /\ [Next]_vars =>
         [held = None /\ nextId' = nextId =>
            \A s \in Dealers(panes)' : \A c \in Range(s.deck.cards) :
              Leaves(c.id) =>
                  \/ s.deck.front = c.id
                  \/ \E d \in Range(s.deck.cards) : s.deck.front = d.id /\ Lower(d, c)]_vars
  BY <1>1 DEF InFront
<1> QED
  BY <1>2, PanesInvariant, PTL DEF Spec, CollapsesInFront
=============================================================================
