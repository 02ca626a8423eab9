------------------------------- MODULE Panes --------------------------------
(***************************************************************************)
(* The Pane algebra of battery/compass, which tf-demo's workspace runs on: *)
(* Panes with a Ground line beneath their Covers, the Decks their Sheets   *)
(* deal, and the Card held in a Lift with the checkpoint that cancelling   *)
(* it restores.  Commands come from gestures; a Deck is also rewritten     *)
(* whenever what dealt it goes on, while a Card is in hand, too.           *)
(*                                                                         *)
(* The tree of splits is modelled by its Panes in reading order.  A        *)
(* command that changes nothing is no step.                                *)
(***************************************************************************)
EXTENDS Integers, Sequences, FiniteSets, SequencesExt

CONSTANTS
    Subjects,        \* what a Presentation shows
    Keys,            \* the caller's keys for dealt Cards
    None,            \* no Presentation, Deck, key, front Card, held Card
    Opened,          \* BOUND: the Subject that is opened, followed and walked to
    Deals,           \* BOUND: the Cards a selection may deal
    Updates,         \* BOUND: the Cards a Deck may be rewritten with
    MaxWalk,         \* BOUND: rungs one walk steps up through
    MaxId            \* BOUND: identifiers that are minted

Dealt == [key : Keys \cup {None}, subject : Subjects]

KeysOf(cards) == {c.key : c \in Range(cards)}

\* The members of T in s, in their order.
Chosen(s, T) ==
    LET upTo[j \in 0..Len(s)] ==
          IF j = 0 THEN <<>>
          ELSE IF s[j] \in T THEN Append(upTo[j - 1], s[j]) ELSE upTo[j - 1] IN
    upTo[Len(s)]

Presentation == [id : Nat, subject : Subjects, key : Keys \cup {None}]
Deck == [id : Nat, cards : Seq(Presentation), front : Nat \cup {None}]

ASSUME PanesAssumption ==
    /\ Opened \in Subjects
    /\ None \notin Subjects \cup Keys \cup Nat \cup Presentation \cup Deck
    /\ Deals \subseteq Seq(Dealt) /\ Updates \subseteq Seq(Dealt)
    /\ \A cards \in Updates :
          None \notin KeysOf(cards) /\ Cardinality(KeysOf(cards)) = Len(cards)
    /\ MaxId \in Nat /\ MaxWalk \in Nat

VARIABLES
    panes,           \* the layout
    active,          \* activePaneId
    nextId,          \* the next number to mint an id from
    held             \* the Held Card, with the checkpoint of its Lift

vars == <<panes, active, nextId, held>>

-----------------------------------------------------------------------------
(* The layout.                                                              *)

Sheet == [id : Nat, kind : {"Menu", "MenuItem", "Sheet"},
          card : Presentation \cup {None}, deck : Deck \cup {None}]
Pane == [id : Nat, line : Seq(Sheet), covers : Seq(Sheet)]

Ground(p) == Last(p.line)
Rooted(p) == p.line[1].kind = "Menu"
Top(p) == IF p.covers = <<>> THEN Ground(p) ELSE Last(p.covers)

\* sheetsOf: the Ground and the Covers.
SheetsOf(p) == {Ground(p)} \cup Range(p.covers)
Shown(ps) == UNION {SheetsOf(p) : p \in Range(ps)}
PaneIds(ps) == {p.id : p \in Range(ps)}

OpenIds(ps) == {s.card.id : s \in {t \in Shown(ps) : t.card # None}}

\* findDeck, and the Sheets deckHolding looks at.
Dealers(ps) == {s \in Shown(ps) : s.deck # None}
CardIds(deck) == {c.id : c \in Range(deck.cards)}

Resting(ps, deck) == {c \in Range(deck.cards) : c.id \notin OpenIds(ps)}

\* Every Sheet of a layout, rewritten.
MapSheets(ps, F(_)) ==
    LET All(sheets) == [j \in DOMAIN sheets |-> F(sheets[j])] IN
    [i \in DOMAIN ps |-> [ps[i] EXCEPT !.line = All(@), !.covers = All(@)]]

SetDeck(ps, sheetId, deck) ==
    LET Set(s) == IF s.id = sheetId THEN [s EXCEPT !.deck = deck] ELSE s IN
    MapSheets(ps, Set)

\* A Sheet's Card goes back in front of the Deck that still holds it.
CollapseTo(ps, id) ==
    LET holders == {s \in Dealers(ps) : id \in CardIds(s.deck)} IN
    IF holders = {} THEN ps
    ELSE LET s == CHOOSE h \in holders : TRUE IN
         SetDeck(ps, s.id, [s.deck EXCEPT !.front = id])

\* Mutant: the Active Pane stays, whether or not it exists.
StillActive(ps) == active

ActiveIn(ps) == IF active \in PaneIds(ps) THEN active ELSE ps[1].id

\* withLayout.
WithLayout(ps) == panes' = ps /\ active' = ActiveIn(ps)

Mint(n) == nextId + n <= MaxId + 1 /\ nextId' = nextId + n

Free == held = None

Fresh(id) == [id |-> id, subject |-> Opened, key |-> None]
Rung(id, kind, card) == [id |-> id, kind |-> kind, card |-> card, deck |-> None]

-----------------------------------------------------------------------------
(* The Ground line and the Covers.                                          *)

StepUp(i) ==
    LET p == panes[i]
        Up(rung) == WithLayout([panes EXCEPT ![i].line = Append(@, rung)]) IN
    /\ Free /\ p.covers = <<>>
    /\ \/ /\ Ground(p).kind = "Menu" /\ Mint(1)
          /\ Up(Rung(nextId, "MenuItem", None))
       \/ /\ Ground(p).kind = "MenuItem" /\ Mint(2)
          /\ Up(Rung(nextId, "Sheet", Fresh(nextId + 1)))
    /\ UNCHANGED held

WalkLine(i, keep, n) ==
    LET p == panes[i]
        base == Chosen(p.line, {rung \in Range(p.line) : rung.kind # "Sheet"})
        sheets == SubSeq(p.line, Len(base) + 1, Len(p.line))
        walked == [j \in 1..n |->
                     Rung(nextId + 2 * (j - 1), "Sheet", Fresh(nextId + 2 * j - 1))] IN
    /\ Free /\ p.covers = <<>> /\ n > 0 /\ keep <= Len(sheets)
    /\ IF Rooted(p) THEN Last(base).kind = "MenuItem" ELSE keep = 0 /\ n = 1
    /\ Mint(2 * n)
    /\ WithLayout([panes EXCEPT ![i].line = base \o SubSeq(sheets, 1, keep) \o walked])
    /\ UNCHANGED held

Without(covers, id) == Chosen(covers, {c \in Range(covers) : c.id # id})

\* leaveCover: it collapses to its slot in a live Deck, or closes.
LeaveCover(i, cover) ==
    CollapseTo([panes EXCEPT ![i].covers = Without(@, cover.id)], cover.card.id)

CanStepDown(p) == Rooted(p) /\ p.covers = <<>> /\ Len(p.line) > 1
StepDown(i) == [panes EXCEPT ![i].line = Front(@)]

GoBack(i) ==
    LET p == panes[i] IN
    /\ Free
    /\ \/ p.covers # <<>> /\ WithLayout(LeaveCover(i, Last(p.covers)))
       \/ CanStepDown(p) /\ WithLayout(StepDown(i))
    /\ UNCHANGED <<nextId, held>>

\* splitBeside.
Beside(i, edge, fresh) ==
    InsertAt(panes, IF edge = "inline-start" THEN i ELSE i + 1, fresh)

SpawnRootedPane(i, edge) ==
    /\ Free /\ Mint(3)
    /\ WithLayout(Beside(i, edge, [id |-> nextId, covers |-> <<>>,
                                   line |-> <<Rung(nextId + 1, "Menu", None)>>]))
    /\ UNCHANGED held

PushCover(i, id, card) ==
    [panes EXCEPT ![i].covers = Append(@, Rung(id, "Sheet", card))]

FollowLink(i) ==
    /\ Free /\ Mint(2)
    /\ WithLayout(PushCover(i, nextId + 1, Fresh(nextId)))
    /\ UNCHANGED held

\* Mutant: the top Cover collapses last.
CollapsedFirstToLast(ps, covers) ==
    FoldLeft(LAMBDA all, c : CollapseTo(all, c.card.id), ps, covers)

\* The lowest Cover collapses last, and is in front of the Deck they share.
Collapsed(ps, covers) ==
    LET after[n \in 0..Len(covers)] ==
          IF n = 0 THEN ps
          ELSE CollapseTo(after[n - 1], covers[Len(covers) - n + 1].card.id) IN
    after[Len(covers)]

ClearCovers(i) ==
    /\ Free /\ panes[i].covers # <<>>
    /\ WithLayout(Collapsed([panes EXCEPT ![i].covers = <<>>], panes[i].covers))
    /\ UNCHANGED <<nextId, held>>

\* removeFloatingPane.
RemovedPane(i) == CollapseTo(RemoveAt(panes, i), Ground(panes[i]).card.id)

ClosePane(i) ==
    /\ Free /\ ~Rooted(panes[i])
    /\ WithLayout(RemovedPane(i))
    /\ UNCHANGED <<nextId, held>>

-----------------------------------------------------------------------------
(* Decks.                                                                   *)

Card(id, dealt) == [id |-> id, subject |-> dealt.subject, key |-> dealt.key]

Deal(i, cards) ==
    /\ Free /\ Mint(1 + Len(cards))
    /\ WithLayout(SetDeck(panes, Top(panes[i]).id,
          [id |-> nextId, front |-> None,
           cards |-> [j \in DOMAIN cards |-> Card(nextId + j, cards[j])]]))
    /\ UNCHANGED held

BringToFront(s, id) ==
    /\ Free /\ id \in CardIds(s.deck) /\ s.deck.front # id
    /\ WithLayout(SetDeck(panes, s.id, [s.deck EXCEPT !.front = id]))
    /\ UNCHANGED <<nextId, held>>

Sweep(i) ==
    /\ Free /\ Top(panes[i]).deck # None
    /\ WithLayout(SetDeck(panes, Top(panes[i]).id, None))
    /\ UNCHANGED <<nextId, held>>

-----------------------------------------------------------------------------
(* ReconcileDeck.                                                           *)

\* The Deck, if a Sheet of the layout shows it.
DeckIn(ps, deckId) == {s.deck : s \in {t \in Dealers(ps) : t.deck.id = deckId}}

\* The keys given that a Deck has no Card for, in order.
NewKeys(decks, cards) ==
    IF decks = {} THEN <<>>
    ELSE Chosen(cards, {dealt \in Range(cards) :
                          \A d \in decks : dealt.key \notin KeysOf(d.cards)})

\* Mutant: the checkpoint mints identifiers of its own.
MintedTwice(first, second) == first \o second

\* What the live Deck mints, and what is left for the checkpoint's to mint.
Minted(first, second) == first \o Chosen(second, Range(second) \ Range(first))

\* Where the last Card with the key is among those minted.
Place(minted, key) ==
    CHOOSE j \in DOMAIN minted :
        /\ minted[j].key = key
        /\ \A k \in DOMAIN minted : minted[k].key = key => k <= j

NewCard(minted, dealt) == Card(nextId - 1 + Place(minted, dealt.key), dealt)

\* A kept key keeps its Card and its slot, and takes the given Subject.
Kept(deck, cards) ==
    LET SubjectOf(c) == IF c.key = None THEN c.subject
                        ELSE (CHOOSE g \in Range(cards) : g.key = c.key).subject
        kept == Chosen(deck.cards, {c \in Range(deck.cards) :
                                      c.key = None \/ c.key \in KeysOf(cards)}) IN
    [j \in DOMAIN kept |-> [kept[j] EXCEPT !.subject = SubjectOf(kept[j])]]

\* A new key slots in after the key given before it.
SlottedIn(deck, cards, minted) ==
    LET After(slots, j) ==
          IF j = 1 THEN 1
          ELSE 1 + CHOOSE k \in DOMAIN slots : slots[k].key = cards[j - 1].key
        Add(slots, j) ==
          IF cards[j].key \in KeysOf(deck.cards) THEN slots
          ELSE InsertAt(slots, After(slots, j), NewCard(minted, cards[j]))
        upTo[j \in 0..Len(cards)] ==
          IF j = 0 THEN Kept(deck, cards) ELSE Add(upTo[j - 1], j) IN
    upTo[Len(cards)]

Reconciled(deck, cards, minted) ==
    LET slots == SlottedIn(deck, cards, minted) IN
    [deck EXCEPT !.cards = slots,
                 !.front = IF \E c \in Range(slots) : c.id = @ THEN @ ELSE None]

\* A Presentation, with the Subject its Card in the Deck has.
Retold(card, deck) ==
    IF card # None /\ card.id \in CardIds(deck)
    THEN CHOOSE c \in Range(deck.cards) : c.id = card.id
    ELSE card

\* Mutant: a Sheet keeps showing the old Subject.
ShownBefore(ps, deck) == ps

\* resubject: the Sheets, at most one, that show a Card of the Deck.
ShownAs(ps, deck) ==
    LET Show(s) == IF s \in Shown(ps) THEN [s EXCEPT !.card = Retold(@, deck)] ELSE s IN
    MapSheets(ps, Show)

\* reconcileIn.
ReconcileIn(ps, deckId, cards, minted) ==
    IF DeckIn(ps, deckId) = {} THEN ps
    ELSE LET s == CHOOSE t \in Dealers(ps) : t.deck.id = deckId
             deck == Reconciled(s.deck, cards, minted) IN
         ShownAs(SetDeck(ps, s.id, deck), deck)

\* The live layout, the Held Card and its checkpoint all take the update.
ReconcileDeck(deckId, cards) ==
    LET first == NewKeys(DeckIn(panes, deckId), cards)
        second == IF Free THEN <<>> ELSE NewKeys(DeckIn(held.panes, deckId), cards)
        minted == Minted(first, second)
        after == ReconcileIn(panes, deckId, cards, first) IN
    /\ Mint(Len(minted))
    /\ panes' = after
    /\ held' = IF Free THEN None
               ELSE [held EXCEPT
                       !.panes = ReconcileIn(@, deckId, cards, minted),
                       !.card = IF DeckIn(after, deckId) = {} THEN @
                                ELSE Retold(@, CHOOSE d \in DeckIn(after, deckId) : TRUE)]
    /\ UNCHANGED active

-----------------------------------------------------------------------------
(* Lifts.                                                                   *)

Hold(card, origin) ==
    held' = [card |-> card, origin |-> origin,
             panes |-> panes, active |-> active, nextId |-> nextId]

Liftable(ps, deck) == Resting(ps, deck)

LiftCard(s, c) ==
    /\ Free /\ c \in Liftable(panes, s.deck)
    /\ Hold(c, "Deck")
    /\ UNCHANGED <<panes, active, nextId>>

LiftCover(i, cover) ==
    /\ Free
    /\ Hold(cover.card, "Cover")
    /\ WithLayout(LeaveCover(i, cover))
    /\ UNCHANGED nextId

LiftGround(i) ==
    LET p == panes[i] IN
    /\ Free /\ p.covers = <<>> /\ Ground(p).card # None
    /\ IF Rooted(p)
       THEN Hold(Ground(p).card, "RootedGround") /\ WithLayout(StepDown(i))
       ELSE Hold(Ground(p).card, "FloatingGround") /\ WithLayout(RemovedPane(i))
    /\ UNCHANGED nextId

LiftFresh ==
    /\ Free /\ Mint(1)
    /\ Hold(Fresh(nextId), "Fresh")
    /\ UNCHANGED <<panes, active>>

\* The Held Card settles as a Cover.
ExpandOver(i) ==
    /\ ~Free /\ Mint(1)
    /\ WithLayout(PushCover(i, nextId, held.card))
    /\ held' = None

\* It settles as the Ground of a new Floating Pane.
ExpandBeside(i, edge) ==
    /\ ~Free /\ Mint(3)
    /\ WithLayout(Beside(i, edge, [id |-> nextId, covers |-> <<>>,
                                   line |-> <<Rung(nextId + 1, "Sheet", held.card)>>]))
    /\ held' = None

\* Mutant: the id counter of the checkpoint comes back, too.
CounterRestored == nextId' = held.nextId

\* The id counter never runs backwards.
CounterStays == nextId' = nextId

Restore ==
    /\ panes' = held.panes /\ active' = held.active /\ held' = None
    /\ CounterStays

Release ==
    /\ ~Free
    /\ IF held.origin = "RootedGround" THEN Restore
       ELSE held' = None /\ UNCHANGED <<panes, active, nextId>>

CancelGesture == ~Free /\ Restore

ActivatePane(id) ==
    /\ active # id
    /\ active' = id
    /\ UNCHANGED <<panes, nextId, held>>

-----------------------------------------------------------------------------
\* createWorkspace.
Init ==
    /\ panes = <<[id |-> 1, line |-> <<Rung(2, "Menu", None)>>, covers |-> <<>>]>>
    /\ active = 1
    /\ nextId = 3
    /\ held = None

Edges == {"inline-start", "inline-end"}

LiveDecks == {s.deck.id : s \in Dealers(panes)}

Move(i) ==
    \/ StepUp(i) \/ GoBack(i) \/ FollowLink(i) \/ ClearCovers(i) \/ ClosePane(i)
    \/ \E keep \in 0..MaxId, n \in 1..MaxWalk : WalkLine(i, keep, n)
    \/ \E edge \in Edges : SpawnRootedPane(i, edge)

Lift ==
    \/ \E s \in Dealers(panes) : \E c \in Range(s.deck.cards) : LiftCard(s, c)
    \/ \E i \in DOMAIN panes : LiftGround(i) \/ \E s \in Range(panes[i].covers) : LiftCover(i, s)
    \/ LiftFresh

Settle ==
    \/ \E i \in DOMAIN panes : ExpandOver(i) \/ \E edge \in Edges : ExpandBeside(i, edge)
    \/ Release \/ CancelGesture

UseDeck ==
    \/ \E i \in DOMAIN panes : Sweep(i) \/ \E cards \in Deals : Deal(i, cards)
    \/ \E s \in Dealers(panes) : \E id \in CardIds(s.deck) : BringToFront(s, id)
    \/ \E deckId \in LiveDecks, cards \in Updates : ReconcileDeck(deckId, cards)

Next ==
    \/ \E i \in DOMAIN panes : Move(i)
    \/ UseDeck
    \/ Lift
    \/ Settle
    \/ \E id \in PaneIds(panes) : ActivatePane(id)

Spec == Init /\ [][Next]_vars

-----------------------------------------------------------------------------
(* Properties.                                                              *)

Layouts == {panes} \cup IF Free THEN {} ELSE {held.panes}

\* A Rooted line runs Menu, Menu Item, selections; a Floating one is one Sheet.
LineOK(line) ==
    \/ Len(line) = 1 /\ line[1].kind = "Sheet"
    \/ \A j \in DOMAIN line :
          line[j].kind = IF j = 1 THEN "Menu" ELSE IF j = 2 THEN "MenuItem" ELSE "Sheet"

LayoutOK(ps) ==
    /\ ps \in Seq(Pane) /\ \E p \in Range(ps) : Rooted(p)
    /\ \A p \in Range(ps) :
          /\ p.line # <<>> /\ LineOK(p.line)
          /\ \A s \in Range(p.line) \cup Range(p.covers) :
                /\ (s.card = None) <=> (s.kind # "Sheet")
                /\ s.deck # None => s.deck.front \in CardIds(s.deck) \cup {None}
          /\ \A c \in Range(p.covers) : c.kind = "Sheet"

\* The layout and the checkpoint have a Rooted Pane, and the Active one exists.
TypeOK ==
    /\ nextId \in Nat
    /\ LayoutOK(panes) /\ active \in PaneIds(panes)
    /\ ~Free =>
          /\ held.card \in Presentation
          /\ held.origin \in {"Deck", "Cover", "FloatingGround", "RootedGround", "Fresh"}
          /\ LayoutOK(held.panes) /\ held.active \in PaneIds(held.panes)

\* Where a Sheet is in a layout, also one beneath the Ground.
Places(ps) ==
    UNION {{<<i, "line", j>> : j \in DOMAIN ps[i].line}
             \cup {<<i, "covers", j>> : j \in DOMAIN ps[i].covers} : i \in DOMAIN ps}

At(ps, x) == ps[x[1]][x[2]][x[3]]

DeckSheets(ps) == {x \in Places(ps) : At(ps, x).deck # None}
CardSheets(ps) == {x \in Places(ps) : At(ps, x).card # None}

\* The slots of all Decks.
Slots(ps) ==
    UNION {{<<x, j>> : j \in DOMAIN At(ps, x).deck.cards} : x \in DeckSheets(ps)}
InSlot(ps, slot) == At(ps, slot[1]).deck.cards[slot[2]]

\* Every id names one thing and was minted by a counter that is past it, in the
\* layout and in the checkpoint that a cancel brings back: what was minted in
\* between, for Cards a Deck got while one was in hand, is not minted again.
IdsNameOneThing ==
    \A ps \in Layouts :
        /\ \A i, j \in DOMAIN ps : ps[i].id = ps[j].id => i = j
        /\ \A x, y \in Places(ps) : At(ps, x).id = At(ps, y).id => x = y
        /\ \A x, y \in DeckSheets(ps) : At(ps, x).deck.id = At(ps, y).deck.id => x = y
        /\ \A a, b \in Slots(ps) : InSlot(ps, a).id = InSlot(ps, b).id => a = b
        /\ \A p \in Range(ps) : p.id < nextId
        /\ \A x \in Places(ps) : At(ps, x).id < nextId
        /\ \A x \in DeckSheets(ps) : At(ps, x).deck.id < nextId
        /\ \A a \in Slots(ps) : InSlot(ps, a).id < nextId

\* A Presentation is open once or in hand, never both, and shows one Subject
\* wherever it is: on its Card, as a Sheet, in hand.
PresentationsAreOnce ==
    /\ \A ps \in Layouts :
          /\ \A x, y \in CardSheets(ps) : At(ps, x).card.id = At(ps, y).card.id => x = y
          /\ \A x \in CardSheets(ps), a \in Slots(ps) :
                At(ps, x).card.id = InSlot(ps, a).id =>
                    At(ps, x).card.subject = InSlot(ps, a).subject
    /\ ~Free =>
          /\ \A x \in CardSheets(panes) : At(panes, x).card.id # held.card.id
          /\ \A a \in Slots(panes) :
                InSlot(panes, a).id = held.card.id =>
                    InSlot(panes, a).subject = held.card.subject

\* A Deck that the layout and the checkpoint both show has the same Cards in
\* both, by the same ids: a cancel does not undo an update.
CheckpointKeepsUp ==
    ~Free => \A s \in Dealers(panes), t \in Dealers(held.panes) :
                s.deck.id = t.deck.id => s.deck.cards = t.deck.cards

\* The Card was nearer the Ground of its Pane.
Lower(c, d) ==
    \E p \in Range(panes) : \E i, j \in DOMAIN p.covers :
        p.covers[i].card = c /\ p.covers[j].card = d /\ i < j

\* A Cover, or the Ground of a Floating Pane, leaves; a Pane that closes takes
\* its Covers with it.
Leaves(id) ==
    /\ id \in OpenIds(panes) \ OpenIds(panes)'
    /\ \A p \in Range(panes) :
          (\E c \in Range(p.covers) : c.card.id = id) => p.id \in PaneIds(panes)'

\* A Sheet that goes back, is lifted or closes as a Ground is in front on the
\* live Deck that has its slot; of several at once the one nearest the Ground.
CollapsesInFront ==
    [][held = None /\ nextId' = nextId =>
          \A s \in Dealers(panes)' : \A c \in Range(s.deck.cards) :
              Leaves(c.id) =>
                  \/ s.deck.front = c.id
                  \/ \E d \in Range(s.deck.cards) : s.deck.front = d.id /\ Lower(d, c)]_vars

-----------------------------------------------------------------------------
(* Findings.                                                                *)

\* "the Lift's checkpoint keeps up, so a cancel does not undo the update"
\* (model.ts): also of a Deck the checkpoint has beneath its Ground.
CancelKeepsUpdates ==
    ~Free => \A s \in Dealers(panes), x \in DeckSheets(held.panes) :
                s.deck.id = At(held.panes, x).deck.id =>
                    s.deck.cards = At(held.panes, x).deck.cards
=============================================================================
