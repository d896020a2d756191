--------------------------- MODULE Library_proofs ---------------------------
(***************************************************************************)
(* For any torrents, whatever they look like and however they are sorted   *)
(* and filtered: a menu acts on the torrent it was opened on               *)
(* (RightTorrent), the layout is the one for the window (RightLayout), the *)
(* state is of its types (TypeCorrect), and what the page says of the list *)
(* in different places agrees (Agreement).  The last needs the list to be  *)
(* one that ingest can have made (Listed), and what the folds of the model *)
(* compute, which is shown by induction, with sets in the place of         *)
(* properties of numbers.                                                  *)
(***************************************************************************)
EXTENDS Library, FiniteSetTheorems, SequenceTheorems, WellFoundedInduction,
        TLAPS

\* What the media query's hook relies on.
MediaInv ==
  /\ wide \in BOOLEAN
  /\ hook \in {"rendered", "listening"}
  /\ change \in BOOLEAN
  /\ LayoutMatches

\* An open popup hangs on a row that is there, the one it was opened on.
PopupInv == popup # NoPopup => popup.hash = aim /\ aim \in RowsUp

\* The actions that leave window and hook alone.
Page ==
  \/ ingest
  \/ \E v \in {"library", "rules", "settings"} : onView(v)
  \/ \E f \in Filters : onFilter(f)
  \/ OpenSidebar \/ CloseSidebar \/ CloseDetail \/ Dismiss
  \/ \E h \in Hashes : User(h)
  \/ \E op \in Ops : Item(op)
  \/ \E op \in Ops \ {"deleteFiles"} : Toolbar(op)
  \/ \E t \in TabNames : SelectTab(t)
  \/ \E i \in 1 .. Max({Len(x.files) : x \in Infos}) : CopyFile(i)
  \/ TypeLink \/ Add
  \/ \E ok \in BOOLEAN : Added(ok)

LEMMA PageKeepsMedia == ASSUME Page PROVE UNCHANGED mediavars
<1>1. CASE ingest
  BY <1>1 DEF ingest
<1>2. ASSUME NEW v, onView(v) PROVE UNCHANGED mediavars
  BY <1>2 DEF onView, Click
<1>3. ASSUME NEW f, onFilter(f) PROVE UNCHANGED mediavars
  BY <1>3 DEF onFilter, Click
<1>4. CASE OpenSidebar \/ CloseSidebar \/ CloseDetail
  BY <1>4 DEF OpenSidebar, CloseSidebar, CloseDetail, Click
<1>5. CASE Dismiss
  BY <1>5 DEF Dismiss
<1>6. ASSUME NEW h, User(h) PROVE UNCHANGED mediavars
  BY <1>6 DEF User, onSelect, onDoubleClick, OpenPopup, Click
<1>7. ASSUME NEW op, Item(op) PROVE UNCHANGED mediavars
  BY <1>7 DEF Item
<1>8. ASSUME NEW op, Toolbar(op) PROVE UNCHANGED mediavars
  BY <1>8 DEF Toolbar
<1>9. ASSUME NEW t, SelectTab(t) PROVE UNCHANGED mediavars
  BY <1>9 DEF SelectTab
<1>10. ASSUME NEW i, CopyFile(i) PROVE UNCHANGED mediavars
  BY <1>10 DEF CopyFile
<1>11. CASE TypeLink \/ Add
  BY <1>11 DEF TypeLink, Add
<1>12. ASSUME NEW ok, Added(ok) PROVE UNCHANGED mediavars
  BY <1>12 DEF Added
<1> QED
  BY <1>1, <1>2, <1>3, <1>4, <1>5, <1>6, <1>7, <1>8, <1>9, <1>10, <1>11,
     <1>12 DEF Page

LEMMA MediaStep == MediaInv /\ [Next]_vars => MediaInv'
<1> SUFFICES ASSUME MediaInv, [Next]_vars PROVE MediaInv'
  OBVIOUS
<1> USE DEF MediaInv, LayoutMatches
<1>1. CASE UNCHANGED vars
  BY <1>1 DEF vars, mediavars
<1>2. CASE Page
  BY <1>2, PageKeepsMedia DEF mediavars
<1>3. CASE Resize
  BY <1>3 DEF Resize
<1>4. CASE Effect
  BY <1>4 DEF Effect
<1>5. CASE onChange
  BY <1>5 DEF onChange
<1>6. CASE Reload
  BY <1>6 DEF Reload
<1> QED
  BY <1>1, <1>2, <1>3, <1>4, <1>5, <1>6 DEF Next, Page

\* A window that changes at any moment, before or after the hook listens,
\* ends up with its layout (use-media-query.ts:4-15).
THEOREM RightLayout == Spec => []LayoutMatches
<1>1. Init => MediaInv
  BY DEF Init, MediaInv, LayoutMatches
<1>2. MediaInv => LayoutMatches
  BY DEF MediaInv
<1> QED
  BY <1>1, <1>2, MediaStep, PTL DEF Spec

-----------------------------------------------------------------------------
\* Whatever is done to the list or the page, Render keeps a popup on its row.
LEMMA RenderPopup == ASSUME PopupInv, NEW p, NEW t, Render(p, t)
                     PROVE  PopupInv'
BY DEF PopupInv, Render

LEMMA PopupStep == PopupInv /\ [Next]_vars => PopupInv'
<1> SUFFICES ASSUME PopupInv, [Next]_vars PROVE PopupInv'
  OBVIOUS
<1>1. CASE UNCHANGED vars
  <2>1. RowsUp' = RowsUp
    BY <1>1 DEF vars, uivars, RowsUp, Range
  <2> QED
    BY <1>1, <2>1 DEF vars, PopupInv
<1>2. CASE Reload
  BY <1>2 DEF Reload, PopupInv
<1>3. CASE ingest \/ Resize \/ Effect \/ onChange
  BY <1>3, RenderPopup DEF ingest, Resize, Effect, onChange
<1>4. ASSUME NEW v, onView(v) PROVE PopupInv'
  BY <1>4, RenderPopup DEF onView, Click
<1>5. ASSUME NEW f, onFilter(f) PROVE PopupInv'
  BY <1>5, RenderPopup DEF onFilter, Click
<1>6. CASE OpenSidebar \/ CloseSidebar \/ CloseDetail
  BY <1>6, RenderPopup DEF OpenSidebar, CloseSidebar, CloseDetail, Click
<1>7. CASE Dismiss \/ TypeLink \/ Add
  BY <1>7, RenderPopup DEF Dismiss, TypeLink, Add
<1>8. ASSUME NEW h, User(h) PROVE PopupInv'
  <2>1. CASE onSelect(h) \/ onDoubleClick(h)
    BY <2>1, RenderPopup DEF onSelect, onDoubleClick, Click
  <2>2. ASSUME NEW what, OpenPopup(what, h) PROVE PopupInv'
    BY <2>2, RenderPopup DEF OpenPopup
  <2> QED
    BY <1>8, <2>1, <2>2 DEF User
<1>9. ASSUME NEW op, Item(op) \/ Toolbar(op) PROVE PopupInv'
  BY <1>9, RenderPopup DEF Item, Toolbar
<1>10. ASSUME NEW t, SelectTab(t) PROVE PopupInv'
  BY <1>10, RenderPopup DEF SelectTab
<1>11. ASSUME NEW i, CopyFile(i) PROVE PopupInv'
  BY <1>11, RenderPopup DEF CopyFile
<1>12. ASSUME NEW ok, Added(ok) PROVE PopupInv'
  BY <1>12, RenderPopup DEF Added
<1> QED
  BY <1>1, <1>2, <1>3, <1>4, <1>5, <1>6, <1>7, <1>8, <1>9, <1>10, <1>11,
     <1>12 DEF Next

\* While a menu is open, only its items ask for anything of a torrent.
LEMMA OnlyItems ==
  ASSUME MenuOpen, Next, sent'.hash # None
  PROVE  \E op \in Ops : Item(op)
<1>1. ~TableUp /\ ~ToolbarUp
  BY DEF TableUp, ToolbarUp
<1>2. Silent => sent'.hash = None
  BY DEF Silent, NoRequest
<1>3. ~(ingest \/ Resize \/ Effect \/ onChange)
  BY <1>2 DEF ingest, Resize, Effect, onChange
<1>4. ~Reload
  BY DEF Reload, NoRequest
<1>5. ASSUME NEW v PROVE ~onView(v) /\ ~onFilter(v)
  BY <1>2 DEF onView, onFilter
<1>6. ~(OpenSidebar \/ CloseSidebar \/ CloseDetail \/ Dismiss)
  BY <1>2 DEF OpenSidebar, CloseSidebar, CloseDetail, Dismiss
<1>7. ASSUME NEW h PROVE ~User(h)
  BY <1>1 DEF User, onSelect, onDoubleClick, OpenPopup
<1>8. ASSUME NEW op PROVE ~Toolbar(op)
  BY <1>1 DEF Toolbar
<1>9. ASSUME NEW t PROVE ~SelectTab(t) /\ ~CopyFile(t)
  BY DEF SelectTab, CopyFile
<1>10. ~(TypeLink \/ Add)
  BY <1>1 DEF TypeLink, Add
<1>11. ASSUME NEW ok PROVE ~Added(ok)
  BY DEF Added, Request, NoRequest
<1> QED
  BY <1>3, <1>4, <1>5, <1>6, <1>7, <1>8, <1>9, <1>10, <1>11 DEF Next

\* A menu item acts on the torrent of its row.
LEMMA ItemHash == ASSUME NEW op, Item(op), sent'.hash # None
                  PROVE  sent'.hash = popup.hash
BY DEF Item, Ask, Request, NoRequest

\* However often the list was sorted anew, filtered or laid out anew since
\* the menu was opened, what is asked through it is asked of the torrent it
\* was opened on, which is on the screen (TorrentTable.tsx:181-265, 304-329).
THEOREM RightTorrent == Spec => MenuActsOnItsTorrent
<1>1. Init => PopupInv
  BY DEF Init, PopupInv
<1>2. ASSUME PopupInv, [Next]_vars
      PROVE  [MenuOpen /\ sent' # sent /\ sent'.hash # None
                => sent'.hash = aim /\ aim \in RowsUp]_vars
  <2> SUFFICES ASSUME MenuOpen, sent' # sent, sent'.hash # None
               PROVE  sent'.hash = aim /\ aim \in RowsUp
    OBVIOUS
  <2>1. Next
    BY <1>2 DEF vars
  <2>2. PICK op \in Ops : Item(op)
    BY <2>1, OnlyItems
  <2>3. popup # NoPopup
    BY DEF MenuOpen, NoPopup, None
  <2> QED
    BY <1>2, <2>2, <2>3, ItemHash DEF PopupInv
<1> QED
  BY <1>1, <1>2, PopupStep, PTL DEF Spec, MenuActsOnItsTorrent

-----------------------------------------------------------------------------
(* Sets of natural numbers, and what the folds of the list compute.          *)

\* A set of natural numbers has a least element.
LEMMA Least ==
  ASSUME NEW S \in SUBSET Nat, S # {}
  PROVE  \E n \in S : \A m \in S : n <= m
<1> DEFINE R == {ss \in Nat \X Nat : ss[1] < ss[2]}
<1>1. IsWellFoundedOn(R, Nat)
  BY NatLessThanWellFounded DEF OpToRel
<1>2. \A y, x \in Nat : y < x => <<y, x>> \in R
  OBVIOUS
<1> HIDE DEF R
<1>3. PICK n \in S : \A y \in S : ~(<<y, n>> \in R)
  BY <1>1, WFMin
<1>4. \A m \in S : n <= m
  <2> TAKE m \in S
  <2>1. m \in Nat /\ n \in Nat
    OBVIOUS
  <2>2. ~(m < n)
    BY <1>2, <1>3, <2>1
  <2> QED
    BY <2>1, <2>2
<1> QED
  BY <1>4

\* Induction up to n, for a set of numbers instead of a property of them.
LEMMA Induct ==
  ASSUME NEW n \in Nat, NEW S, 0 \in S, \A k \in 0 .. n - 1 : k \in S => k + 1 \in S
  PROVE  0 .. n \subseteq S
<1> SUFFICES ASSUME ~(0 .. n \subseteq S) PROVE FALSE
  OBVIOUS
<1> DEFINE C == {k \in 0 .. n : k \notin S}
<1>0. C \in SUBSET Nat /\ C # {}
  OBVIOUS
<1> HIDE DEF C
<1>1. PICK c \in C : \A m \in C : c <= m
  BY <1>0, Least
<1> USE DEF C
<1>2. c # 0 /\ c - 1 \in 0 .. n - 1 /\ c - 1 \in 0 .. n /\ ~(c <= c - 1)
  OBVIOUS
<1>3. c - 1 \in S
  BY <1>1, <1>2
<1>4. c - 1 + 1 = c
  OBVIOUS
<1> QED
  BY <1>2, <1>3, <1>4

LEMMA MaxIs ==
  ASSUME NEW S \in SUBSET Int, NEW x \in S, \A y \in S : y <= x
  PROVE  Max(S) = x
<1>1. \A z \in S : (\A y \in S : z >= y) => z = x
  OBVIOUS
<1>2. \A y \in S : x >= y
  OBVIOUS
<1> QED
  BY <1>1, <1>2 DEF Max

LEMMA MaxBelow ==
  ASSUME NEW n \in Nat, NEW s \in SUBSET (1 .. n), s # {}
  PROVE  Max(s) \in s /\ \A y \in s : y <= Max(s)
<1> DEFINE D == {n - y : y \in s}
<1>0. \A y \in s : n - y \in Nat
  <2> TAKE y \in s
  <2>1. y \in 1 .. n
    OBVIOUS
  <2> QED
    BY <2>1
<1>1. D \in SUBSET Nat /\ D # {}
  BY <1>0
<1>2. PICK d \in D : \A e \in D : d <= e
  BY <1>1, Least
<1>3. PICK x \in s : d = n - x
  OBVIOUS
<1>4. \A y \in s : y <= x
  <2> TAKE y \in s
  <2>1. n - y \in D
    OBVIOUS
  <2>2. n - x <= n - y
    BY <1>2, <1>3, <2>1
  <2>3. n \in Int /\ x \in Int /\ y \in Int
    OBVIOUS
  <2> QED
    BY <2>2, <2>3
<1>5. Max(s) = x
  BY <1>4, MaxIs
<1> QED
  BY <1>4, <1>5

\* What FoldLeft folds with, a function on the sets of positions.
IsFold(it, n, V, base, step) ==
  /\ it \in [SUBSET (1 .. n) -> V]
  /\ \A s \in SUBSET (1 .. n) :
       it[s] = IF s = {} THEN base ELSE step[Max(s)][it[s \ {Max(s)}]]

LEMMA FoldDefined ==
  ASSUME NEW n \in Nat, NEW V, NEW base \in V, NEW step \in [1 .. n -> [V -> V]]
  PROVE  \E it : IsFold(it, n, V, base, step)
<1> DEFINE Good(k, it) ==
             /\ it \in [SUBSET (1 .. k) -> V]
             /\ \A s \in SUBSET (1 .. k) :
                  it[s] = IF s = {} THEN base ELSE step[Max(s)][it[s \ {Max(s)}]]
           S == {k \in 0 .. n : \E it : Good(k, it)}
<1>1. 0 \in S
  <2> DEFINE it == [s \in SUBSET (1 .. 0) |-> base]
  <2>1. it \in [SUBSET (1 .. 0) -> V]
    OBVIOUS
  <2>2. \A s \in SUBSET (1 .. 0) : s = {} /\ it[s] = base
    OBVIOUS
  <2> HIDE DEF it
  <2>3. Good(0, it)
    BY <2>1, <2>2
  <2>4. 0 \in 0 .. n
    OBVIOUS
  <2> HIDE DEF Good
  <2> QED
    BY <2>3, <2>4
<1>2. ASSUME NEW k \in 0 .. n - 1, k \in S PROVE k + 1 \in S
  <2>1. PICK it : Good(k, it)
    BY <1>2
  <2> DEFINE nx == [s \in SUBSET (1 .. k + 1) |->
                      IF k + 1 \notin s THEN it[s] ELSE step[k + 1][it[s \ {k + 1}]]]
  <2>2. \A s \in SUBSET (1 .. k + 1) : s \ {k + 1} \in SUBSET (1 .. k)
    OBVIOUS
  <2>3. \A s \in SUBSET (1 .. k + 1) : k + 1 \notin s => s \in SUBSET (1 .. k)
    OBVIOUS
  <2>4. k + 1 \in 1 .. n /\ k \in Nat
    OBVIOUS
  <2>5. nx \in [SUBSET (1 .. k + 1) -> V]
    <3> SUFFICES ASSUME NEW s \in SUBSET (1 .. k + 1)
                 PROVE  (IF k + 1 \notin s THEN it[s] ELSE step[k + 1][it[s \ {k + 1}]]) \in V
      OBVIOUS
    <3>1. CASE k + 1 \notin s
      BY <3>1, <2>1, <2>3
    <3>2. CASE k + 1 \in s
      <4>1. it[s \ {k + 1}] \in V
        BY <2>1, <2>2
      <4>2. step[k + 1] \in [V -> V]
        BY <2>4
      <4> QED
        BY <3>2, <4>1, <4>2
    <3> QED
      BY <3>1, <3>2
  <2>6. ASSUME NEW s \in SUBSET (1 .. k + 1)
        PROVE  nx[s] = IF s = {} THEN base ELSE step[Max(s)][nx[s \ {Max(s)}]]
    <3>1. CASE s = {}
      <4>1. nx[s] = it[s]
        BY <3>1
      <4>2. {} \in SUBSET (1 .. k)
        OBVIOUS
      <4> QED
        BY <2>1, <3>1, <4>1, <4>2
    <3>2. CASE s # {} /\ k + 1 \notin s
      <4>1. s \in SUBSET (1 .. k)
        BY <2>3, <3>2
      <4>2. Max(s) \in s
        BY <3>2, <4>1, <2>4, MaxBelow
      <4>3. nx[s] = it[s] /\ nx[s \ {Max(s)}] = it[s \ {Max(s)}]
        BY <3>2
      <4> QED
        BY <2>1, <3>2, <4>1, <4>3
    <3>3. CASE k + 1 \in s
      <4>1. Max(s) = k + 1
        <5>1. \A y \in s : y <= k + 1
          OBVIOUS
        <5>2. s \in SUBSET Int
          OBVIOUS
        <5> QED
          BY <3>3, <5>1, <5>2, MaxIs
      <4>2. s \ {k + 1} \in SUBSET (1 .. k + 1) /\ k + 1 \notin s \ {k + 1} /\ s # {}
        BY <3>3
      <4>3. nx[s \ {k + 1}] = it[s \ {k + 1}]
        BY <4>2
      <4> QED
        BY <3>3, <4>1, <4>2, <4>3
    <3> QED
      BY <3>1, <3>2, <3>3
  <2>7. Good(k + 1, nx)
    BY <2>5, <2>6
  <2>8. k + 1 \in 0 .. n
    OBVIOUS
  <2> HIDE DEF Good
  <2> QED
    BY <2>7, <2>8
<1> HIDE DEF S
<1>3. 0 .. n \subseteq S
  BY <1>1, <1>2, Induct
<1>4. n \in S
  BY <1>3
<1> USE DEF S
<1>5. PICK it : Good(n, it)
  BY <1>4
<1> QED
  BY <1>5 DEF IsFold

-----------------------------------------------------------------------------
(* A torrent put in its place.                                              *)

LEMMA UpTo ==
  ASSUME NEW n \in Nat, NEW k \in 1 .. n
  PROVE  /\ (1 .. k) \in SUBSET (1 .. n)
         /\ (1 .. k) # {}
         /\ Max(1 .. k) = k
         /\ (1 .. k) \ {k} = (1 .. k - 1)
         /\ (1 .. k - 1) \in SUBSET (1 .. n)
<1>1. (1 .. k) \in SUBSET Int /\ k \in 1 .. k /\ \A y \in 1 .. k : y <= k
  OBVIOUS
<1>2. Max(1 .. k) = k
  BY <1>1, MaxIs
<1>3. (1 .. k) \in SUBSET (1 .. n) /\ (1 .. k) # {}
  OBVIOUS
<1>4. k - 1 \in Nat /\ k \in Nat
  OBVIOUS
<1>5. (1 .. k) \ {k} = (1 .. k - 1)
  BY <1>4
<1>6. (1 .. k - 1) \in SUBSET (1 .. n)
  <2> SUFFICES ASSUME NEW j \in 1 .. k - 1 PROVE j \in 1 .. n
    OBVIOUS
  <2>1. j <= k - 1 /\ k <= n
    BY <1>4
  <2> QED
    BY <1>4, <2>1
<1> QED
  BY <1>2, <1>3, <1>5, <1>6

\* The sequence with x put in at p.
LEMMA InsertAtIs ==
  ASSUME NEW T, NEW s \in Seq(T), NEW x \in T, NEW p \in 1 .. Len(s) + 1
  PROVE  /\ InsertAt(s, p, x) \in Seq(T)
         /\ Len(InsertAt(s, p, x)) = Len(s) + 1
         /\ \A i \in 1 .. Len(s) + 1 :
              InsertAt(s, p, x)[i] = IF i < p THEN s[i]
                                     ELSE IF i = p THEN x ELSE s[i - 1]
<1> DEFINE a == SubSeq(s, 1, p - 1)
           b == <<x>>
           c == SubSeq(s, p, Len(s))
<1>0. Len(s) \in Nat /\ p \in Nat
  OBVIOUS
<1>1. a \in Seq(T) /\ Len(a) = p - 1 /\ \A i \in 1 .. p - 1 : a[i] = s[i]
  BY <1>0
<1>2. b \in Seq(T) /\ Len(b) = 1 /\ b[1] = x
  OBVIOUS
<1>3. c \in Seq(T) /\ Len(c) = Len(s) - p + 1
        /\ \A i \in 1 .. Len(s) - p + 1 : c[i] = s[p + i - 1]
  BY <1>0
<1>4. InsertAt(s, p, x) = (a \o b) \o c
  BY DEF InsertAt
<1> HIDE DEF a, b, c
<1> DEFINE d == a \o b
<1>5. d \in Seq(T) /\ Len(d) = p
        /\ \A i \in 1 .. p : d[i] = IF i < p THEN a[i] ELSE b[1]
  <2>1. d \in Seq(T) /\ Len(d) = p
    <3>1. d \in Seq(T) /\ Len(d) = Len(a) + Len(b)
      BY <1>1, <1>2, ConcatProperties
    <3> QED
      BY <1>0, <1>1, <1>2, <3>1
  <2>2. ASSUME NEW i \in 1 .. p, i < p PROVE d[i] = a[i]
    BY <1>0, <1>1, <1>2, <2>2
  <2>3. d[p] = b[1]
    <3>1. p \in 1 .. Len(a) + Len(b) /\ ~(p <= Len(a)) /\ p - Len(a) = 1
      BY <1>0, <1>1, <1>2
    <3>2. d[p] = b[p - Len(a)]
      BY <1>1, <1>2, <3>1, ConcatProperties
    <3> QED
      BY <3>1, <3>2
  <2>4. \A i \in 1 .. p : i < p \/ i = p
    BY <1>0
  <2>5. \A i \in 1 .. p : d[i] = IF i < p THEN a[i] ELSE b[1]
    BY <1>0, <2>2, <2>3, <2>4
  <2> QED
    BY <2>1, <2>5
<1>6. InsertAt(s, p, x) = d \o c
  BY <1>4
<1> HIDE DEF d
<1>7. d \o c \in Seq(T) /\ Len(d \o c) = Len(s) + 1
  BY <1>0, <1>3, <1>5
<1>8. ASSUME NEW i \in 1 .. Len(s) + 1
      PROVE  (d \o c)[i] = IF i < p THEN s[i] ELSE IF i = p THEN x ELSE s[i - 1]
  <2>1. CASE i <= p
    <3>1. (d \o c)[i] = d[i]
      BY <1>0, <1>3, <1>5, <2>1
    <3> QED
      BY <1>0, <1>1, <1>2, <1>5, <2>1, <3>1
  <2>2. CASE i > p
    <3>1. i - p \in 1 .. Len(s) - p + 1
      BY <1>0, <2>2
    <3>2. (d \o c)[i] = c[i - p]
      BY <1>0, <1>3, <1>5, <2>2
    <3>3. c[i - p] = s[p + (i - p) - 1] /\ p + (i - p) - 1 = i - 1
      BY <1>0, <1>3, <3>1
    <3> QED
      BY <1>0, <2>2, <3>2, <3>3
  <2> QED
    <3>1. i \in Int /\ p \in Int
      BY <1>0
    <3>2. i <= p \/ i > p
      BY <3>1
    <3> QED
      BY <2>1, <2>2, <3>2
<1> QED
  BY <1>6, <1>7, <1>8

\* How many of a sequence x does not come before.
Behind(s, x) == {i \in DOMAIN s : ~Before(x, s[i])}

\* x has been put in the place after the first c.
Inserted(T, s, x, c) ==
  /\ c \in 0 .. Len(s)
  /\ Insert(s, x) \in Seq(T)
  /\ Len(Insert(s, x)) = Len(s) + 1
  /\ \A i \in 1 .. Len(s) + 1 :
       Insert(s, x)[i] = IF i < c + 1 THEN s[i]
                         ELSE IF i = c + 1 THEN x ELSE s[i - 1]

LEMMA InsertIs ==
  ASSUME NEW T, NEW s \in Seq(T), NEW x \in T
  PROVE  Inserted(T, s, x, Cardinality(Behind(s, x)))
<1> DEFINE c == Cardinality(Behind(s, x))
<1>1. Len(s) \in Nat /\ DOMAIN s = 1 .. Len(s)
  OBVIOUS
<1>2. IsFiniteSet(1 .. Len(s)) /\ Cardinality(1 .. Len(s)) = Len(s)
  <2>1. 1 \in Int /\ Len(s) \in Int
    BY <1>1
  <2>2. /\ IsFiniteSet(1 .. Len(s))
        /\ Cardinality(1 .. Len(s)) = IF 1 > Len(s) THEN 0 ELSE Len(s) - 1 + 1
    BY <2>1, FS_Interval
  <2> QED
    BY <1>1, <2>2
<1>3. Behind(s, x) \in SUBSET (1 .. Len(s))
  BY <1>1 DEF Behind
<1>4. IsFiniteSet(Behind(s, x)) /\ c <= Len(s)
  <2>1. IsFiniteSet(Behind(s, x)) /\ c <= Cardinality(1 .. Len(s))
    BY <1>2, <1>3, FS_Subset
  <2> QED
    BY <1>2, <2>1
<1>5. c \in Nat
  BY <1>4, FS_CardinalityType
<1>6. c \in 0 .. Len(s) /\ c + 1 \in 1 .. Len(s) + 1 /\ 1 + c = c + 1
  BY <1>1, <1>4, <1>5
<1>7. Insert(s, x) = InsertAt(s, c + 1, x)
  <2>1. Insert(s, x) = InsertAt(s, 1 + c, x)
    BY DEF Insert, Quantify, Behind
  <2> QED
    BY <1>6, <2>1
<1> DEFINE p == c + 1
<1>8. p \in 1 .. Len(s) + 1
  BY <1>6
<1> HIDE DEF p
<1>9. /\ InsertAt(s, p, x) \in Seq(T)
      /\ Len(InsertAt(s, p, x)) = Len(s) + 1
      /\ \A i \in 1 .. Len(s) + 1 :
           InsertAt(s, p, x)[i] = IF i < p THEN s[i]
                                  ELSE IF i = p THEN x ELSE s[i - 1]
  BY <1>8, InsertAtIs
<1> QED
  BY <1>6, <1>7, <1>9 DEF p, Inserted

-----------------------------------------------------------------------------
(* The folds of the model, one step after the other.                        *)

\* The list is sorted by inserting one torrent after the other.
LEMMA SortedSteps ==
  ASSUME NEW T, NEW list \in Seq(T)
  PROVE  \E g : /\ g[0] = << >>
                /\ \A k \in 1 .. Len(list) : g[k] = Insert(g[k - 1], list[k])
                /\ Sorted(list) = g[Len(list)]
<1> DEFINE n == Len(list)
           Op(s, k) == Insert(s, list[k])
           F(it) == [s \in SUBSET (1 .. n) |->
                       IF s = {} THEN << >> ELSE Op(it[s \ {Max(s)}], Max(s))]
           iter == CHOOSE it : it = F(it)
           step == [k \in 1 .. n |-> [s \in Seq(T) |-> Op(s, k)]]
           g == [k \in 0 .. n |-> iter[1 .. k]]
<1>1. n \in Nat /\ DOMAIN list = 1 .. n /\ \A k \in 1 .. n : list[k] \in T
  OBVIOUS
<1>2. Sorted(list) = iter[1 .. n]
  BY <1>1 DEF Sorted, FoldLeft, MapThenFoldSet
<1>3. ASSUME NEW k \in 1 .. n, NEW s \in Seq(T) PROVE Op(s, k) \in Seq(T)
  BY <1>1, <1>3, InsertIs DEF Inserted
<1> HIDE DEF Op
<1>4. \E it : it = F(it)
  <2>1. n \in Nat /\ << >> \in Seq(T)
    BY <1>1
  <2>2. step \in [1 .. n -> [Seq(T) -> Seq(T)]]
    BY <1>3
  <2> HIDE DEF step, n
  <2>3. PICK it : IsFold(it, n, Seq(T), << >>, step)
    BY <2>1, <2>2, FoldDefined
  <2>4. /\ it \in [SUBSET (1 .. n) -> Seq(T)]
        /\ \A s \in SUBSET (1 .. n) :
             it[s] = IF s = {} THEN << >> ELSE step[Max(s)][it[s \ {Max(s)}]]
    BY <2>3 DEF IsFold
  <2>5. ASSUME NEW s \in SUBSET (1 .. n), s # {}
        PROVE  step[Max(s)][it[s \ {Max(s)}]] = Op(it[s \ {Max(s)}], Max(s))
    <3>1. Max(s) \in 1 .. n
      BY <2>1, <2>5, MaxBelow
    <3>2. it[s \ {Max(s)}] \in Seq(T)
      BY <2>4
    <3> QED
      BY <3>1, <3>2 DEF step
  <2>6. \A s \in SUBSET (1 .. n) : it[s] = F(it)[s]
    BY <2>4, <2>5
  <2>7. it = F(it)
    BY <2>4, <2>6
  <2> HIDE DEF F
  <2> QED
    BY <2>7
<1>5. iter = F(iter)
  <2> HIDE DEF F
  <2> QED
    BY <1>4
<1> HIDE DEF iter
<1>6. g[0] = << >>
  <2>1. (1 .. 0) = {} /\ {} \in SUBSET (1 .. n)
    OBVIOUS
  <2> QED
    BY <1>1, <1>5, <2>1
<1>7. ASSUME NEW k \in 1 .. n PROVE g[k] = Op(g[k - 1], k)
  <2>1. /\ (1 .. k) \in SUBSET (1 .. n) /\ (1 .. k) # {} /\ Max(1 .. k) = k
        /\ (1 .. k) \ {k} = (1 .. k - 1)
    BY <1>1, UpTo
  <2>2. k \in 0 .. n /\ k - 1 \in 0 .. n
    BY <1>1
  <2>3. iter[1 .. k] = Op(iter[1 .. k - 1], k)
    BY <1>5, <2>1
  <2> QED
    BY <2>2, <2>3
<1>8. Sorted(list) = g[n]
  BY <1>1, <1>2
<1> HIDE DEF g
<1> QED
  BY <1>6, <1>7, <1>8 DEF Op

\* A filter takes one torrent after the other, or leaves it.
LEMMA FilteredSteps ==
  ASSUME NEW T, torrents \in Seq(T), NEW f
  PROVE  \E g : /\ g[0] = << >>
                /\ \A k \in 1 .. Len(torrents) : g[k] =
                       IF Matches(f, torrents[k]) THEN Append(g[k - 1], torrents[k])
                       ELSE g[k - 1]
                /\ filtered(f) = g[Len(torrents)]
<1> DEFINE n == Len(torrents)
           Op(s, k) == IF Matches(f, torrents[k]) THEN Append(s, torrents[k])
                       ELSE s
           F(it) == [s \in SUBSET (1 .. n) |->
                       IF s = {} THEN << >> ELSE Op(it[s \ {Max(s)}], Max(s))]
           iter == CHOOSE it : it = F(it)
           step == [k \in 1 .. n |-> [s \in Seq(T) |-> Op(s, k)]]
           g == [k \in 0 .. n |-> iter[1 .. k]]
<1>1. n \in Nat /\ DOMAIN torrents = 1 .. n /\ \A k \in 1 .. n : torrents[k] \in T
  OBVIOUS
<1>2. filtered(f) = iter[1 .. n]
  BY <1>1 DEF filtered, FoldLeft, MapThenFoldSet
<1>3. ASSUME NEW k \in 1 .. n, NEW s \in Seq(T) PROVE Op(s, k) \in Seq(T)
  BY <1>1, <1>3
<1> HIDE DEF Op
<1>4. \E it : it = F(it)
  <2>1. n \in Nat /\ << >> \in Seq(T)
    BY <1>1
  <2>2. step \in [1 .. n -> [Seq(T) -> Seq(T)]]
    BY <1>3
  <2> HIDE DEF step, n
  <2>3. PICK it : IsFold(it, n, Seq(T), << >>, step)
    BY <2>1, <2>2, FoldDefined
  <2>4. /\ it \in [SUBSET (1 .. n) -> Seq(T)]
        /\ \A s \in SUBSET (1 .. n) :
             it[s] = IF s = {} THEN << >> ELSE step[Max(s)][it[s \ {Max(s)}]]
    BY <2>3 DEF IsFold
  <2>5. ASSUME NEW s \in SUBSET (1 .. n), s # {}
        PROVE  step[Max(s)][it[s \ {Max(s)}]] = Op(it[s \ {Max(s)}], Max(s))
    <3>1. Max(s) \in 1 .. n
      BY <2>1, <2>5, MaxBelow
    <3>2. it[s \ {Max(s)}] \in Seq(T)
      BY <2>4
    <3> QED
      BY <3>1, <3>2 DEF step
  <2>6. \A s \in SUBSET (1 .. n) : it[s] = F(it)[s]
    BY <2>4, <2>5
  <2>7. it = F(it)
    BY <2>4, <2>6
  <2> HIDE DEF F
  <2> QED
    BY <2>7
<1>5. iter = F(iter)
  <2> HIDE DEF F
  <2> QED
    BY <1>4
<1> HIDE DEF iter
<1>6. g[0] = << >>
  <2>1. (1 .. 0) = {} /\ {} \in SUBSET (1 .. n)
    OBVIOUS
  <2> QED
    BY <1>1, <1>5, <2>1
<1>7. ASSUME NEW k \in 1 .. n PROVE g[k] = Op(g[k - 1], k)
  <2>1. /\ (1 .. k) \in SUBSET (1 .. n) /\ (1 .. k) # {} /\ Max(1 .. k) = k
        /\ (1 .. k) \ {k} = (1 .. k - 1)
    BY <1>1, UpTo
  <2>2. k \in 0 .. n /\ k - 1 \in 0 .. n
    BY <1>1
  <2>3. iter[1 .. k] = Op(iter[1 .. k - 1], k)
    BY <1>5, <2>1
  <2> QED
    BY <2>2, <2>3
<1>8. filtered(f) = g[n]
  BY <1>1, <1>2
<1> HIDE DEF g
<1> QED
  BY <1>6, <1>7, <1>8 DEF Op

\* The total adds one torrent's speed after the other's.
LEMMA TotalSteps ==
  ASSUME NEW T, torrents \in Seq(T), \A x \in T : x.down \in Nat
  PROVE  \E g : /\ g[0] = 0
                /\ \A k \in 1 .. Len(torrents) : g[k] = g[k - 1] + torrents[k].down
                /\ totals.down = g[Len(torrents)]
<1> DEFINE n == Len(torrents)
           Op(s, k) == s + torrents[k].down
           F(it) == [s \in SUBSET (1 .. n) |->
                       IF s = {} THEN 0 ELSE Op(it[s \ {Max(s)}], Max(s))]
           iter == CHOOSE it : it = F(it)
           step == [k \in 1 .. n |-> [s \in Nat |-> Op(s, k)]]
           g == [k \in 0 .. n |-> iter[1 .. k]]
<1>1. n \in Nat /\ DOMAIN torrents = 1 .. n /\ \A k \in 1 .. n : torrents[k] \in T
  OBVIOUS
<1>2. totals.down = iter[1 .. n]
  BY <1>1 DEF totals, FoldLeft, MapThenFoldSet
<1>3. ASSUME NEW k \in 1 .. n, NEW s \in Nat PROVE Op(s, k) \in Nat
  BY <1>1, <1>3
<1> HIDE DEF Op
<1>4. \E it : it = F(it)
  <2>1. n \in Nat /\ 0 \in Nat
    BY <1>1
  <2>2. step \in [1 .. n -> [Nat -> Nat]]
    BY <1>3
  <2> HIDE DEF step, n
  <2>3. PICK it : IsFold(it, n, Nat, 0, step)
    BY <2>1, <2>2, FoldDefined
  <2>4. /\ it \in [SUBSET (1 .. n) -> Nat]
        /\ \A s \in SUBSET (1 .. n) :
             it[s] = IF s = {} THEN 0 ELSE step[Max(s)][it[s \ {Max(s)}]]
    BY <2>3 DEF IsFold
  <2>5. ASSUME NEW s \in SUBSET (1 .. n), s # {}
        PROVE  step[Max(s)][it[s \ {Max(s)}]] = Op(it[s \ {Max(s)}], Max(s))
    <3>1. Max(s) \in 1 .. n
      BY <2>1, <2>5, MaxBelow
    <3>2. it[s \ {Max(s)}] \in Nat
      BY <2>4
    <3> QED
      BY <3>1, <3>2 DEF step
  <2>6. \A s \in SUBSET (1 .. n) : it[s] = F(it)[s]
    BY <2>4, <2>5
  <2>7. it = F(it)
    BY <2>4, <2>6
  <2> HIDE DEF F
  <2> QED
    BY <2>7
<1>5. iter = F(iter)
  <2> HIDE DEF F
  <2> QED
    BY <1>4
<1> HIDE DEF iter
<1>6. g[0] = 0
  <2>1. (1 .. 0) = {} /\ {} \in SUBSET (1 .. n)
    OBVIOUS
  <2> QED
    BY <1>1, <1>5, <2>1
<1>7. ASSUME NEW k \in 1 .. n PROVE g[k] = Op(g[k - 1], k)
  <2>1. /\ (1 .. k) \in SUBSET (1 .. n) /\ (1 .. k) # {} /\ Max(1 .. k) = k
        /\ (1 .. k) \ {k} = (1 .. k - 1)
    BY <1>1, UpTo
  <2>2. k \in 0 .. n /\ k - 1 \in 0 .. n
    BY <1>1
  <2>3. iter[1 .. k] = Op(iter[1 .. k - 1], k)
    BY <1>5, <2>1
  <2> QED
    BY <2>2, <2>3
<1>8. totals.down = g[n]
  BY <1>1, <1>2
<1> HIDE DEF g
<1> QED
  BY <1>6, <1>7, <1>8 DEF Op

-----------------------------------------------------------------------------
(* Insertion keeps a list in order.                                         *)

LEMMA UpToCount == ASSUME NEW n \in Nat
                   PROVE  IsFiniteSet(1 .. n) /\ Cardinality(1 .. n) = n
<1>1. 1 \in Int /\ n \in Int
  OBVIOUS
<1>2. /\ IsFiniteSet(1 .. n)
      /\ Cardinality(1 .. n) = IF 1 > n THEN 0 ELSE n - 1 + 1
  BY <1>1, FS_Interval
<1> QED
  BY <1>2

LEMMA InitialSegment ==
  ASSUME NEW n \in Nat, NEW D \in SUBSET (1 .. n),
         \A j \in D : \A i \in 1 .. j : i \in D
  PROVE  D = 1 .. Cardinality(D)
<1>1. CASE D = {}
  <2>1. Cardinality(D) = 0
    BY <1>1, FS_EmptySet
  <2> QED
    BY <1>1, <2>1
<1>2. CASE D # {}
  <2> DEFINE m == Max(D)
  <2>1. m \in D /\ \A y \in D : y <= m
    BY <1>2, MaxBelow
  <2> HIDE DEF m
  <2>2. m \in Nat
    BY <2>1
  <2>3. D = 1 .. m
    <3>1. \A i \in 1 .. m : i \in D
      BY <2>1
    <3>2. \A i \in D : i \in 1 .. m
      BY <2>1, <2>2
    <3> QED
      BY <3>1, <3>2
  <2>4. Cardinality(D) = m
    BY <2>2, <2>3, UpToCount
  <2> QED
    BY <2>3, <2>4
<1> QED
  BY <1>1, <1>2

-----------------------------------------------------------------------------
\* The order of ingest: a strict one in which ties are transitive.
LEMMA RankType == \A x : rank(x) \in 0 .. 2
BY DEF rank

LEMMA BeforeIsOrder ==
  ASSUME NEW x, NEW y, NEW z,
         x.addedAt \in Nat, y.addedAt \in Nat, z.addedAt \in Nat
  PROVE  /\ Before(x, z) => Before(x, y) \/ Before(y, z)
         /\ Before(x, y) => ~Before(y, x)
<1>1. rank(x) \in Nat /\ rank(y) \in Nat /\ rank(z) \in Nat
  BY RankType
<1> QED
  BY <1>1 DEF Before

Ordered(s)  == \A i, j \in DOMAIN s : i < j => ~Before(s[j], s[i])
Distinct(s) == \A i, j \in DOMAIN s : s[i].hash = s[j].hash => i = j

\* In a list that is in order, what x does not come before is its beginning.
LEMMA BehindIs ==
  ASSUME NEW T, \A y \in T : y.addedAt \in Nat,
         NEW s \in Seq(T), NEW x \in T, Ordered(s)
  PROVE  Behind(s, x) = 1 .. Cardinality(Behind(s, x))
<1>1. Len(s) \in Nat /\ DOMAIN s = 1 .. Len(s) /\ \A i \in 1 .. Len(s) : s[i] \in T
  OBVIOUS
<1>2. ASSUME NEW j \in Behind(s, x), NEW i \in 1 .. j PROVE i \in Behind(s, x)
  <2>1. j \in 1 .. Len(s) /\ ~Before(x, s[j])
    BY <1>1 DEF Behind
  <2>2. i \in 1 .. Len(s) /\ (i < j \/ i = j)
    BY <1>1, <2>1
  <2>3. i < j => ~Before(s[j], s[i])
    BY <1>1, <2>1, <2>2 DEF Ordered
  <2>4. i < j /\ Before(x, s[i]) => Before(x, s[j]) \/ Before(s[j], s[i])
    BY <1>1, <2>1, <2>2, BeforeIsOrder
  <2>5. ~Before(x, s[i])
    BY <2>1, <2>2, <2>3, <2>4
  <2> QED
    BY <1>1, <2>2, <2>5 DEF Behind
<1>3. Behind(s, x) \in SUBSET (1 .. Len(s))
  BY <1>1 DEF Behind
<1> QED
  BY <1>1, <1>2, <1>3, InitialSegment

LEMMA InsertKeeps ==
  ASSUME NEW T, \A y \in T : y.addedAt \in Nat,
         NEW s \in Seq(T), NEW x \in T, Ordered(s)
  PROVE  /\ Ordered(Insert(s, x))
         /\ Range(Insert(s, x)) = Range(s) \cup {x}
         /\ Distinct(s) /\ (\A y \in Range(s) : y.hash # x.hash)
              => Distinct(Insert(s, x))
<1> DEFINE c == Cardinality(Behind(s, x))
           n == Len(s)
           t == Insert(s, x)
<1>1. n \in Nat /\ DOMAIN s = 1 .. n /\ \A i \in 1 .. n : s[i] \in T
  OBVIOUS
<1>2. /\ c \in 0 .. n /\ t \in Seq(T) /\ Len(t) = n + 1
      /\ \A i \in 1 .. n + 1 : t[i] = IF i < c + 1 THEN s[i]
                                      ELSE IF i = c + 1 THEN x ELSE s[i - 1]
  <2>1. Inserted(T, s, x, c)
    BY InsertIs
  <2> HIDE DEF c
  <2> QED
    BY <2>1 DEF Inserted
<1>3. DOMAIN t = 1 .. n + 1
  BY <1>2
<1>4. \A i \in 1 .. n : ~Before(x, s[i]) <=> i <= c
  <2>1. Behind(s, x) = 1 .. c
    BY BehindIs
  <2>2. \A i \in 1 .. n : i \in 1 .. c <=> i <= c
    BY <1>1, <1>2
  <2> QED
    BY <1>1, <2>1, <2>2 DEF Behind
<1> HIDE DEF c, n, t
<1>5. c \in Nat /\ c <= n
  BY <1>1, <1>2
\* Where what is in t comes from.
<1>6. ASSUME NEW i \in 1 .. n + 1
      PROVE  \/ i <= c /\ i \in 1 .. n /\ t[i] = s[i]
             \/ i = c + 1 /\ t[i] = x
             \/ i > c + 1 /\ i - 1 \in 1 .. n /\ i - 1 > c /\ t[i] = s[i - 1]
  <2>1. i \in Int /\ 1 <= i /\ i <= n + 1
    BY <1>1
  <2>2. t[i] = IF i < c + 1 THEN s[i] ELSE IF i = c + 1 THEN x ELSE s[i - 1]
    BY <1>2
  <2>3. CASE i <= c
    <3>1. i \in 1 .. n /\ i < c + 1
      BY <1>1, <1>5, <2>1, <2>3
    <3> QED
      BY <2>2, <2>3, <3>1
  <2>4. CASE i = c + 1
    <3>1. ~(i < c + 1)
      BY <1>5, <2>4
    <3> QED
      BY <2>2, <2>4, <3>1
  <2>5. CASE i > c + 1
    <3>1. i - 1 \in 1 .. n /\ i - 1 > c /\ ~(i < c + 1) /\ i # c + 1
      BY <1>1, <1>5, <2>1, <2>5
    <3> QED
      BY <2>2, <2>5, <3>1
  <2> QED
    BY <1>5, <2>1, <2>3, <2>4, <2>5
<1>7. Ordered(t)
  <2> SUFFICES ASSUME NEW i \in 1 .. n + 1, NEW j \in 1 .. n + 1, i < j
               PROVE  ~Before(t[j], t[i])
    BY <1>3 DEF Ordered
  <2>1. \A k, l \in 1 .. n : k < l => ~Before(s[l], s[k])
    BY <1>1 DEF Ordered
  <2>2. i \in Int /\ j \in Int
    OBVIOUS
  <2>3. CASE i = c + 1
    <3>1. j > c + 1
      BY <2>2, <2>3
    <3>2. t[i] = x /\ j - 1 \in 1 .. n /\ j - 1 > c /\ t[j] = s[j - 1]
      BY <1>5, <1>6, <2>2, <2>3, <3>1
    <3>3. Before(x, s[j - 1])
      BY <1>4, <1>5, <3>2
    <3> QED
      BY <1>1, <3>2, <3>3, BeforeIsOrder
  <2>4. CASE j = c + 1
    <3>1. t[j] = x /\ i <= c /\ i \in 1 .. n /\ t[i] = s[i]
      BY <1>5, <1>6, <2>2, <2>4
    <3> QED
      BY <1>4, <3>1
  <2>5. CASE i # c + 1 /\ j # c + 1
    <3>1. PICK k \in 1 .. n : t[i] = s[k] /\ ((i <= c /\ k = i) \/ (i > c + 1 /\ k = i - 1))
      BY <1>6, <2>5
    <3>2. PICK l \in 1 .. n : t[j] = s[l] /\ ((j <= c /\ l = j) \/ (j > c + 1 /\ l = j - 1))
      BY <1>6, <2>5
    <3>3. k < l
      BY <1>5, <2>2, <3>1, <3>2
    <3> QED
      BY <2>1, <3>1, <3>2, <3>3
  <2> QED
    BY <2>3, <2>4, <2>5
<1>8. Range(t) = Range(s) \cup {x}
  <2>1. \A i \in 1 .. n + 1 : t[i] \in Range(s) \cup {x}
    BY <1>1, <1>6 DEF Range
  <2>2. x \in Range(t)
    <3>1. c + 1 \in 1 .. n + 1 /\ c + 1 \in Nat
      BY <1>1, <1>5
    <3>2. t[c + 1] = x
      BY <1>5, <1>6, <3>1
    <3> QED
      BY <1>3, <3>1, <3>2 DEF Range
  <2>3. ASSUME NEW i \in 1 .. n PROVE s[i] \in Range(t)
    <3>1. i \in Int /\ (i <= c \/ i > c)
      BY <1>5
    <3>2. CASE i <= c
      <4>1. i \in 1 .. n + 1 /\ i < c + 1
        BY <1>1, <1>5, <3>2
      <4>2. t[i] = s[i]
        BY <1>2, <4>1
      <4> QED
        BY <1>3, <4>1, <4>2 DEF Range
    <3>3. CASE i > c
      <4>1. i + 1 \in 1 .. n + 1 /\ ~(i + 1 < c + 1) /\ i + 1 # c + 1 /\ i + 1 - 1 = i
        BY <1>1, <1>5, <3>3
      <4>2. t[i + 1] = s[i]
        BY <1>2, <4>1
      <4> QED
        BY <1>3, <4>1, <4>2 DEF Range
    <3> QED
      BY <1>5, <3>2, <3>3
  <2> QED
    BY <1>1, <1>3, <2>1, <2>2, <2>3 DEF Range
<1>9. ASSUME Distinct(s), \A y \in Range(s) : y.hash # x.hash
      PROVE  Distinct(t)
  <2> SUFFICES ASSUME NEW i \in 1 .. n + 1, NEW j \in 1 .. n + 1,
                      t[i].hash = t[j].hash, i # j
               PROVE  FALSE
    BY <1>3 DEF Distinct
  <2>1. \A k \in 1 .. n : s[k].hash # x.hash
    BY <1>1, <1>9 DEF Range
  <2>2. \A k, l \in 1 .. n : s[k].hash = s[l].hash => k = l
    BY <1>1, <1>9 DEF Distinct
  <2>3. i \in Int /\ j \in Int
    OBVIOUS
  <2>4. CASE i = c + 1 \/ j = c + 1
    BY <1>5, <1>6, <2>1, <2>3, <2>4
  <2>5. CASE i # c + 1 /\ j # c + 1
    <3>1. PICK k \in 1 .. n : t[i] = s[k] /\ ((i <= c /\ k = i) \/ (i > c + 1 /\ k = i - 1))
      BY <1>6, <2>5
    <3>2. PICK l \in 1 .. n : t[j] = s[l] /\ ((j <= c /\ l = j) \/ (j > c + 1 /\ l = j - 1))
      BY <1>6, <2>5
    <3>3. k # l
      BY <1>5, <2>3, <3>1, <3>2
    <3> QED
      BY <2>2, <3>1, <3>2, <3>3
  <2> QED
    BY <2>4, <2>5
<1> QED
  BY <1>7, <1>8, <1>9 DEF t

-----------------------------------------------------------------------------
(* What sorting, filtering and adding up come to, by induction on the list. *)

\* What ingest does to a list: the same torrents, in order, each once.
LEMMA SortedIs ==
  ASSUME NEW T, \A y \in T : y.addedAt \in Nat, NEW list \in Seq(T)
  PROVE  /\ Sorted(list) \in Seq(T)
         /\ Ordered(Sorted(list))
         /\ Distinct(list) => Distinct(Sorted(list))
<1> DEFINE n == Len(list)
           First(k) == {list[i] : i \in 1 .. k}
           Good(k, s) == /\ s \in Seq(T)
                         /\ Ordered(s)
                         /\ Range(s) = First(k)
                         /\ Distinct(list) => Distinct(s)
<1>1. PICK g : /\ g[0] = << >>
               /\ \A k \in 1 .. Len(list) : g[k] = Insert(g[k - 1], list[k])
               /\ Sorted(list) = g[Len(list)]
  BY SortedSteps
<1> DEFINE S == {k \in 0 .. n : Good(k, g[k])}
<1>2. n \in Nat /\ DOMAIN list = 1 .. n /\ \A i \in 1 .. n : list[i] \in T
  OBVIOUS
<1>3. 0 \in S
  <2>1. << >> \in Seq(T) /\ DOMAIN << >> = {}
    OBVIOUS
  <2>2. Ordered(<< >>) /\ Distinct(<< >>) /\ Range(<< >>) = {}
    BY <2>1 DEF Ordered, Distinct, Range
  <2>3. First(0) = {}
    OBVIOUS
  <2>4. Good(0, << >>)
    BY <2>1, <2>2, <2>3
  <2> HIDE DEF Good
  <2> QED
    BY <1>1, <1>2, <2>4
<1>4. ASSUME NEW k \in 0 .. n - 1, k \in S PROVE k + 1 \in S
  <2> DEFINE x == list[k + 1]
             s == g[k]
  <2>1. k + 1 \in 1 .. n /\ k + 1 - 1 = k /\ k + 1 \in 0 .. n /\ k \in Nat
    BY <1>2
  <2>2. g[k + 1] = Insert(s, x) /\ x \in T
    BY <1>1, <1>2, <2>1
  <2>3. Good(k, s)
    BY <1>4
  <2> HIDE DEF x, s
  <2>4. s \in Seq(T) /\ Ordered(s) /\ Range(s) = First(k)
    BY <2>3
  <2>5. Insert(s, x) \in Seq(T)
    BY <2>2, <2>4, InsertIs DEF Inserted
  <2>6. /\ Ordered(Insert(s, x))
        /\ Range(Insert(s, x)) = Range(s) \cup {x}
        /\ Distinct(s) /\ (\A y \in Range(s) : y.hash # x.hash)
             => Distinct(Insert(s, x))
    BY <2>2, <2>4, InsertKeeps
  <2>7. First(k + 1) = First(k) \cup {x}
    <3>1. \A i \in 1 .. k + 1 : i \in 1 .. k \/ i = k + 1
      BY <2>1
    <3>2. \A i \in 1 .. k : i \in 1 .. k + 1
      BY <2>1
    <3>3. k + 1 \in 1 .. k + 1
      BY <2>1
    <3> QED
      BY <3>1, <3>2, <3>3 DEF x
  <2>8. Distinct(list) => \A y \in First(k) : y.hash # x.hash
    <3> SUFFICES ASSUME Distinct(list), NEW i \in 1 .. k
                 PROVE  list[i].hash # x.hash
      OBVIOUS
    <3>1. i \in 1 .. n /\ i # k + 1
      BY <2>1
    <3> QED
      BY <1>2, <2>1, <3>1 DEF Distinct, x
  <2>9. Good(k + 1, Insert(s, x))
    BY <2>3, <2>4, <2>5, <2>6, <2>7, <2>8
  <2> HIDE DEF Good
  <2> QED
    BY <2>1, <2>2, <2>9
<1> HIDE DEF S
<1>5. 0 .. n \subseteq S
  BY <1>2, <1>3, <1>4, Induct
<1>6. n \in S
  BY <1>2, <1>5
<1>7. Good(n, g[n])
  BY <1>6 DEF S
<1> QED
  BY <1>1, <1>7

\* What a filter shows: the torrents it matches, as many as there are.
Kept(f, k) == {i \in 1 .. k : Matches(f, torrents[i])}

LEMMA KeptStep ==
  ASSUME NEW f, NEW k \in Nat
  PROVE  /\ IsFiniteSet(Kept(f, k)) /\ Cardinality(Kept(f, k)) \in Nat
         /\ IF Matches(f, torrents[k + 1])
            THEN /\ Kept(f, k + 1) = Kept(f, k) \cup {k + 1}
                 /\ Cardinality(Kept(f, k + 1)) = Cardinality(Kept(f, k)) + 1
            ELSE Kept(f, k + 1) = Kept(f, k)
<1>1. Kept(f, k) \in SUBSET (1 .. k)
  BY DEF Kept
<1>2. IsFiniteSet(Kept(f, k))
  BY <1>1, UpToCount, FS_Subset
<1>3. Cardinality(Kept(f, k)) \in Nat
  BY <1>2, FS_CardinalityType
<1>4. \A i : i \in 1 .. k + 1 <=> i \in 1 .. k \/ i = k + 1
  OBVIOUS
<1>5. CASE Matches(f, torrents[k + 1])
  <2>1. Kept(f, k + 1) = Kept(f, k) \cup {k + 1}
    BY <1>4, <1>5 DEF Kept
  <2>2. k + 1 \notin Kept(f, k)
    BY <1>1
  <2>3. Cardinality(Kept(f, k) \cup {k + 1}) = Cardinality(Kept(f, k)) + 1
    BY <1>2, <2>2, FS_AddElement
  <2> QED
    BY <1>2, <1>3, <1>5, <2>1, <2>3
<1>6. CASE ~Matches(f, torrents[k + 1])
  <2>1. Kept(f, k + 1) = Kept(f, k)
    BY <1>4, <1>6 DEF Kept
  <2> QED
    BY <1>2, <1>3, <1>6, <2>1
<1> QED
  BY <1>5, <1>6

LEMMA FilteredIs ==
  ASSUME NEW T, torrents \in Seq(T), NEW f
  PROVE  /\ filtered(f) \in Seq(T)
         /\ Len(filtered(f)) = Cardinality(Kept(f, Len(torrents)))
         /\ Range(filtered(f)) = {torrents[i] : i \in Kept(f, Len(torrents))}
<1> DEFINE n == Len(torrents)
           Shown(k) == {torrents[i] : i \in Kept(f, k)}
           Good(k, s) == /\ s \in Seq(T)
                         /\ Len(s) = Cardinality(Kept(f, k))
                         /\ Range(s) = Shown(k)
<1>1. PICK g : /\ g[0] = << >>
               /\ \A k \in 1 .. Len(torrents) : g[k] =
                    IF Matches(f, torrents[k]) THEN Append(g[k - 1], torrents[k])
                    ELSE g[k - 1]
               /\ filtered(f) = g[Len(torrents)]
  BY FilteredSteps
<1> DEFINE S == {k \in 0 .. n : Good(k, g[k])}
<1>2. n \in Nat /\ \A i \in 1 .. n : torrents[i] \in T
  OBVIOUS
<1>3. 0 \in S
  <2>1. Kept(f, 0) = {}
    BY DEF Kept
  <2>2. Cardinality({}) = 0
    BY FS_EmptySet
  <2>3. << >> \in Seq(T) /\ Len(<< >>) = 0 /\ DOMAIN << >> = {}
    OBVIOUS
  <2>4. Range(<< >>) = {}
    BY <2>3 DEF Range
  <2>5. Shown(0) = {}
    BY <2>1
  <2>6. Good(0, << >>)
    BY <2>1, <2>2, <2>3, <2>4, <2>5
  <2> HIDE DEF Good
  <2> QED
    BY <1>1, <1>2, <2>6
<1>4. ASSUME NEW k \in 0 .. n - 1, k \in S PROVE k + 1 \in S
  <2> DEFINE x == torrents[k + 1]
             s == g[k]
  <2>1. k + 1 \in 1 .. n /\ k + 1 - 1 = k /\ k + 1 \in 0 .. n /\ k \in Nat
    BY <1>2
  <2>2. g[k + 1] = (IF Matches(f, x) THEN Append(s, x) ELSE s) /\ x \in T
    BY <1>1, <1>2, <2>1
  <2>3. Good(k, s)
    BY <1>4
  <2>4. x = torrents[k + 1]
    OBVIOUS
  <2> HIDE DEF x, s
  <2>5. CASE Matches(f, x)
    <3> DEFINE t == Append(s, x)
    <3>1. t \in Seq(T) /\ Len(t) = Len(s) + 1
      BY <2>2, <2>3
    <3>2. /\ \A i \in 1 .. Len(s) : t[i] = s[i]
          /\ t[Len(s) + 1] = x
      BY <2>2, <2>3
    <3>3. Kept(f, k + 1) = Kept(f, k) \cup {k + 1}
          /\ Cardinality(Kept(f, k + 1)) = Cardinality(Kept(f, k)) + 1
      BY <2>1, <2>4, <2>5, KeptStep
    <3>4. Range(t) = Range(s) \cup {x}
      <4>1. Len(s) \in Nat /\ DOMAIN s = 1 .. Len(s) /\ DOMAIN t = 1 .. Len(s) + 1
        BY <2>3, <3>1
      <4> HIDE DEF t
      <4>2. \A i : i \in 1 .. Len(s) + 1 <=> i \in 1 .. Len(s) \/ i = Len(s) + 1
        BY <4>1
      <4> QED
        BY <3>2, <4>1, <4>2 DEF Range
    <3>5. Shown(k + 1) = Shown(k) \cup {x}
      BY <2>4, <3>3
    <3> HIDE DEF t, Shown
    <3>6. Good(k + 1, t)
      BY <2>3, <3>1, <3>3, <3>4, <3>5
    <3>7. g[k + 1] = t
      BY <2>2, <2>5 DEF t
    <3> HIDE DEF Good
    <3> QED
      BY <2>1, <3>6, <3>7
  <2>6. CASE ~Matches(f, x)
    <3>1. Kept(f, k + 1) = Kept(f, k)
      BY <2>1, <2>4, <2>6, KeptStep
    <3>2. g[k + 1] = s
      BY <2>2, <2>6
    <3> QED
      BY <2>1, <2>3, <3>1, <3>2
  <2> QED
    BY <2>5, <2>6
<1> HIDE DEF S
<1>5. 0 .. n \subseteq S
  BY <1>2, <1>3, <1>4, Induct
<1>6. n \in S
  BY <1>2, <1>5
<1>7. Good(n, g[n])
  BY <1>6 DEF S
<1> QED
  BY <1>1, <1>7

\* The total is no less than any part of it.
LEMMA TotalIs ==
  ASSUME NEW T, torrents \in Seq(T), \A x \in T : x.down \in Nat
  PROVE  /\ totals.down \in Nat
         /\ \A i \in 1 .. Len(torrents) : torrents[i].down <= totals.down
<1> DEFINE n == Len(torrents)
           Good(k, m) == m \in Nat /\ \A i \in 1 .. k : torrents[i].down <= m
<1>1. PICK g : /\ g[0] = 0
               /\ \A k \in 1 .. Len(torrents) : g[k] = g[k - 1] + torrents[k].down
               /\ totals.down = g[Len(torrents)]
  BY TotalSteps
<1> DEFINE S == {k \in 0 .. n : Good(k, g[k])}
<1>2. n \in Nat /\ \A i \in 1 .. n : torrents[i] \in T
  OBVIOUS
<1>3. 0 \in S
  BY <1>1, <1>2
<1>4. ASSUME NEW k \in 0 .. n - 1, k \in S PROVE k + 1 \in S
  <2>1. k + 1 \in 1 .. n /\ k + 1 - 1 = k /\ k + 1 \in 0 .. n /\ k \in Nat
    BY <1>2
  <2>2. g[k] \in Nat /\ \A i \in 1 .. k : torrents[i].down <= g[k]
    BY <1>4
  <2>3. g[k + 1] = g[k] + torrents[k + 1].down /\ torrents[k + 1].down \in Nat
    BY <1>1, <1>2, <2>1
  <2>4. \A i \in 1 .. n : torrents[i].down \in Nat
    BY <1>2
  <2>5. ASSUME NEW i \in 1 .. k + 1 PROVE torrents[i].down <= g[k + 1]
    <3>1. CASE i = k + 1
      BY <2>2, <2>3, <3>1
    <3>2. CASE i # k + 1
      <4>1. i \in 1 .. k /\ i \in 1 .. n
        BY <1>2, <2>1, <3>2
      <4> QED
        BY <2>2, <2>3, <2>4, <4>1
    <3> QED
      BY <3>1, <3>2
  <2> QED
    BY <2>1, <2>2, <2>3, <2>5
<1> HIDE DEF S
<1>5. 0 .. n \subseteq S
  BY <1>2, <1>3, <1>4, Induct
<1>6. n \in S
  BY <1>2, <1>5
<1>7. Good(n, g[n])
  BY <1>6 DEF S
<1> QED
  BY <1>1, <1>7

-----------------------------------------------------------------------------
(* What the page says of a list.                                            *)

LEMMA InfoTypes ==
  ASSUME NEW x \in Infos
  PROVE  /\ x.hash \in Hashes /\ x.kind \in {"stream", "seeding"}
         /\ x.private \in BOOLEAN /\ x.addedAt \in Nat /\ x.progress \in Nat
         /\ x.targetRatio \in Nat /\ x.targetMin \in Nat /\ x.elapsedMin \in Nat
         /\ x.down \in Nat /\ x.files \in Seq(BOOLEAN)
<1>1. x \in Info
  BY LibraryAssumption
<1>2. /\ x.hash \in Hashes /\ x.kind \in {"stream", "seeding"}
      /\ x.addedAt \in Nat /\ x.progress \in 0 .. 1000 /\ x.down \in Nat
  BY <1>1 DEF Info
<1>3. /\ x.targetRatio \in Nat /\ x.targetMin \in Nat /\ x.elapsedMin \in Nat
      /\ x.files \in Seq(BOOLEAN)
  BY <1>1 DEF Info
<1>4. x.private \in BOOLEAN
  BY <1>1 DEF Info
<1>5. x.progress \in Nat
  BY <1>2
<1> QED
  BY <1>2, <1>3, <1>4, <1>5

LEMMA FileOfIs ==
  ASSUME NEW x \in Infos
  PROVE  /\ FileOf(x) \in Nat
         /\ {i \in DOMAIN x.files : x.files[i]} # {}
              => FileOf(x) \in {i \in DOMAIN x.files : x.files[i]}
<1> DEFINE s == x.files
           P == {i \in 1 .. Len(s) : s[i]}
           playable == SelectInSeq(x.files, LAMBDA f : f)
<1>1. s \in Seq(BOOLEAN) /\ DOMAIN s = 1 .. Len(s) /\ Len(s) \in Nat
  BY InfoTypes
<1>2. playable = IF P # {} THEN Min(P) ELSE 0
  BY DEF SelectInSeq
<1>3. FileOf(x) = IF playable # 0 THEN playable ELSE IF s = << >> THEN 0 ELSE 1
  BY DEF FileOf
<1>4. {i \in DOMAIN x.files : x.files[i]} = P
  BY <1>1
<1> HIDE DEF s, playable
<1>5. CASE P # {}
  <2>1. P \in SUBSET Nat
    BY <1>1
  <2> HIDE DEF P
  <2>2. PICK n \in P : \A m \in P : n <= m
    BY <1>5, <2>1, Least
  <2>3. Min(P) \in P
    BY <2>2 DEF Min
  <2>4. Min(P) # 0 /\ Min(P) \in Nat
    BY <1>1, <2>3 DEF P
  <2> QED
    BY <1>2, <1>3, <1>4, <1>5, <2>3, <2>4
<1>6. CASE P = {}
  BY <1>2, <1>3, <1>4, <1>6
<1> QED
  BY <1>5, <1>6

\* The engine lists each torrent once, and so does the page, in order.
LEMMA IngestedAre ==
  ASSUME NEW t \in Ingested
  PROVE  t \in Seq(Infos) /\ Ordered(t) /\ Distinct(t)
<1>1. PICK list \in Snapshots : t = Sorted(list)
  BY DEF Ingested
<1>2. PICK S \in Snapshot : list \in SetToSeqs(S)
  BY <1>1 DEF Snapshots
<1>3. /\ list \in [1 .. Cardinality(S) -> S]
      /\ \A i, j \in 1 .. Cardinality(S) : i # j => list[i] # list[j]
  BY <1>2 DEF SetToSeqs
<1>4. /\ S \subseteq Infos /\ IsFiniteSet(S)
      /\ \A x, y \in S : x.hash = y.hash => x = y
  BY DEF Snapshot
<1>5. Cardinality(S) \in Nat
  BY <1>4, FS_CardinalityType
<1>6. list \in Seq(Infos)
  BY <1>3, <1>4, <1>5
<1>7. Distinct(list)
  BY <1>3, <1>4 DEF Distinct
<1>8. \A x \in Infos : x.addedAt \in Nat
  BY InfoTypes
<1> QED
  BY <1>1, <1>6, <1>7, <1>8, SortedIs

-----------------------------------------------------------------------------
\* What is said of the list in different places, if it is one in order.
Listed == torrents \in Seq(Infos) /\ Ordered(torrents) /\ Distinct(torrents)

LEMMA ShowsMonotone ==
  ASSUME NEW a \in Nat, NEW b \in Nat, a <= b
  PROVE  Shows(fmtSpeed(a)) <= Shows(fmtSpeed(b))
BY DEF fmtSpeed, Shows

LEMMA Part ==
  ASSUME Listed, NEW f, NEW g,
         \A x \in Infos : Matches(f, x) <=> ~Matches(g, x)
  PROVE  Cardinality(Kept(f, Len(torrents))) + Cardinality(Kept(g, Len(torrents)))
           = Len(torrents)
<1> DEFINE n == Len(torrents)
           F == Kept(f, n)
           G == Kept(g, n)
<1>1. n \in Nat /\ \A i \in 1 .. n : torrents[i] \in Infos
  BY DEF Listed
<1>2. IsFiniteSet(F) /\ IsFiniteSet(G) /\ Cardinality(F) \in Nat /\ Cardinality(G) \in Nat
  BY <1>1, KeptStep
<1>3. F \cup G = 1 .. n /\ F \cap G = {}
  BY <1>1 DEF Kept
<1> HIDE DEF F, G, n
<1>4. Cardinality(F \cup G) = Cardinality(F) + Cardinality(G) - Cardinality(F \cap G)
  BY <1>2, FS_Union
<1>5. Cardinality(F \cap G) = 0
  BY <1>3, FS_EmptySet
<1>6. Cardinality(F \cup G) = n
  BY <1>1, <1>3, UpToCount
<1>7. Cardinality(F) + Cardinality(G) = n
  BY <1>2, <1>4, <1>5, <1>6
<1> QED
  BY <1>7 DEF F, G, n

LEMMA CountsAre ==
  ASSUME Listed, NEW f \in Filters
  PROVE  counts[f] = Len(filtered(f)) /\ counts[f] = Cardinality(Kept(f, Len(torrents)))
<1> DEFINE n == Len(torrents)
<1>1. n \in Nat /\ DOMAIN torrents = 1 .. n /\ torrents \in Seq(Infos)
  BY DEF Listed
<1>2. /\ counts["all"] = n
      /\ counts["streaming"] = Cardinality({i \in 1 .. n : torrents[i].kind = "stream"})
      /\ counts["sharing"] = Cardinality({i \in 1 .. n : torrents[i].kind = "seeding"})
      /\ counts["downloading"] = Cardinality({i \in 1 .. n : torrents[i].progress < 999})
      /\ counts["completed"] = Cardinality({i \in 1 .. n : torrents[i].progress >= 999})
  BY <1>1 DEF counts, Quantify
<1>3. /\ Kept("all", n) = 1 .. n
      /\ Kept("streaming", n) = {i \in 1 .. n : torrents[i].kind = "stream"}
      /\ Kept("sharing", n) = {i \in 1 .. n : torrents[i].kind = "seeding"}
      /\ Kept("downloading", n) = {i \in 1 .. n : torrents[i].progress < 999}
      /\ Kept("completed", n) = {i \in 1 .. n : torrents[i].progress >= 999}
  BY DEF Kept, Matches
<1>4. Cardinality(1 .. n) = n
  BY <1>1, UpToCount
<1>5. f \in {"all", "streaming", "sharing", "downloading", "completed"}
  BY DEF Filters
<1> HIDE DEF n
<1>6. counts[f] = Cardinality(Kept(f, n))
  <2>1. CASE f = "all"
    BY <1>2, <1>3, <1>4, <2>1
  <2>2. CASE f = "streaming"
    BY <1>2, <1>3, <2>2
  <2>3. CASE f = "sharing"
    BY <1>2, <1>3, <2>3
  <2>4. CASE f = "downloading"
    BY <1>2, <1>3, <2>4
  <2>5. CASE f = "completed"
    BY <1>2, <1>3, <2>5
  <2> QED
    BY <1>5, <2>1, <2>2, <2>3, <2>4, <2>5
<1>7. Len(filtered(f)) = Cardinality(Kept(f, n))
  BY <1>1, FilteredIs DEF n
<1> QED
  BY <1>6, <1>7 DEF n

LEMMA SidebarIs == ASSUME Listed PROVE SidebarAgrees
<1>1. \A f \in Filters : counts[f] = Len(filtered(f))
  BY CountsAre
<1>2. \A x \in Infos : Matches("streaming", x) <=> ~Matches("sharing", x)
  BY InfoTypes DEF Matches
<1>3. \A x \in Infos : Matches("downloading", x) <=> ~Matches("completed", x)
  BY InfoTypes DEF Matches
<1>4. /\ counts["streaming"] = Cardinality(Kept("streaming", Len(torrents)))
      /\ counts["sharing"] = Cardinality(Kept("sharing", Len(torrents)))
      /\ counts["downloading"] = Cardinality(Kept("downloading", Len(torrents)))
      /\ counts["completed"] = Cardinality(Kept("completed", Len(torrents)))
  BY CountsAre DEF Filters
<1>5. counts["all"] = Len(torrents) /\ StatusBar.count = Len(torrents)
  BY DEF counts, StatusBar, totals
<1>6. counts["streaming"] + counts["sharing"] = Len(torrents)
  BY <1>2, <1>4, Part
<1>7. counts["downloading"] + counts["completed"] = Len(torrents)
  BY <1>3, <1>4, Part
<1> QED
  BY <1>1, <1>5, <1>6, <1>7 DEF SidebarAgrees

LEMMA LeftIs == ASSUME Listed PROVE LeftAgrees
<1> SUFFICES ASSUME NEW i \in DOMAIN torrents
             PROVE  LET x == torrents[i] IN
                      /\ seedLeft(x) = "pending" => x \in Range(filtered("downloading"))
                      /\ seedLeft(x) \in {"done", "minutes"}
                           => x \in Range(filtered("completed"))
  BY DEF LeftAgrees
<1> DEFINE x == torrents[i]
<1>1. i \in 1 .. Len(torrents) /\ x \in Infos /\ torrents \in Seq(Infos)
  BY DEF Listed
<1>2. \A f : Matches(f, x) => x \in Range(filtered(f))
  BY <1>1, FilteredIs DEF Kept
<1>3. seedLeft(x) = "pending" => Matches("downloading", x)
  BY DEF seedLeft, Matches
<1>4. seedLeft(x) \in {"done", "minutes"} => Matches("completed", x)
  BY <1>1, InfoTypes DEF seedLeft, Matches
<1> QED
  BY <1>2, <1>3, <1>4

\* A row is the row of a torrent of the list.
LEMMA RowOf ==
  ASSUME Listed, NEW i \in DOMAIN Rows
  PROVE  \E k \in 1 .. Len(torrents) :
           /\ Rows[i] \in {TableRow(torrents[k]), TorrentCard(torrents[k])}
           /\ Rows[i].row = Row(torrents[k])
<1> DEFINE list == filtered(filter)
<1>1. torrents \in Seq(Infos)
  BY DEF Listed
<1>2. i \in DOMAIN list /\ Rows[i] = IF desktop THEN TableRow(list[i]) ELSE TorrentCard(list[i])
  BY DEF Rows
<1>3. list[i] \in Range(list)
  BY <1>2 DEF Range
<1>4. PICK k \in Kept(filter, Len(torrents)) : list[i] = torrents[k]
  BY <1>1, <1>3, FilteredIs
<1>5. k \in 1 .. Len(torrents)
  BY DEF Kept
<1> HIDE DEF list
<1>6. TableRow(torrents[k]).row = Row(torrents[k])
      /\ TorrentCard(torrents[k]).row = Row(torrents[k])
  BY DEF TableRow, TorrentCard
<1> QED
  BY <1>2, <1>4, <1>5, <1>6

LEMMA TotalShown == ASSUME Listed PROVE TotalAgrees
<1> SUFFICES ASSUME NEW i \in DOMAIN Rows
             PROVE  Shows(Rows[i].row.down) <= Shows(StatusBar.down)
  BY DEF TotalAgrees
<1>1. PICK k \in 1 .. Len(torrents) : Rows[i].row = Row(torrents[k])
  BY RowOf
<1>2. torrents \in Seq(Infos) /\ torrents[k] \in Infos
  BY DEF Listed
<1>3. Rows[i].row.down = fmtSpeed(torrents[k].down)
  BY <1>1 DEF Row
<1>4. \A x \in Infos : x.down \in Nat
  BY InfoTypes
<1>5. totals.down \in Nat /\ torrents[k].down <= totals.down
  BY <1>2, <1>4, TotalIs
<1>6. torrents[k].down \in Nat
  BY <1>2, <1>4
<1>7. StatusBar.down = fmtSpeed(totals.down)
  BY DEF StatusBar
<1> QED
  BY <1>3, <1>5, <1>6, <1>7, ShowsMonotone

LEMMA DetailIs == ASSUME Listed PROVE DetailAgrees
<1> SUFFICES ASSUME NEW x \in Sel
             PROVE  /\ (seedLeft(x) = "-") <=> (targets(x) = {})
                    /\ Detail(x).copies # {} => FileOf(x) \in Detail(x).copies
                    /\ \A i \in DOMAIN Rows :
                         Rows[i].row.selected => Rows[i] \in {TableRow(x), TorrentCard(x)}
  BY DEF DetailAgrees
<1>1. PICK j \in DOMAIN torrents : x = torrents[j] /\ x.hash = selected
  BY DEF Sel
<1>2. x \in Infos /\ DOMAIN torrents = 1 .. Len(torrents)
  BY <1>1 DEF Listed
<1>3. (seedLeft(x) = "-") <=> (targets(x) = {})
  BY <1>2, InfoTypes DEF seedLeft, targets
<1>4. Detail(x).copies # {} => FileOf(x) \in Detail(x).copies
  <2>1. Detail(x).copies = {i \in DOMAIN x.files : x.files[i]}
    BY DEF Detail
  <2> QED
    BY <1>2, <2>1, FileOfIs
<1>5. ASSUME NEW i \in DOMAIN Rows, Rows[i].row.selected
      PROVE  Rows[i] \in {TableRow(x), TorrentCard(x)}
  <2>1. PICK k \in 1 .. Len(torrents) :
          /\ Rows[i] \in {TableRow(torrents[k]), TorrentCard(torrents[k])}
          /\ Rows[i].row = Row(torrents[k])
    BY RowOf
  <2>2. selected = torrents[k].hash
    <3>1. Row(torrents[k]).selected <=> selected = torrents[k].hash
      BY DEF Row
    <3> QED
      BY <1>5, <2>1, <3>1
  <2>3. k = j
    BY <1>1, <1>2, <2>2 DEF Listed, Distinct
  <2> QED
    BY <1>1, <2>1, <2>3
<1> QED
  BY <1>3, <1>4, <1>5

LEMMA ListedCoherent == ASSUME Listed PROVE Coherent
<1>1. RowsOrdered
  BY DEF Listed, Ordered, RowsOrdered
<1> QED
  BY <1>1, SidebarIs, LeftIs, TotalShown, DetailIs DEF Coherent

-----------------------------------------------------------------------------
(* The page always has such a list.                                         *)

LInv == TypeOK /\ Listed

\* What each action leaves: the list, the page, its components, its requests.
ListOK == torrents \in Seq(Infos) /\ Listed
PageOK == /\ view \in {"library", "rules", "settings"} /\ filter \in Filters
          /\ selected \in Hashes \cup {None} /\ sidebarOpen \in BOOLEAN
          /\ link \in BOOLEAN /\ adding \in BOOLEAN
          /\ wide \in BOOLEAN /\ desktop \in BOOLEAN
          /\ hook \in {"rendered", "listening"} /\ change \in BOOLEAN
ComponentsOK == /\ popup \in Popups /\ tab \in TabNames
                /\ aim \in Hashes \cup {None}
SentOK == sent \in [op : Ops \cup {"add", "list", None},
                    hash : Hashes \cup {None}, file : Nat]

LEMMA InvParts == LInv <=> ListOK /\ PageOK /\ ComponentsOK /\ SentOK
BY DEF LInv, TypeOK, ListOK, PageOK, ComponentsOK, SentOK, Listed

LEMMA InvPartsNext ==
  ASSUME ListOK', PageOK', ComponentsOK', SentOK'
  PROVE  LInv'
BY DEF LInv, TypeOK, ListOK, PageOK, ComponentsOK, SentOK

LEMMA RenderTypes ==
  ASSUME ComponentsOK, NEW p \in Popups, NEW t \in TabNames, Render(p, t)
  PROVE  ComponentsOK'
<1>1. "general" \in TabNames
  BY LibraryAssumption
<1>2. p # NoPopup => p.hash \in Hashes
  BY DEF Popups
<1>3. popup' \in Popups /\ (popup' = NoPopup \/ popup' = p)
  BY DEF Render, Popups
<1>4. tab' \in TabNames
  BY <1>1 DEF Render, ComponentsOK
<1>5. aim' \in Hashes \cup {None}
  BY <1>2, <1>3 DEF Render, ComponentsOK
<1> QED
  BY <1>3, <1>4, <1>5 DEF ComponentsOK

LEMMA NoPopupIn == NoPopup \in Popups
BY DEF Popups

LEMMA SilentTypes == Silent => SentOK'
BY DEF Silent, SentOK, NoRequest

LEMMA AskTypes ==
  ASSUME NEW op \in Ops, NEW x \in Infos, Ask(op, x)
  PROVE  SentOK'
<1>1. x.hash \in Hashes /\ FileOf(x) \in Nat
  BY InfoTypes, FileOfIs
<1> QED
  BY <1>1 DEF Ask, Request, NoRequest, SentOK

LEMMA RangeIn == ListOK => Range(torrents) \subseteq Infos /\ Sel \subseteq Infos
BY DEF ListOK, Range, Sel

LEMMA RowsUpIn == ListOK => RowsUp \subseteq Hashes
BY RangeIn, InfoTypes DEF RowsUp

\* The list stays as it is but for ingest and Reload.
LEMMA ListStep == ListOK /\ UNCHANGED torrents => ListOK'
BY DEF ListOK, Listed, Ordered, Distinct

LEMMA ClickTypes ==
  ASSUME ListOK, PageOK, ComponentsOK,
         NEW v \in {"library", "rules", "settings"}, NEW f \in Filters,
         NEW s \in Hashes \cup {None}, NEW open \in BOOLEAN, Click(v, f, s, open)
  PROVE  ListOK' /\ PageOK' /\ ComponentsOK'
<1>1. ListOK'
  BY ListStep DEF Click
<1>2. PageOK'
  BY DEF Click, PageOK, boxvars, mediavars
<1>3. ComponentsOK'
  BY NoPopupIn, RenderTypes DEF Click, ComponentsOK
<1> QED
  BY <1>1, <1>2, <1>3

LEMMA LInvStep == LInv /\ [Next]_vars => LInv'
<1> SUFFICES ASSUME LInv, [Next]_vars PROVE LInv'
  OBVIOUS
<1> DEFINE Goal == ListOK' /\ PageOK' /\ ComponentsOK' /\ SentOK'
<1>1. ListOK /\ PageOK /\ ComponentsOK /\ SentOK
  BY InvParts
<1> SUFFICES Goal
  BY InvPartsNext
<1>2. popup \in Popups /\ tab \in TabNames /\ "general" \in TabNames
  BY <1>1, LibraryAssumption DEF ComponentsOK
<1>3. /\ view \in {"library", "rules", "settings"} /\ filter \in Filters
      /\ selected \in Hashes \cup {None} /\ sidebarOpen \in BOOLEAN
      /\ desktop \in BOOLEAN /\ StillOpen \in BOOLEAN
  BY <1>1 DEF PageOK, StillOpen
<1>4. CASE UNCHANGED vars
  <2>1. ListOK'
    BY <1>1, <1>4, ListStep DEF vars
  <2>2. PageOK'
    BY <1>1, <1>4 DEF vars, uivars, boxvars, mediavars, PageOK
  <2>3. ComponentsOK' /\ SentOK'
    BY <1>1, <1>4 DEF vars, ComponentsOK, SentOK
  <2> QED
    BY <2>1, <2>2, <2>3
<1>5. CASE ingest
  <2>1. ListOK'
    BY <1>5, IngestedAre DEF ingest, ListOK, Listed, Ordered, Distinct
  <2>2. PageOK'
    BY <1>1, <1>5 DEF ingest, PageOK, uivars, boxvars, mediavars
  <2>3. ComponentsOK' /\ SentOK'
    BY <1>1, <1>5, <1>2, RenderTypes, SilentTypes DEF ingest
  <2> QED
    BY <2>1, <2>2, <2>3
<1>6. CASE Resize \/ Effect \/ onChange
  <2>1. ListOK'
    BY <1>1, <1>6, ListStep DEF Resize, Effect, onChange
  <2>2. PageOK'
    BY <1>1, <1>6 DEF Resize, Effect, onChange, PageOK, uivars, boxvars
  <2>3. ComponentsOK' /\ SentOK'
    BY <1>1, <1>6, <1>2, RenderTypes, SilentTypes DEF Resize, Effect, onChange
  <2> QED
    BY <2>1, <2>2, <2>3
<1>7. CASE Reload
  <2>1. ListOK'
    <3>1. << >> \in Seq(Infos) /\ DOMAIN << >> = {}
      OBVIOUS
    <3> QED
      BY <1>7, <3>1 DEF Reload, ListOK, Listed, Ordered, Distinct
  <2>2. PageOK'
    BY <1>1, <1>7 DEF Reload, PageOK, Filters
  <2>3. ComponentsOK' /\ SentOK'
    BY <1>7, <1>2, NoPopupIn DEF Reload, ComponentsOK, SentOK, NoRequest
  <2> QED
    BY <2>1, <2>2, <2>3
<1>8. ASSUME NEW v \in {"library", "rules", "settings"}, onView(v) PROVE Goal
  BY <1>1, <1>8, <1>3, ClickTypes, SilentTypes DEF onView
<1>9. ASSUME NEW f \in Filters, onFilter(f) PROVE Goal
  BY <1>1, <1>9, <1>3, ClickTypes, SilentTypes DEF onFilter
<1>10. CASE OpenSidebar \/ CloseSidebar \/ CloseDetail
  BY <1>1, <1>10, <1>3, ClickTypes, SilentTypes DEF OpenSidebar, CloseSidebar, CloseDetail
<1>11. CASE Dismiss
  <2>1. ListOK'
    BY <1>1, <1>11, ListStep DEF Dismiss
  <2>2. PageOK'
    BY <1>1, <1>11 DEF Dismiss, PageOK, uivars, boxvars, mediavars
  <2>3. ComponentsOK' /\ SentOK'
    BY <1>1, <1>11, <1>2, NoPopupIn, RenderTypes, SilentTypes DEF Dismiss
  <2> QED
    BY <2>1, <2>2, <2>3
<1>12. ASSUME NEW h \in Hashes, User(h) PROVE Goal
  <2>1. CASE onSelect(h)
    BY <1>1, <1>3, <2>1, ClickTypes, SilentTypes DEF onSelect
  <2>2. CASE onDoubleClick(h)
    <3>1. PICK x \in Range(torrents) : Ask("play", x)
      BY <2>2 DEF onDoubleClick
    <3>2. SentOK'
      BY <1>1, <3>1, RangeIn, AskTypes DEF Ops
    <3>3. Click(view, filter, h, sidebarOpen)
      BY <2>2 DEF onDoubleClick
    <3> QED
      BY <1>1, <1>3, <3>2, <3>3, ClickTypes
  <2>3. ASSUME NEW what \in {"menu", "mode", "private"}, OpenPopup(what, h) PROVE Goal
    <3>1. [what |-> what, hash |-> h] \in Popups
      BY DEF Popups
    <3>2. Render([what |-> what, hash |-> h], tab) /\ Silent
      BY <2>3 DEF OpenPopup
    <3>3. ListOK'
      BY <1>1, <2>3, ListStep DEF OpenPopup
    <3>4. PageOK'
      BY <1>1, <2>3 DEF OpenPopup, PageOK, uivars, boxvars, mediavars
    <3>5. ComponentsOK' /\ SentOK'
      BY <1>1, <1>2, <3>1, <3>2, RenderTypes, SilentTypes
    <3> QED
      BY <3>3, <3>4, <3>5
  <2> QED
    BY <1>12, <2>1, <2>2, <2>3 DEF User
<1>13. ASSUME NEW op \in Ops, Item(op) PROVE Goal
  <2>1. PICK x \in Range(torrents) : Ask(op, x)
    BY <1>13 DEF Item
  <2>2. ListOK'
    BY <1>1, <1>13, ListStep DEF Item
  <2>3. PageOK'
    BY <1>1, <1>13 DEF Item, PageOK, uivars, boxvars, mediavars
  <2>4. ComponentsOK'
    BY <1>1, <1>13, <1>2, NoPopupIn, RenderTypes DEF Item
  <2>5. SentOK'
    BY <1>1, <2>1, RangeIn, AskTypes
  <2> QED
    BY <2>2, <2>3, <2>4, <2>5
<1>14. ASSUME NEW op \in Ops \ {"deleteFiles"}, Toolbar(op) PROVE Goal
  <2>1. PICK x \in Sel : Ask(op, x)
    BY <1>14 DEF Toolbar
  <2>2. ListOK'
    BY <1>1, <1>14, ListStep DEF Toolbar
  <2>3. PageOK'
    BY <1>1, <1>14 DEF Toolbar, PageOK, uivars, boxvars, mediavars
  <2>4. ComponentsOK'
    BY <1>1, <1>14, <1>2, NoPopupIn, RenderTypes DEF Toolbar
  <2>5. SentOK'
    BY <1>1, <2>1, RangeIn, AskTypes
  <2> QED
    BY <2>2, <2>3, <2>4, <2>5
<1>15. ASSUME NEW t \in TabNames, SelectTab(t) PROVE Goal
  <2>1. ListOK'
    BY <1>1, <1>15, ListStep DEF SelectTab
  <2>2. PageOK'
    BY <1>1, <1>15 DEF SelectTab, PageOK, uivars, boxvars, mediavars
  <2>3. ComponentsOK' /\ SentOK'
    BY <1>1, <1>15, NoPopupIn, RenderTypes, SilentTypes DEF SelectTab
  <2> QED
    BY <2>1, <2>2, <2>3
<1>16. ASSUME NEW i, CopyFile(i) PROVE Goal
  <2>1. PICK x \in Sel : i \in Detail(x).copies /\ Request("copy", x.hash, i)
    BY <1>16 DEF CopyFile
  <2>2. x \in Infos
    BY <1>1, RangeIn
  <2>3. x.hash \in Hashes /\ x.files \in Seq(BOOLEAN)
    BY <2>2, InfoTypes
  <2>4. i \in Nat
    <3>1. i \in DOMAIN x.files
      BY <2>1 DEF Detail
    <3> QED
      BY <2>3, <3>1
  <2>5. ListOK'
    BY <1>1, <1>16, ListStep DEF CopyFile
  <2>6. PageOK'
    BY <1>1, <1>16 DEF CopyFile, PageOK, uivars, boxvars, mediavars
  <2>7. ComponentsOK'
    BY <1>1, <1>16, <1>2, NoPopupIn, RenderTypes DEF CopyFile
  <2>8. SentOK'
    BY <2>1, <2>3, <2>4 DEF Request, SentOK, Ops
  <2> QED
    BY <2>5, <2>6, <2>7, <2>8
<1>17. CASE TypeLink \/ Add
  <2>1. ListOK'
    BY <1>1, <1>17, ListStep DEF TypeLink, Add
  <2>2. PageOK'
    BY <1>1, <1>17 DEF TypeLink, Add, PageOK, uivars, mediavars
  <2>3. ComponentsOK'
    BY <1>1, <1>17, <1>2, NoPopupIn, RenderTypes DEF TypeLink, Add
  <2>4. SentOK'
    BY <1>17, SilentTypes DEF TypeLink, Add, Request, SentOK
  <2> QED
    BY <2>1, <2>2, <2>3, <2>4
<1>18. ASSUME NEW ok \in BOOLEAN, Added(ok) PROVE Goal
  <2>1. ListOK'
    BY <1>1, <1>18, ListStep DEF Added
  <2>2. PageOK'
    BY <1>1, <1>18 DEF Added, PageOK, uivars, mediavars
  <2>3. ComponentsOK'
    BY <1>1, <1>18, <1>2, RenderTypes DEF Added
  <2>4. SentOK'
    BY <1>18 DEF Added, Request, NoRequest, SentOK
  <2> QED
    BY <2>1, <2>2, <2>3, <2>4
<1> HIDE DEF Goal
<1> QED
  BY <1>4, <1>5, <1>6, <1>7, <1>8, <1>9, <1>10, <1>11, <1>12, <1>13, <1>14,
     <1>15, <1>16, <1>17, <1>18 DEF Next

LEMMA LInvInit == Init => LInv
<1> SUFFICES ASSUME Init PROVE LInv
  OBVIOUS
<1>1. ListOK
  <2>1. << >> \in Seq(Infos) /\ DOMAIN << >> = {}
    OBVIOUS
  <2> QED
    BY <2>1 DEF Init, ListOK, Listed, Ordered, Distinct
<1>2. PageOK
  BY DEF Init, PageOK, Filters
<1>3. ComponentsOK /\ SentOK
  BY NoPopupIn, LibraryAssumption DEF Init, ComponentsOK, SentOK, NoRequest
<1> QED
  BY <1>1, <1>2, <1>3, InvParts

\* At any moment the list is the engine's, each torrent once, in the order of
\* ingest, and the page is in a state its components can be in
\* (App.tsx:45-54, 61-65).
THEOREM Invariant == Spec => []LInv
BY LInvInit, LInvStep, PTL DEF Spec

\* What App and its components keep, and what is asked of the server, is of
\* the types they declare (App.tsx:45-54, 84-118; api.ts:38-55).
THEOREM TypeCorrect == Spec => []TypeOK
<1>1. LInv => TypeOK
  BY DEF LInv
<1> QED
  BY <1>1, Invariant, PTL

\* For lists of any length, of torrents of any kind: the numbers of the
\* sidebar are those of the rows (App.tsx:120-147), rows come in the order
\* of ingest (App.tsx:61-65), what is left to share agrees with the filters
\* (TorrentTable.tsx:43-53), no row shows more than the total (util.ts:71-76)
\* and the detail panel agrees with its row (DetailPanel.tsx:64-75, 101-114).
THEOREM Agreement == Spec => []Coherent
<1>1. LInv => Coherent
  BY ListedCoherent DEF LInv
<1> QED
  BY <1>1, Invariant, PTL
=============================================================================
