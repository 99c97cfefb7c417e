------------------------ MODULE WindowManagerProofs ------------------------
(***************************************************************************)
(* For any windows, table size, screen width and byte, as far as they keep *)
(* WindowAssumption: the desktop keeps its windows (DesktopInv), the one   *)
(* with the focus in front (FocusOnTop), the command line knows its user   *)
(* window (OneUserWindow), the taskbar opens the window it shows under the *)
(* mouse (TaskBarOpensShown), and windows behind keep their order          *)
(* (StackOrder).                                                           *)
(*                                                                         *)
(* The argument is about desktops, not steps: Good(d), the inductive       *)
(* invariant, is shown to be kept by every handler (GetFocus, CreateChild, *)
(* DeleteChild, Minimize, Close, FullScreen, TaskBarClick), and a mouse    *)
(* button, which passes through several, keeps it because each of them     *)
(* does.  Beyond the properties it says that a minimised window is parked  *)
(* outside the screen (Counted), so that no click can minimise it again.   *)
(***************************************************************************)
EXTENDS WindowManager, SequenceTheorems, FiniteSetTheorems, TLAPS

-----------------------------------------------------------------------------
\* The stack of windows: children[], and GetFocus's rotation of it.

\* A stack of windows, each there once.
Stack(s) == s \in Seq(Window) /\ IsInjective(s)

\* Its places are numbered from 1, and hold different windows.
LEMMA StackFacts ==
  ASSUME NEW s, Stack(s)
  PROVE  /\ Len(s) \in Nat /\ DOMAIN s = 1 .. Len(s)
         /\ ToSet(s) = {s[i] : i \in 1 .. Len(s)} /\ ToSet(s) \subseteq Window
         /\ \A i \in 1 .. Len(s) : s[i] \in Window
         /\ \A i, j \in 1 .. Len(s) : s[i] = s[j] => i = j
<1>1. Len(s) \in Nat /\ DOMAIN s = 1 .. Len(s) /\ \A i \in 1 .. Len(s) : s[i] \in Window
  BY LenProperties DEF Stack
<1> QED BY <1>1 DEF Stack, ToSet, IsInjective

\* Place finds the only place of a window.
LEMMA PlaceFacts ==
  ASSUME NEW s, Stack(s)
  PROVE  /\ \A w \in ToSet(s) : Place(s, w) \in 1 .. Len(s) /\ s[Place(s, w)] = w
         /\ \A i \in 1 .. Len(s) : Place(s, s[i]) = i
<1>1. ASSUME NEW w \in ToSet(s)
      PROVE  Place(s, w) \in 1 .. Len(s) /\ s[Place(s, w)] = w
  <2>1. \E i \in 1 .. Len(s) : s[i] = w
    BY StackFacts
  <2> QED BY <2>1 DEF Place
<1>2. ASSUME NEW i \in 1 .. Len(s)
      PROVE  Place(s, s[i]) = i
  <2>1. s[i] \in ToSet(s)
    BY StackFacts
  <2> QED BY <1>1, <2>1, StackFacts
<1> QED BY <1>1, <1>2

(***************************************************************************)
(* GetFocus brings w to the front and moves those before it back by one.   *)
(***************************************************************************)
LEMMA RaisedStack ==
  ASSUME NEW s, Stack(s), NEW w \in ToSet(s)
  PROVE  /\ Stack(Raised(s, w)) /\ Len(Raised(s, w)) = Len(s)
         /\ ToSet(Raised(s, w)) = ToSet(s)
         /\ 1 \in 1 .. Len(s) /\ Raised(s, w)[1] = w /\ Place(Raised(s, w), w) = 1
         /\ \A v \in ToSet(s) \ {w} :
              Place(Raised(s, w), v) = IF Place(s, v) < Place(s, w) THEN Place(s, v) + 1 ELSE Place(s, v)
<1> DEFINE r == Raised(s, w)
           p == Place(s, w)
           n == Len(s)
<1>1. /\ n \in Nat /\ p \in 1 .. n /\ s[p] = w
      /\ \A i \in 1 .. n : s[i] \in Window
      /\ \A i, j \in 1 .. n : s[i] = s[j] => i = j
      /\ ToSet(s) = {s[i] : i \in 1 .. n}
  BY StackFacts, PlaceFacts
<1>2. r = [i \in 1 .. n |-> IF i = 1 THEN w ELSE IF i <= p THEN s[i - 1] ELSE s[i]]
  BY DEF Raised
<1> HIDE DEF r, p, n
<1>3. 1 \in 1 .. n /\ r[1] = w
  BY <1>1, <1>2
<1>4. /\ \A i \in 1 .. n : i # 1 /\ i <= p => r[i] = s[i - 1] /\ i - 1 \in 1 .. n
      /\ \A i \in 1 .. n : p < i => r[i] = s[i] /\ i # 1
  BY <1>1, <1>2
<1>5. \A i \in 1 .. n : r[i] \in Window
  BY <1>1, <1>3, <1>4
<1>6. r \in Seq(Window) /\ Len(r) = n /\ DOMAIN r = 1 .. n
  <2>1. r \in [1 .. n -> Window]
    BY <1>2, <1>5
  <2> QED BY <1>1, <2>1, SeqDef, LenProperties
<1>7. \A i, j \in 1 .. n : r[i] = r[j] => i = j
  <2> SUFFICES ASSUME NEW i \in 1 .. n, NEW j \in 1 .. n, r[i] = r[j] PROVE i = j
    OBVIOUS
  <2> DEFINE from(k) == IF k = 1 THEN p ELSE IF k <= p THEN k - 1 ELSE k
  <2>1. \A k \in 1 .. n : from(k) \in 1 .. n /\ r[k] = s[from(k)]
    BY <1>1, <1>3, <1>4
  <2>2. from(i) = from(j)
    BY <1>1, <2>1
  <2> QED BY <1>1, <2>2
<1>8. Stack(r)
  BY <1>6, <1>7 DEF Stack, IsInjective
<1>9. ToSet(r) = ToSet(s)
  <2>1. ASSUME NEW i \in 1 .. n PROVE r[i] \in ToSet(s)
    BY <1>1, <1>3, <1>4
  <2>2. ASSUME NEW i \in 1 .. n PROVE \E j \in 1 .. n : r[j] = s[i]
    <3>1. CASE i = p
      BY <1>1, <1>3, <3>1
    <3>2. CASE i < p
      <4>1. i + 1 \in 1 .. n /\ i + 1 # 1 /\ i + 1 <= p /\ (i + 1) - 1 = i
        BY <1>1, <3>2
      <4> QED BY <1>4, <4>1
    <3>3. CASE p < i
      BY <1>4, <3>3
    <3> QED BY <1>1, <3>1, <3>2, <3>3
  <2>3. ToSet(r) = {r[i] : i \in 1 .. n}
    BY <1>6 DEF ToSet
  <2>4. ToSet(r) \subseteq ToSet(s)
    BY <2>1, <2>3
  <2>5. ToSet(s) \subseteq ToSet(r)
    BY <1>1, <2>2, <2>3
  <2> QED BY <2>4, <2>5
<1>10. ASSUME NEW v \in ToSet(s) \ {w}
       PROVE  Place(r, v) = IF Place(s, v) < p THEN Place(s, v) + 1 ELSE Place(s, v)
  <2> DEFINE q == Place(s, v)
  <2>1. q \in 1 .. n /\ s[q] = v
    BY PlaceFacts DEF n
  <2> HIDE DEF q
  <2>2. q # p
    BY <1>1, <2>1
  <2>3. CASE q < p
    <3>1. q + 1 \in 1 .. n /\ q + 1 # 1 /\ q + 1 <= p /\ (q + 1) - 1 = q
      BY <1>1, <2>1, <2>3
    <3>2. r[q + 1] = v
      BY <1>4, <2>1, <3>1
    <3>3. Place(r, r[q + 1]) = q + 1
      BY <1>6, <1>8, <3>1, PlaceFacts
    <3> QED BY <2>3, <3>2, <3>3 DEF q
  <2>4. CASE p < q
    <3>1. r[q] = v
      BY <1>4, <2>1, <2>4
    <3>2. Place(r, v) = q
      BY <1>6, <1>8, <2>1, <3>1, PlaceFacts
    <3> QED BY <1>1, <2>1, <2>4, <3>2 DEF q
  <2> QED BY <1>1, <2>1, <2>2, <2>3, <2>4
<1>11. Place(r, w) = 1
  BY <1>3, <1>6, <1>8, PlaceFacts
<1> QED BY <1>3, <1>6, <1>8, <1>9, <1>10, <1>11 DEF r, p, n

-----------------------------------------------------------------------------
\* What a desktop is, and what GetFocus keeps of it.

Names == {"children", "focussed", "minWindows", "min", "away", "full", "userWindow",
          "made", "closed", "refused", "half", "astray"}

Typed(d) ==
  /\ DOMAIN d = Names
  /\ Stack(d.children) /\ Len(d.children) <= MaxWindows
  /\ d.focussed \in d.made \cup {None}
  /\ d.minWindows \in 0 .. Byte - 1
  /\ d.min \subseteq d.made /\ d.full \subseteq d.made /\ d.away \subseteq d.min
  /\ d.userWindow \in User \cup {None}
  /\ d.made \subseteq Window
  /\ d.closed \subseteq d.made /\ d.refused \subseteq d.made /\ d.half \subseteq d.made

Held(d) == Here(d) = d.made \ (d.closed \cup d.refused)

OnTop(d) == d.focussed \in Here(d) => d.focussed = d.children[1]

\* The minimised windows are parked, as long as nothing went astray.
Counted(d) ==
  d.astray = {} =>
    /\ d.focussed \in Here(d) => d.focussed \notin d.min
    /\ d.minWindows = Cardinality(Minimised(d))
    /\ Minimised(d) \subseteq d.away

OneUser(d) ==
  d.half = {} => Here(d) \cap User \subseteq {d.userWindow} /\ d.userWindow \notin d.closed

Good(d) == Typed(d) /\ Held(d) /\ OnTop(d) /\ Counted(d) /\ OneUser(d)

\* What the constants are.
LEMMA Constants ==
  /\ Terminal \in Window /\ User \subseteq Window /\ None \notin Window
  /\ MaxWindows \in Nat /\ 1 <= MaxWindows /\ Width \in Nat /\ Byte \in Nat
  /\ MaxWindows < Byte /\ Byte <= Width /\ 3 * Width < 4 * Byte
  /\ \A x \in ClickX : x \in Nat /\ x < Width
<1>1. /\ MaxWindows \in Nat /\ 1 <= MaxWindows /\ Width \in Nat /\ Byte \in Nat
      /\ MaxWindows < Byte /\ Byte <= Width /\ 3 * Width < 4 * Byte
      /\ \A x \in ClickX : x \in Nat /\ x < Width
  BY WindowAssumption, SMT DEF WindowAssumption
<1>2. Terminal \in Window /\ User \subseteq Window /\ None \notin Window
  BY WindowAssumption DEF WindowAssumption
<1> QED BY <1>1, <1>2

-----------------------------------------------------------------------------
\* The front window that GetFocus makes.
Chosen(d, w) == IF w \in Here(d) THEN w ELSE Last(d.children)

\* GetFocus changes children[] and focussedChild alone.
LEMMA GetFocusFields ==
  ASSUME NEW d, DOMAIN d = Names, NEW w
  PROVE  LET e == GetFocus(d, w) IN
         /\ DOMAIN e = Names
         /\ e.children = Raised(d.children, Chosen(d, w)) /\ e.focussed = Chosen(d, w)
         /\ e.minWindows = d.minWindows /\ e.min = d.min /\ e.away = d.away /\ e.full = d.full
         /\ e.userWindow = d.userWindow /\ e.made = d.made /\ e.closed = d.closed
         /\ e.refused = d.refused /\ e.half = d.half /\ e.astray = d.astray
BY DEF GetFocus, Names, Chosen

\* The window GetFocus puts in front is one of the table, the one meant if it is there.
LEMMA ChosenThere ==
  ASSUME NEW d, Typed(d), d.children # <<>>, NEW w
  PROVE  Chosen(d, w) \in Here(d) /\ (w \in Here(d) => Chosen(d, w) = w)
<1>1. Len(d.children) \in Nat /\ Len(d.children) # 0
  <2>1. d.children \in Seq(Window)
    BY DEF Typed, Stack
  <2> QED BY <2>1, LenProperties, EmptySeq
<1>2. Last(d.children) \in Here(d)
  <2>1. Len(d.children) \in 1 .. Len(d.children)
    BY <1>1
  <2> QED BY <2>1, StackFacts DEF Typed, Last, Here
<1> QED BY <1>2 DEF Chosen

\* GetFocus leaves the windows as they are but for their order.
LEMMA GetFocusKeeps ==
  ASSUME NEW d, Typed(d), Held(d), d.children # <<>>, NEW w
  PROVE  LET e == GetFocus(d, w) IN
         /\ Typed(e) /\ Held(e) /\ OnTop(e)
         /\ Here(e) = Here(d) /\ Minimised(e) = Minimised(d)
         /\ e.children = Raised(d.children, Chosen(d, w)) /\ e.focussed = Chosen(d, w)
         /\ e.children[1] = e.focussed /\ Len(e.children) = Len(d.children)
<1> DEFINE e == GetFocus(d, w)
           c == Chosen(d, w)
<1>1. c \in Here(d) /\ DOMAIN d = Names /\ Stack(d.children) /\ Here(d) = ToSet(d.children)
  BY ChosenThere DEF Typed, Here
<1> HIDE DEF c
<1>2. /\ DOMAIN e = Names
      /\ e.children = Raised(d.children, c) /\ e.focussed = c
      /\ e.minWindows = d.minWindows /\ e.min = d.min /\ e.away = d.away /\ e.full = d.full
      /\ e.userWindow = d.userWindow /\ e.made = d.made /\ e.closed = d.closed
      /\ e.refused = d.refused /\ e.half = d.half /\ e.astray = d.astray
  BY <1>1, GetFocusFields DEF c
<1> HIDE DEF e
<1>3. /\ Stack(e.children) /\ Len(e.children) = Len(d.children)
      /\ ToSet(e.children) = ToSet(d.children) /\ e.children[1] = c
  BY <1>1, <1>2, RaisedStack
<1>4. Here(e) = Here(d)
  BY <1>3 DEF Here
<1>5. c \in d.made
  BY <1>1 DEF Held
<1>6. Typed(e)
  BY <1>2, <1>3, <1>5 DEF Typed
<1>7. Held(e) /\ OnTop(e)
  BY <1>2, <1>3, <1>4 DEF Held, OnTop
<1>8. Minimised(e) = Minimised(d)
  BY <1>2, <1>4 DEF Minimised
<1> QED BY <1>2, <1>3, <1>4, <1>6, <1>7, <1>8 DEF e, c

-----------------------------------------------------------------------------
\* CreateChild: a window is added to the table, or refused, and gets the focus.

\* A new window, before it gets its place.
New(d, w, dirty) ==
  [d EXCEPT !.made = @ \cup {w},
            !.min = IF dirty THEN @ \cup {w} ELSE @,
            !.astray = IF dirty THEN @ \cup {"Min not set"} ELSE @]

\* A window is made: no handler below looks at it before it is added.
LEMMA NewFields ==
  ASSUME NEW d, DOMAIN d = Names, NEW w, NEW dirty \in BOOLEAN
  PROVE  LET e == New(d, w, dirty) IN
         /\ DOMAIN e = Names
         /\ e.made = d.made \cup {w}
         /\ e.min = IF dirty THEN d.min \cup {w} ELSE d.min
         /\ e.astray = IF dirty THEN d.astray \cup {"Min not set"} ELSE d.astray
         /\ e.children = d.children /\ e.focussed = d.focussed
         /\ e.minWindows = d.minWindows /\ e.away = d.away /\ e.full = d.full
         /\ e.userWindow = d.userWindow /\ e.closed = d.closed
         /\ e.refused = d.refused /\ e.half = d.half
BY DEF New, Names

\* AddChild with room in the table.
LEMMA AddedFields ==
  ASSUME NEW d, DOMAIN d = Names, NEW w, Len(d.children) < MaxWindows, Len(d.children) \in Nat
  PROVE  LET e == AddChild(d, w) IN
         /\ DOMAIN e = Names
         /\ e.children = Append(d.children, w) /\ e.focussed = d.focussed
         /\ e.minWindows = d.minWindows /\ e.min = d.min /\ e.away = d.away /\ e.full = d.full
         /\ e.userWindow = d.userWindow /\ e.made = d.made /\ e.closed = d.closed
         /\ e.refused = d.refused /\ e.half = d.half /\ e.astray = d.astray
<1>1. AddChild(d, w) = [d EXCEPT !.children = Append(@, w)]
  BY Constants DEF AddChild
<1> QED BY <1>1 DEF Names

\* AddChild with the table full.
LEMMA RefusedFields ==
  ASSUME NEW d, DOMAIN d = Names, NEW w, Len(d.children) >= MaxWindows
  PROVE  LET e == AddChild(d, w) IN
         /\ DOMAIN e = Names
         /\ e.refused = d.refused \cup {w} /\ e.astray = d.astray \cup {"table full"}
         /\ e.children = d.children /\ e.focussed = d.focussed
         /\ e.minWindows = d.minWindows /\ e.min = d.min /\ e.away = d.away /\ e.full = d.full
         /\ e.userWindow = d.userWindow /\ e.made = d.made /\ e.closed = d.closed
         /\ e.half = d.half
BY DEF AddChild, Names

\* The stack with one window more.
LEMMA AppendStack ==
  ASSUME NEW s, Stack(s), NEW w \in Window \ ToSet(s)
  PROVE  /\ Stack(Append(s, w)) /\ Len(Append(s, w)) = Len(s) + 1
         /\ ToSet(Append(s, w)) = ToSet(s) \cup {w} /\ Append(s, w) # <<>>
         /\ \A v \in ToSet(s) : Place(Append(s, w), v) = Place(s, v)
<1> DEFINE r == Append(s, w)
           n == Len(s)
<1>1. /\ n \in Nat /\ s \in Seq(Window)
      /\ \A i, j \in 1 .. n : s[i] = s[j] => i = j
      /\ ToSet(s) = {s[i] : i \in 1 .. n}
  BY StackFacts DEF Stack
<1>2. /\ r \in Seq(Window) /\ r # <<>> /\ Len(r) = n + 1
      /\ \A i \in 1 .. n : r[i] = s[i]
      /\ r[n + 1] = w
  BY <1>1, AppendProperties
<1> HIDE DEF r, n
<1>3. \A i \in 1 .. n + 1 : i \in 1 .. n \/ i = n + 1
  BY <1>1
<1>4. DOMAIN r = 1 .. n + 1 /\ ToSet(r) = {r[i] : i \in 1 .. n + 1}
  BY <1>2, LenProperties DEF ToSet
<1>5. \A i, j \in 1 .. n + 1 : r[i] = r[j] => i = j
  BY <1>1, <1>2, <1>3
<1>6. Stack(r)
  BY <1>2, <1>4, <1>5 DEF Stack, IsInjective
<1>7. ToSet(r) = ToSet(s) \cup {w}
  <2>1. \A i \in 1 .. n : i \in 1 .. n + 1
    BY <1>1
  <2>2. n + 1 \in 1 .. n + 1
    BY <1>1
  <2>3. ToSet(r) \subseteq ToSet(s) \cup {w}
    BY <1>1, <1>2, <1>3, <1>4
  <2>4. ToSet(s) \cup {w} \subseteq ToSet(r)
    BY <1>1, <1>2, <1>4, <2>1, <2>2
  <2> QED BY <2>3, <2>4
<1>8. ASSUME NEW v \in ToSet(s) PROVE Place(r, v) = Place(s, v)
  <2> DEFINE q == Place(s, v)
  <2>1. q \in 1 .. n /\ s[q] = v
    BY PlaceFacts DEF n
  <2> HIDE DEF q
  <2>2. q \in 1 .. Len(r) /\ r[q] = v
    BY <1>1, <1>2, <2>1
  <2> QED BY <1>6, <2>2, PlaceFacts DEF q
<1> QED BY <1>2, <1>6, <1>7, <1>8 DEF r, n

\* AddChild keeps the table and the two summaries, the focus aside.
LEMMA AddKeeps ==
  ASSUME NEW d, Typed(d), Held(d), Counted(d), NEW w \in Window \ d.made, NEW dirty \in BOOLEAN
  PROVE  LET e == AddChild(New(d, w, dirty), w) IN
         /\ Typed(e) /\ Held(e) /\ e.children # <<>>
         /\ e.children \in {d.children, Append(d.children, w)}
         /\ Here(e) \in {Here(d), Here(d) \cup {w}} /\ e.made = d.made \cup {w}
         /\ e.userWindow = d.userWindow /\ e.closed = d.closed /\ e.half = d.half
         /\ e.away = d.away
         /\ d.astray \subseteq e.astray /\ (w \notin Here(e) => e.astray # {})
         /\ e.astray = {} => /\ w \notin e.min /\ e.minWindows = Cardinality(Minimised(e))
                             /\ Minimised(e) \subseteq e.away
<1> DEFINE f == New(d, w, dirty)
           e == AddChild(f, w)
<1>1. /\ DOMAIN f = Names
      /\ f.made = d.made \cup {w}
      /\ f.min = IF dirty THEN d.min \cup {w} ELSE d.min
      /\ f.astray = IF dirty THEN d.astray \cup {"Min not set"} ELSE d.astray
      /\ f.children = d.children /\ f.focussed = d.focussed
      /\ f.minWindows = d.minWindows /\ f.away = d.away /\ f.full = d.full
      /\ f.userWindow = d.userWindow /\ f.closed = d.closed
      /\ f.refused = d.refused /\ f.half = d.half
  <2>1. DOMAIN d = Names
    BY DEF Typed
  <2> HIDE DEF f
  <2> QED BY ONLY <2>1, NewFields DEF f
<1>2. /\ Stack(d.children) /\ Len(d.children) \in Nat /\ d.children \in Seq(Window)
      /\ Here(d) = ToSet(d.children) /\ Here(d) \subseteq d.made /\ w \notin Here(d)
  BY StackFacts DEF Typed, Held, Here, Stack
<1> HIDE DEF f
<1>a. DOMAIN f = Names /\ Len(f.children) \in Nat
  BY <1>1, <1>2
<1>3. CASE Len(d.children) < MaxWindows
  <2>1. /\ DOMAIN e = Names
        /\ e.children = Append(d.children, w) /\ e.focussed = d.focussed
        /\ e.minWindows = d.minWindows /\ e.min = f.min /\ e.away = d.away /\ e.full = d.full
        /\ e.userWindow = d.userWindow /\ e.made = d.made \cup {w} /\ e.closed = d.closed
        /\ e.refused = d.refused /\ e.half = d.half /\ e.astray = f.astray
    <3>1. Len(f.children) < MaxWindows
      BY <1>1, <1>3
    <3> HIDE DEF e
    <3>2. /\ DOMAIN e = Names
          /\ e.children = Append(f.children, w) /\ e.focussed = f.focussed
          /\ e.minWindows = f.minWindows /\ e.min = f.min /\ e.away = f.away /\ e.full = f.full
          /\ e.userWindow = f.userWindow /\ e.made = f.made /\ e.closed = f.closed
          /\ e.refused = f.refused /\ e.half = f.half /\ e.astray = f.astray
      BY ONLY <1>a, <3>1, AddedFields DEF e
    <3> QED BY <1>1, <3>2
  <2> HIDE DEF e
  <2>2. /\ Stack(e.children) /\ Len(e.children) = Len(d.children) + 1
        /\ ToSet(e.children) = Here(d) \cup {w} /\ e.children # <<>>
    BY <1>2, <2>1, AppendStack
  <2>3. Len(e.children) <= MaxWindows
    BY <1>2, <1>3, <2>2, Constants
  <2>4. Here(e) = Here(d) \cup {w}
    BY <2>2 DEF Here
  <2>5. Typed(e)
    BY <1>1, <2>1, <2>2, <2>3 DEF Typed
  <2>6. Held(e)
    BY <1>1, <2>1, <2>4 DEF Held, Typed
  <2>7. d.astray \subseteq e.astray
    BY <1>1, <2>1
  <2>8. ASSUME e.astray = {}
        PROVE  w \notin e.min /\ e.minWindows = Cardinality(Minimised(e)) /\ Minimised(e) \subseteq e.away
    <3>1. ~dirty /\ d.astray = {}
      BY <1>1, <2>1, <2>8
    <3>2. e.min = d.min /\ w \notin d.min
      BY <1>1, <2>1, <3>1 DEF Typed
    <3>3. Minimised(e) = Minimised(d)
      BY <2>4, <3>2 DEF Minimised
    <3> QED BY <2>1, <3>1, <3>2, <3>3 DEF Counted
  <2> QED BY <2>1, <2>2, <2>4, <2>5, <2>6, <2>7, <2>8 DEF e, f
<1>4. CASE Len(d.children) >= MaxWindows
  <2>1. /\ DOMAIN e = Names
        /\ e.refused = d.refused \cup {w} /\ e.astray = f.astray \cup {"table full"}
        /\ e.children = d.children /\ e.focussed = d.focussed
        /\ e.minWindows = d.minWindows /\ e.min = f.min /\ e.away = d.away /\ e.full = d.full
        /\ e.userWindow = d.userWindow /\ e.made = d.made \cup {w} /\ e.closed = d.closed
        /\ e.half = d.half
    <3>1. Len(f.children) >= MaxWindows
      BY <1>1, <1>4
    <3> HIDE DEF e
    <3>2. /\ DOMAIN e = Names
          /\ e.refused = f.refused \cup {w} /\ e.astray = f.astray \cup {"table full"}
          /\ e.children = f.children /\ e.focussed = f.focussed
          /\ e.minWindows = f.minWindows /\ e.min = f.min /\ e.away = f.away /\ e.full = f.full
          /\ e.userWindow = f.userWindow /\ e.made = f.made /\ e.closed = f.closed
          /\ e.half = f.half
      BY ONLY <1>a, <3>1, RefusedFields DEF e
    <3> QED BY <1>1, <3>2
  <2> HIDE DEF e
  <2>2. Here(e) = Here(d)
    BY <2>1 DEF Here
  <2>3. e.children # <<>>
    <3>1. Len(d.children) # 0
      BY <1>2, <1>4, Constants
    <3> QED BY <2>1, <3>1, EmptySeq
  <2>4. Typed(e)
    BY <1>1, <2>1 DEF Typed
  <2>5. Held(e)
    BY <1>1, <1>2, <2>1, <2>2 DEF Held
  <2>6. e.astray # {} /\ d.astray \subseteq e.astray
    BY <1>1, <2>1
  <2> QED BY <2>1, <2>2, <2>3, <2>4, <2>5, <2>6 DEF e, f
<1> QED BY <1>2, <1>3, <1>4, Constants

\* An icon, a command or the GUI opens a window.
LEMMA CreateKeeps ==
  ASSUME NEW d, Typed(d), Held(d), Counted(d), NEW w \in Window \ d.made, NEW dirty \in BOOLEAN
  PROVE  LET e == CreateChild(d, w, dirty) IN
         /\ Typed(e) /\ Held(e) /\ OnTop(e) /\ Counted(e)
         /\ Here(e) \in {Here(d), Here(d) \cup {w}} /\ e.made = d.made \cup {w}
         /\ e.userWindow = d.userWindow /\ e.closed = d.closed /\ e.half = d.half
         /\ e.away = d.away /\ d.astray \subseteq e.astray
         /\ e.focussed \in Here(e) /\ e.focussed = e.children[1]
         /\ w \in Here(e) => e.focussed = w
<1> DEFINE a == AddChild(New(d, w, dirty), w)
           e == GetFocus(a, w)
<1>1. CreateChild(d, w, dirty) = e
  BY DEF CreateChild, New
<1>2. /\ Typed(a) /\ Held(a) /\ a.children # <<>>
      /\ Here(a) \in {Here(d), Here(d) \cup {w}} /\ a.made = d.made \cup {w}
      /\ a.userWindow = d.userWindow /\ a.closed = d.closed /\ a.half = d.half
      /\ a.away = d.away
      /\ d.astray \subseteq a.astray /\ (w \notin Here(a) => a.astray # {})
      /\ a.astray = {} => /\ w \notin a.min /\ a.minWindows = Cardinality(Minimised(a))
                          /\ Minimised(a) \subseteq a.away
  BY AddKeeps
<1> HIDE DEF a
<1>3. /\ Typed(e) /\ Held(e) /\ OnTop(e)
      /\ Here(e) = Here(a) /\ Minimised(e) = Minimised(a)
      /\ e.focussed = Chosen(a, w) /\ e.children[1] = e.focussed
  BY <1>2, GetFocusKeeps
<1>4. /\ e.minWindows = a.minWindows /\ e.min = a.min /\ e.away = a.away
      /\ e.userWindow = a.userWindow /\ e.made = a.made /\ e.closed = a.closed
      /\ e.half = a.half /\ e.astray = a.astray
  BY <1>2, GetFocusFields DEF Typed
<1>5. Chosen(a, w) \in Here(a) /\ (w \in Here(a) => Chosen(a, w) = w)
  BY <1>2, ChosenThere
<1> HIDE DEF e
<1>6. Counted(e)
  BY <1>2, <1>3, <1>4, <1>5 DEF Counted
<1> QED BY <1>1, <1>2, <1>3, <1>4, <1>5, <1>6

-----------------------------------------------------------------------------
\* The front window goes or is minimised; what a click does first.

\* DeleteChild changes children[] alone.
LEMMA DeleteFields ==
  ASSUME NEW d, DOMAIN d = Names
  PROVE  LET e == DeleteChild(d) IN
         /\ DOMAIN e = Names
         /\ e.children = Tail(d.children) /\ e.closed = d.closed \cup {d.children[1]}
         /\ e.focussed = d.focussed
         /\ e.minWindows = d.minWindows /\ e.min = d.min /\ e.away = d.away /\ e.full = d.full
         /\ e.userWindow = d.userWindow /\ e.made = d.made
         /\ e.refused = d.refused /\ e.half = d.half /\ e.astray = d.astray
BY DEF DeleteChild, Names

\* Minimize leaves the table alone.
LEMMA MinimizeFields ==
  ASSUME NEW d, DOMAIN d = Names
  PROVE  LET e == Minimize(d) IN
         /\ DOMAIN e = Names
         /\ e.focussed = None /\ e.minWindows = (d.minWindows + 1) % Byte
         /\ e.min = d.min \cup {d.children[1]} /\ e.away = d.away \cup {d.children[1]}
         /\ e.children = d.children /\ e.full = d.full
         /\ e.userWindow = d.userWindow /\ e.made = d.made /\ e.closed = d.closed
         /\ e.refused = d.refused /\ e.half = d.half /\ e.astray = d.astray
BY DEF Minimize, Names

\* The stack without its front window.
LEMMA TailStack ==
  ASSUME NEW s, Stack(s), s # <<>>
  PROVE  /\ Stack(Tail(s)) /\ Len(Tail(s)) = Len(s) - 1 /\ Len(Tail(s)) \in Nat
         /\ s[1] \in ToSet(s) /\ ToSet(Tail(s)) = ToSet(s) \ {s[1]}
         /\ \A v \in ToSet(s) \ {s[1]} : Place(Tail(s), v) = Place(s, v) - 1
<1> DEFINE r == Tail(s)
           n == Len(s)
<1>1. /\ n \in Nat /\ n # 0 /\ s \in Seq(Window)
      /\ \A i, j \in 1 .. n : s[i] = s[j] => i = j
      /\ ToSet(s) = {s[i] : i \in 1 .. n}
  BY StackFacts, EmptySeq DEF Stack
<1>2. /\ r \in Seq(Window) /\ Len(r) = n - 1
      /\ \A i \in 1 .. Len(r) : r[i] = s[i + 1]
  BY <1>1, HeadTailProperties
<1> HIDE DEF r, n
<1>3. DOMAIN r = 1 .. n - 1 /\ ToSet(r) = {r[i] : i \in 1 .. n - 1}
  BY <1>2, LenProperties DEF ToSet
<1>4. /\ 1 \in 1 .. n
      /\ \A i \in 1 .. n - 1 : i + 1 \in 1 .. n /\ i + 1 # 1 /\ r[i] = s[i + 1]
      /\ \A i \in 1 .. n : i # 1 => i - 1 \in 1 .. n - 1 /\ (i - 1) + 1 = i
  BY <1>1, <1>2
<1>5. \A i, j \in 1 .. n - 1 : r[i] = r[j] => i = j
  <2> SUFFICES ASSUME NEW i \in 1 .. n - 1, NEW j \in 1 .. n - 1, r[i] = r[j] PROVE i = j
    OBVIOUS
  <2>1. i + 1 = j + 1
    BY <1>1, <1>4
  <2> QED BY <1>1, <2>1
<1>6. Stack(r)
  BY <1>2, <1>3, <1>5 DEF Stack, IsInjective
<1>7. ToSet(r) = ToSet(s) \ {s[1]}
  <2>1. ToSet(r) \subseteq ToSet(s) \ {s[1]}
    BY <1>1, <1>3, <1>4
  <2>2. ASSUME NEW v \in ToSet(s) \ {s[1]} PROVE v \in ToSet(r)
    <3>1. PICK i \in 1 .. n : s[i] = v
      BY <1>1
    <3>2. i - 1 \in 1 .. n - 1 /\ (i - 1) + 1 = i
      BY <1>4, <3>1
    <3>3. r[i - 1] = v
      BY <1>4, <3>1, <3>2
    <3> QED BY <1>3, <3>2, <3>3
  <2> QED BY <2>1, <2>2
<1>8. ASSUME NEW v \in ToSet(s) \ {s[1]} PROVE Place(r, v) = Place(s, v) - 1
  <2> DEFINE q == Place(s, v)
  <2>1. q \in 1 .. n /\ s[q] = v /\ q # 1
    BY PlaceFacts DEF n
  <2> HIDE DEF q
  <2>2. q - 1 \in 1 .. n - 1 /\ (q - 1) + 1 = q
    BY <1>4, <2>1
  <2>3. r[q - 1] = v /\ q - 1 \in 1 .. Len(r)
    BY <1>2, <1>4, <2>1, <2>2
  <2> QED BY <1>6, <2>3, PlaceFacts DEF q
<1>9. s[1] \in ToSet(s)
  BY <1>1, <1>4
<1> QED BY <1>1, <1>2, <1>6, <1>7, <1>8, <1>9 DEF r, n

\* What a click makes of the window under it: on is in front and is told of.
Picked(d, on) == IF on = d.focussed THEN d ELSE GetFocus(d, on)

\* The window under the point is then in front, focussed, and not minimised.
LEMMA PickedKeeps ==
  ASSUME NEW d, Good(d), NEW on, Hits(d, on)
  PROVE  LET e == Picked(d, on) IN
         /\ Typed(e) /\ Held(e) /\ OnTop(e) /\ Counted(e)
         /\ e.children \in {d.children, Raised(d.children, on)}
         /\ e.focussed = on /\ e.children[1] = on /\ e.children # <<>>
         /\ Here(e) = Here(d) /\ e.min = d.min /\ e.made = d.made
         /\ e.userWindow = d.userWindow /\ e.closed = d.closed /\ e.half = d.half
         /\ e.away = d.away /\ e.astray = d.astray
         /\ on \in Here(d) /\ (d.astray = {} => on \notin d.min)
<1>1. Typed(d) /\ Held(d) /\ OnTop(d) /\ Counted(d)
  BY DEF Good
<1>2. on \in Here(d) /\ on \notin d.away
  BY DEF Hits
<1>3. d.children # <<>>
  <2>1. Here(d) = {d.children[i] : i \in 1 .. Len(d.children)}
    BY <1>1, StackFacts DEF Typed, Here
  <2> QED BY <1>2, <2>1, EmptySeq
<1>4. d.astray = {} => on \notin d.min
  BY <1>1, <1>2 DEF Counted, Minimised
<1>5. CASE on = d.focussed
  <2>1. d.children[1] = on /\ Picked(d, on) = d
    BY <1>1, <1>2, <1>5 DEF OnTop, Picked
  <2> QED BY <1>1, <1>2, <1>3, <1>4, <1>5, <2>1
<1>6. CASE on # d.focussed
  <2> DEFINE e == GetFocus(d, on)
  <2>1. /\ Typed(e) /\ Held(e) /\ OnTop(e)
        /\ Here(e) = Here(d) /\ Minimised(e) = Minimised(d)
        /\ e.children = Raised(d.children, on) /\ e.focussed = on /\ e.children[1] = e.focussed
    <3>1. Chosen(d, on) = on
      BY <1>2 DEF Chosen
    <3> QED BY <1>1, <1>3, <3>1, GetFocusKeeps
  <2>2. /\ e.minWindows = d.minWindows /\ e.min = d.min /\ e.away = d.away
        /\ e.userWindow = d.userWindow /\ e.made = d.made /\ e.closed = d.closed
        /\ e.half = d.half /\ e.astray = d.astray
    <3>1. DOMAIN d = Names
      BY <1>1 DEF Typed
    <3> QED BY <3>1, GetFocusFields
  <2> HIDE DEF e
  <2>3. Counted(e)
    BY <1>1, <1>4, <2>1, <2>2 DEF Counted
  <2>4. e.children # <<>>
    <3>1. Here(e) = {e.children[i] : i \in 1 .. Len(e.children)}
      BY <2>1, StackFacts DEF Typed, Here
    <3> QED BY <1>2, <2>1, <3>1, EmptySeq
  <2>5. Picked(d, on) = e
    BY <1>6 DEF Picked, e
  <2> QED BY <1>2, <1>4, <2>1, <2>2, <2>3, <2>4, <2>5
<1> QED BY <1>5, <1>6

\* A window can only be counted while it is there.
LEMMA MinimisedFinite ==
  ASSUME NEW d, Typed(d)
  PROVE  /\ IsFiniteSet(Minimised(d)) /\ Cardinality(Minimised(d)) \in Nat
         /\ IsFiniteSet(Here(d)) /\ Cardinality(Here(d)) <= MaxWindows
<1> DEFINE n == Len(d.children)
<1>1. n \in Nat /\ n <= MaxWindows /\ Here(d) = {d.children[i] : i \in 1 .. n}
  BY StackFacts DEF Typed, Here
<1>2. IsFiniteSet(1 .. n) /\ Cardinality(1 .. n) = n
  <2>1. 1 \in Int /\ n \in Int /\ n - 1 + 1 = n /\ (1 > n => n = 0)
    BY <1>1
  <2>2. IsFiniteSet(1 .. n) /\ Cardinality(1 .. n) = IF 1 > n THEN 0 ELSE n - 1 + 1
    BY <2>1, FS_Interval
  <2> QED BY <2>1, <2>2
<1> HIDE DEF n
<1> DEFINE f == [i \in 1 .. n |-> d.children[i]]
<1>3. f \in Surjection(1 .. n, Here(d))
  <2>1. f \in [1 .. n -> Here(d)] /\ \A w \in Here(d) : \E i \in 1 .. n : f[i] = w
    BY <1>1
  <2> HIDE DEF f
  <2> QED BY <2>1 DEF Surjection
<1>4. IsFiniteSet(Here(d)) /\ Cardinality(Here(d)) <= n
  BY <1>2, <1>3, FS_Surjection
<1>5. Cardinality(Here(d)) <= MaxWindows
  BY <1>1, <1>4, FS_CardinalityType, Constants
<1>6. Minimised(d) \subseteq Here(d)
  BY DEF Minimised
<1> QED BY <1>4, <1>5, <1>6, FS_Subset, FS_CardinalityType

\* The window with the focus, in front and shown.
Active(d, on) ==
  /\ Typed(d) /\ Held(d) /\ OnTop(d) /\ Counted(d)
  /\ on \in Here(d) /\ d.focussed = on /\ d.children[1] = on /\ d.children # <<>>
  /\ d.astray = {} => on \notin d.min

\* The close box removes the window that was clicked.
LEMMA DeleteKeeps ==
  ASSUME NEW d, NEW on, Active(d, on)
  PROVE  LET e == DeleteChild(d) IN
         /\ Typed(e) /\ Held(e) /\ OnTop(e) /\ Counted(e)
         /\ e.children = Tail(d.children) /\ e.focussed = on
         /\ Here(e) = Here(d) \ {on} /\ e.closed = d.closed \cup {on}
         /\ e.userWindow = d.userWindow /\ e.half = d.half /\ e.full = d.full
         /\ e.min = d.min /\ e.made = d.made
<1> DEFINE e == DeleteChild(d)
<1>0. DOMAIN d = Names
  BY DEF Active, Typed
<1>1. /\ DOMAIN e = Names
      /\ e.children = Tail(d.children) /\ e.closed = d.closed \cup {d.children[1]}
      /\ e.focussed = d.focussed
      /\ e.minWindows = d.minWindows /\ e.min = d.min /\ e.away = d.away /\ e.full = d.full
      /\ e.userWindow = d.userWindow /\ e.made = d.made
      /\ e.refused = d.refused /\ e.half = d.half /\ e.astray = d.astray
  BY ONLY <1>0, DeleteFields
<1> HIDE DEF e
<1>2. /\ Stack(e.children) /\ Len(e.children) = Len(d.children) - 1 /\ Len(e.children) \in Nat
      /\ ToSet(e.children) = Here(d) \ {on}
  BY <1>1, TailStack DEF Active, Typed, Here
<1>3. Here(e) = Here(d) \ {on}
  BY <1>2 DEF Here
<1>4. Len(e.children) <= MaxWindows
  <2>1. Len(d.children) <= MaxWindows /\ Len(d.children) \in Nat
    BY StackFacts DEF Active, Typed
  <2> QED BY <1>2, <2>1, Constants
<1>5. e.closed = d.closed \cup {on} /\ e.focussed = on
  BY <1>1 DEF Active
<1>6. Typed(e)
  <2>1. on \in d.made
    BY DEF Active, Held
  <2> QED BY <1>1, <1>2, <1>4, <1>5, <2>1 DEF Active, Typed
<1>7. Held(e)
  BY <1>1, <1>3, <1>5 DEF Active, Held
<1>8. OnTop(e)
  BY <1>3, <1>5 DEF OnTop
<1>9. Counted(e)
  <2>1. e.astray = {} => Minimised(e) = Minimised(d)
    BY <1>1, <1>3 DEF Active, Minimised
  <2> QED BY <1>1, <1>3, <1>5, <2>1 DEF Active, Counted
<1> QED BY <1>1, <1>3, <1>5, <1>6, <1>7, <1>8, <1>9 DEF e

\* The window that was clicked was not minimised, and there is a number for it in a byte.
LEMMA MinimizeKeeps ==
  ASSUME NEW d, NEW on, Active(d, on)
  PROVE  LET e == Minimize(d) IN
         /\ Typed(e) /\ Held(e) /\ OnTop(e) /\ Counted(e)
         /\ e.children = d.children /\ e.focussed = None
         /\ Here(e) = Here(d) /\ e.closed = d.closed
         /\ e.userWindow = d.userWindow /\ e.half = d.half /\ e.full = d.full
         /\ e.min = d.min \cup {on} /\ e.made = d.made
<1> DEFINE e == Minimize(d)
<1>0. DOMAIN d = Names
  BY DEF Active, Typed
<1>1. /\ DOMAIN e = Names
      /\ e.focussed = None /\ e.minWindows = (d.minWindows + 1) % Byte
      /\ e.min = d.min \cup {d.children[1]} /\ e.away = d.away \cup {d.children[1]}
      /\ e.children = d.children /\ e.full = d.full
      /\ e.userWindow = d.userWindow /\ e.made = d.made /\ e.closed = d.closed
      /\ e.refused = d.refused /\ e.half = d.half /\ e.astray = d.astray
  BY ONLY <1>0, MinimizeFields
<1> HIDE DEF e
<1>2. e.min = d.min \cup {on} /\ e.away = d.away \cup {on} /\ on \in d.made
  BY <1>1 DEF Active, Held
<1>3. Here(e) = Here(d)
  BY <1>1 DEF Here
<1>4. e.minWindows \in 0 .. Byte - 1
  <2>1. d.minWindows \in Nat /\ Byte \in Nat /\ Byte > 0
    BY Constants DEF Active, Typed
  <2>2. (d.minWindows + 1) % Byte \in 0 .. Byte - 1
    BY ONLY <2>1
  <2> QED BY <1>1, <2>2
<1>5. Typed(e)
  BY <1>1, <1>2, <1>4 DEF Active, Typed
<1>6. Held(e)
  BY <1>1, <1>3 DEF Active, Held
<1>7. None \notin Here(e)
  BY <1>3, Constants DEF Active, Held, Typed
<1>8. OnTop(e)
  BY <1>1, <1>7 DEF OnTop
<1>9. Counted(e)
  <2> SUFFICES ASSUME e.astray = {}
               PROVE  e.minWindows = Cardinality(Minimised(e)) /\ Minimised(e) \subseteq e.away
    BY <1>1, <1>7 DEF Counted
  <2>1. /\ d.minWindows = Cardinality(Minimised(d)) /\ Minimised(d) \subseteq d.away
        /\ on \notin Minimised(d)
    BY <1>1 DEF Active, Counted, Minimised
  <2>2. Minimised(e) = Minimised(d) \cup {on}
    BY <1>2, <1>3 DEF Active, Minimised
  <2>3. Typed(d) /\ IsFiniteSet(Minimised(d)) /\ Cardinality(Minimised(d)) \in Nat
    BY MinimisedFinite DEF Active
  <2>4. Cardinality(Minimised(e)) = d.minWindows + 1
    BY <2>1, <2>2, <2>3, FS_AddElement
  <2>5. Cardinality(Minimised(e)) <= MaxWindows
    <3>1. Minimised(e) \subseteq Here(d) /\ IsFiniteSet(Here(d)) /\ Cardinality(Here(d)) <= MaxWindows
      BY <1>3, <2>3, MinimisedFinite DEF Minimised
    <3>2. Cardinality(Minimised(e)) <= Cardinality(Here(d)) /\ Cardinality(Here(d)) \in Nat
      BY <3>1, FS_Subset, FS_CardinalityType
    <3>3. Cardinality(Minimised(e)) \in Nat
      BY <2>1, <2>3, <2>4
    <3> QED BY <3>1, <3>2, <3>3, Constants
  <2>6. (d.minWindows + 1) % Byte = d.minWindows + 1
    <3>1. d.minWindows \in Nat /\ d.minWindows + 1 < Byte /\ Byte \in Nat
      BY <2>1, <2>3, <2>4, <2>5, Constants
    <3> QED BY ONLY <3>1
  <2> QED BY <1>1, <1>2, <2>1, <2>2, <2>4, <2>6
<1> QED BY <1>1, <1>2, <1>3, <1>5, <1>6, <1>8, <1>9 DEF e

-----------------------------------------------------------------------------
\* Close, the buttons of the title bar, and the whole click.

\* Close changes the command line's window alone.
LEMMA CloseFields ==
  ASSUME NEW d, DOMAIN d = Names, NEW w
  PROVE  LET e == Close(d, w) IN
         /\ DOMAIN e = Names
         /\ e.userWindow = IF w \in User THEN None ELSE d.userWindow
         /\ e.children = d.children /\ e.focussed = d.focussed
         /\ e.minWindows = d.minWindows /\ e.min = d.min /\ e.away = d.away /\ e.full = d.full
         /\ e.made = d.made /\ e.closed = d.closed
         /\ e.refused = d.refused /\ e.half = d.half /\ e.astray = d.astray
BY DEF Close, Names

\* The command line gets or loses a user window, and what is noted of it.
Noted(d, u, h) == [d EXCEPT !.userWindow = u, !.half = h]

\* Noting changes nothing else.
LEMMA NotedFields ==
  ASSUME NEW d, DOMAIN d = Names, NEW u, NEW h
  PROVE  LET e == Noted(d, u, h) IN
         /\ DOMAIN e = Names
         /\ e.userWindow = u /\ e.half = h
         /\ e.children = d.children /\ e.focussed = d.focussed
         /\ e.minWindows = d.minWindows /\ e.min = d.min /\ e.away = d.away /\ e.full = d.full
         /\ e.made = d.made /\ e.closed = d.closed
         /\ e.refused = d.refused /\ e.astray = d.astray
BY DEF Noted, Names

\* Noting disturbs neither the table nor its summaries.
LEMMA NotedKeeps ==
  ASSUME NEW d, Typed(d), Held(d), OnTop(d), Counted(d),
         NEW u \in User \cup {None}, NEW h, h \subseteq d.made
  PROVE  LET e == Noted(d, u, h) IN
         Typed(e) /\ Held(e) /\ OnTop(e) /\ Counted(e) /\ Here(e) = Here(d)
<1> DEFINE e == Noted(d, u, h)
<1>0. DOMAIN d = Names
  BY DEF Typed
<1>1. /\ DOMAIN e = Names
      /\ e.userWindow = u /\ e.half = h
      /\ e.children = d.children /\ e.focussed = d.focussed
      /\ e.minWindows = d.minWindows /\ e.min = d.min /\ e.away = d.away /\ e.full = d.full
      /\ e.made = d.made /\ e.closed = d.closed
      /\ e.refused = d.refused /\ e.astray = d.astray
  BY ONLY <1>0, NotedFields
<1> HIDE DEF e
<1>2. Here(e) = Here(d) /\ Minimised(e) = Minimised(d)
  BY <1>1 DEF Here, Minimised
<1>3. Typed(e)
  BY <1>1 DEF Typed
<1>4. Held(e) /\ OnTop(e) /\ Counted(e)
  BY <1>1, <1>2 DEF Held, OnTop, Counted
<1> QED BY <1>2, <1>3, <1>4 DEF e

\* A button of the title bar does nothing, closes or minimises, always the window clicked.
LEMMA TitleButtonKeeps ==
  ASSUME NEW d, NEW on, Active(d, on), NEW click \in Clicks
  PROVE  LET e == TitleButton(d, click) IN
         /\ Typed(e) /\ Held(e) /\ OnTop(e) /\ Counted(e)
         /\ e.userWindow = d.userWindow /\ e.half = d.half /\ e.made = d.made /\ e.full = d.full
         /\ \/ /\ e.focussed = on /\ Here(e) = Here(d) /\ e.closed = d.closed
               /\ e.children = d.children /\ e.min = d.min
            \/ /\ e.focussed = None /\ Here(e) = Here(d) /\ e.closed = d.closed
               /\ e.children = d.children /\ e.min = d.min \cup {on}
            \/ /\ e.focussed = on /\ Here(e) = Here(d) \ {on} /\ e.closed = d.closed \cup {on}
               /\ e.children = Tail(d.children) /\ e.min = d.min
<1> DEFINE e == TitleButton(d, click)
<1>1. CASE e = d
  BY <1>1 DEF Active
<1>2. CASE e = DeleteChild(d)
  BY <1>2, DeleteKeeps
<1>3. CASE e = Minimize(d)
  BY <1>3, MinimizeKeeps
<1>4. click.part \in {"rest", "min", "max", "close"}
  BY DEF Clicks
<1> QED BY <1>1, <1>2, <1>3, <1>4 DEF TitleButton

(***************************************************************************)
(* A click on a window.                                                    *)
(***************************************************************************)
LEMMA ClickKeeps ==
  ASSUME NEW d, Good(d), NEW on, NEW click \in Clicks
  PROVE  LET e == OnMouseDown(d, on, click) IN
         /\ Good(e) /\ e.made = d.made
         /\ ~Hits(d, on) => e = d
         /\ Hits(d, on) =>
              /\ e.children \in {Picked(d, on).children, Tail(Picked(d, on).children)}
              /\ e.min \in {d.min, d.min \cup {on}}
              /\ on \in Here(d) /\ Picked(d, on).children # <<>>
<1>1. CASE ~Hits(d, on)
  BY <1>1 DEF OnMouseDown
<1>2. CASE Hits(d, on)
  <2> DEFINE r == Picked(d, on)
             a == TitleButton(r, click)
             told == IF click.inBox THEN {a.focussed} \ ({None} \cup a.full) ELSE {}
             gone == a.closed \ d.closed
             b == IF told = {} THEN a ELSE Close(a, a.focussed)
             h == b.half \cup (((gone \ told) \cup (told \ gone)) \cap User)
             u == IF told = {} \/ a.focussed \notin User THEN a.userWindow ELSE None
             e == [b EXCEPT !.half = h]
  <2>1. OnMouseDown(d, on, click) = e
    BY <1>2 DEF OnMouseDown, Picked
  <2>2. /\ Active(r, on)
        /\ Here(r) = Here(d) /\ r.min = d.min /\ r.made = d.made
        /\ r.userWindow = d.userWindow /\ r.closed = d.closed /\ r.half = d.half
        /\ on \in Here(d)
    BY <1>2, PickedKeeps DEF Active
  <2> HIDE DEF r
  <2>3. /\ Typed(a) /\ Held(a) /\ OnTop(a) /\ Counted(a)
        /\ a.userWindow = d.userWindow /\ a.half = d.half /\ a.made = d.made
        /\ \/ /\ a.focussed = on /\ Here(a) = Here(d) /\ a.closed = d.closed
              /\ a.children = r.children /\ a.min = d.min
           \/ /\ a.focussed = None /\ Here(a) = Here(d) /\ a.closed = d.closed
              /\ a.children = r.children /\ a.min = d.min \cup {on}
           \/ /\ a.focussed = on /\ Here(a) = Here(d) \ {on} /\ a.closed = d.closed \cup {on}
              /\ a.children = Tail(r.children) /\ a.min = d.min
    BY <2>2, TitleButtonKeeps
  <2> HIDE DEF a
  <2>4. DOMAIN a = Names
    BY <2>3 DEF Typed
  <2>5. /\ on \in d.made /\ on # None /\ on \notin d.closed /\ on \in Window
        /\ d.half \subseteq d.made /\ d.closed \subseteq d.made /\ d.userWindow \in User \cup {None}
        /\ User \subseteq Window /\ None \notin Window /\ d.made \subseteq Window
    BY <2>2, Constants DEF Good, Typed, Held
  <2>6. told \subseteq {on} /\ gone \subseteq {on}
    BY <2>3
  <2>7. e = Noted(a, u, h) /\ b.half = a.half
    <3>1. CASE told = {}
      <4>1. b = a /\ u = a.userWindow
        BY <3>1
      <4> HIDE DEF b, u, h, told, gone
      <4>2. [a EXCEPT !.half = h] = [a EXCEPT !.userWindow = a.userWindow, !.half = h]
        BY <2>4 DEF Names
      <4> QED BY <4>1, <4>2 DEF Noted, b
    <3>2. CASE told # {}
      <4>1. b = [a EXCEPT !.userWindow = u]
        BY <3>2 DEF Close
      <4> HIDE DEF b, u, h, told, gone
      <4> QED BY <2>4, <4>1 DEF Noted, Names
    <3> QED BY <3>1, <3>2
  <2>8. u \in User \cup {None} /\ h \subseteq a.made
    BY <2>3, <2>5, <2>6, <2>7
  <2>9. h = d.half \cup (((gone \ told) \cup (told \ gone)) \cap User)
    BY <2>3, <2>7
  <2>10. u = IF told = {} \/ a.focussed \notin User THEN d.userWindow ELSE None
    BY <2>3
  <2>11. gone = {} \/ (gone = {on} /\ a.focussed = on)
    <3>1. CASE a.closed = d.closed
      BY <3>1
    <3>2. CASE a.closed = d.closed \cup {on} /\ a.focussed = on
      <4>1. gone = {on}
        BY <2>5, <3>2
      <4> QED BY <3>2, <4>1
    <3> QED BY <2>3, <3>1, <3>2
  <2>12. told = {} \/ (told = {on} /\ a.focussed = on)
    <3>1. CASE told = {}
      BY <3>1
    <3>2. CASE told # {}
      <4>1. told = {a.focussed} /\ a.focussed # None
        BY <3>2
      <4>2. a.focussed = on
        BY <2>3, <4>1
      <4> QED BY <4>1, <4>2
    <3> QED BY <3>1, <3>2
  <2>13. Here(a) = Here(d) \ gone /\ a.closed = d.closed \cup gone
    BY <2>3, <2>5
  <2> HIDE DEF told, gone, b, h, u, e
  <2>14. /\ Typed(e) /\ Held(e) /\ OnTop(e) /\ Counted(e) /\ Here(e) = Here(a)
    <3>1. Typed(a) /\ Held(a) /\ OnTop(a) /\ Counted(a)
      BY <2>3
    <3>2. u \in User \cup {None} /\ h \subseteq a.made
      BY <2>8
    <3>3. LET f == Noted(a, u, h) IN
          Typed(f) /\ Held(f) /\ OnTop(f) /\ Counted(f) /\ Here(f) = Here(a)
      BY ONLY <3>1, <3>2, NotedKeeps
    <3> QED BY <2>7, <3>3
  <2>15. /\ e.userWindow = u /\ e.half = h /\ e.closed = a.closed /\ e.made = a.made
         /\ e.children = a.children /\ e.min = a.min
    <3>1. LET f == Noted(a, u, h) IN
          /\ f.userWindow = u /\ f.half = h /\ f.closed = a.closed /\ f.made = a.made
          /\ f.children = a.children /\ f.min = a.min
      BY ONLY <2>4, NotedFields
    <3> QED BY <2>7, <3>1
  <2>16. OneUser(e)
    <3> SUFFICES ASSUME e.half = {}
                 PROVE  Here(e) \cap User \subseteq {e.userWindow} /\ e.userWindow \notin e.closed
      BY DEF OneUser
    <3>1. d.half = {} /\ ((gone \ told) \cup (told \ gone)) \cap User = {}
      BY <2>9, <2>15
    <3>2. Here(d) \cap User \subseteq {d.userWindow} /\ d.userWindow \notin d.closed
      BY <3>1 DEF Good, OneUser
    <3>3. CASE on \notin User
      BY <2>5, <2>10, <2>11, <2>12, <2>13, <2>14, <2>15, <3>2, <3>3
    <3>4. CASE on \in User
      <4>1. gone = told
        BY <2>11, <2>12, <3>1, <3>4
      <4>2. CASE gone = {}
        BY <2>10, <2>13, <2>14, <2>15, <3>2, <4>1, <4>2
      <4>3. CASE gone = {on}
        <5>1. u = None /\ d.userWindow = on
          BY <2>2, <2>10, <2>12, <3>2, <3>4, <4>1, <4>3
        <5> QED BY <2>5, <2>13, <2>14, <2>15, <3>2, <4>3, <5>1
      <4> QED BY <2>11, <4>2, <4>3
    <3> QED BY <3>3, <3>4
  <2>17. Good(e)
    BY <2>14, <2>16 DEF Good
  <2>18. Picked(d, on).children # <<>> /\ Picked(d, on) = r
    BY <2>2 DEF Active, r
  <2> QED BY <1>2, <2>1, <2>2, <2>3, <2>15, <2>17, <2>18
<1> QED BY <1>1, <1>2

-----------------------------------------------------------------------------
\* F3 and the taskbar.

\* FullScreen changes the window's size and place alone.
LEMMA FullScreenFields ==
  ASSUME NEW d, DOMAIN d = Names, NEW w
  PROVE  LET e == FullScreen(d, w) IN
         /\ DOMAIN e = Names
         /\ e.full = (IF w \in d.full THEN d.full \ {w} ELSE d.full \cup {w})
         /\ e.away = d.away \ {w}
         /\ e.children = d.children /\ e.focussed = d.focussed
         /\ e.minWindows = d.minWindows /\ e.min = d.min
         /\ e.userWindow = d.userWindow /\ e.made = d.made /\ e.closed = d.closed
         /\ e.refused = d.refused /\ e.half = d.half /\ e.astray = d.astray
BY DEF FullScreen, Names

\* F3 moves a window, and only one that is not minimised.
LEMMA FullScreenKeeps ==
  ASSUME NEW d, Good(d), d.focussed # None
  PROVE  LET e == FullScreen(d, d.focussed) IN Good(e) /\ e.children = d.children
<1> DEFINE w == d.focussed
           e == FullScreen(d, w)
<1>0. DOMAIN d = Names
  BY DEF Good, Typed
<1>1. /\ DOMAIN e = Names
      /\ e.full = (IF w \in d.full THEN d.full \ {w} ELSE d.full \cup {w})
      /\ e.away = d.away \ {w}
      /\ e.children = d.children /\ e.focussed = d.focussed
      /\ e.minWindows = d.minWindows /\ e.min = d.min
      /\ e.userWindow = d.userWindow /\ e.made = d.made /\ e.closed = d.closed
      /\ e.refused = d.refused /\ e.half = d.half /\ e.astray = d.astray
  <2> HIDE DEF w
  <2> QED BY ONLY <1>0, FullScreenFields
<1> HIDE DEF e
<1>2. w \in d.made
  BY DEF Good, Typed
<1>3. Here(e) = Here(d) /\ Minimised(e) = Minimised(d)
  BY <1>1 DEF Here, Minimised
<1>4. Typed(e)
  <2>1. e.full \subseteq d.made /\ e.away \subseteq d.away
    BY <1>1, <1>2 DEF Good, Typed
  <2> QED BY <1>1, <2>1 DEF Good, Typed
<1>5. Held(e) /\ OnTop(e) /\ OneUser(e)
  BY <1>1, <1>3 DEF Good, Held, OnTop, OneUser
<1>6. Counted(e)
  BY <1>1, <1>3 DEF Good, Counted, Minimised
<1> QED BY <1>1, <1>4, <1>5, <1>6 DEF Good, e

-----------------------------------------------------------------------------
\* What TaskBarClick does before it brings the window to the front.
LEMMA ReopenedFields ==
  ASSUME NEW d, DOMAIN d = Names, NEW w
  PROVE  LET e == [d EXCEPT !.min = @ \ {w}, !.away = @ \ {w}] IN
         /\ DOMAIN e = Names
         /\ e.min = d.min \ {w} /\ e.away = d.away \ {w}
         /\ e.children = d.children /\ e.focussed = d.focussed
         /\ e.minWindows = d.minWindows /\ e.full = d.full
         /\ e.userWindow = d.userWindow /\ e.made = d.made /\ e.closed = d.closed
         /\ e.refused = d.refused /\ e.half = d.half /\ e.astray = d.astray
BY DEF Names

\* What TaskBarClick does last.
LEMMA UncountedFields ==
  ASSUME NEW d, DOMAIN d = Names
  PROVE  LET e == [d EXCEPT !.minWindows = @ - 1] IN
         /\ DOMAIN e = Names
         /\ e.minWindows = d.minWindows - 1
         /\ e.min = d.min /\ e.away = d.away
         /\ e.children = d.children /\ e.focussed = d.focussed /\ e.full = d.full
         /\ e.userWindow = d.userWindow /\ e.made = d.made /\ e.closed = d.closed
         /\ e.refused = d.refused /\ e.half = d.half /\ e.astray = d.astray
BY DEF Names

\* The taskbar opens nothing but a minimised window.
LEMMA OpenedByFacts ==
  ASSUME NEW d, NEW x, OpenedBy(d, x) # None
  PROVE  d.minWindows # 0 /\ OpenedBy(d, x) \in Minimised(d)
<1> DEFINE counted == {w \in Minimised(d) : CountedFromBack(d, w) = x \div ButtonWidth(d) + 1}
<1>1. OpenedBy(d, x) = IF d.minWindows = 0 \/ counted = {} THEN None ELSE CHOOSE w \in counted : TRUE
  BY DEF OpenedBy
<1>2. counted \subseteq Minimised(d)
  OBVIOUS
<1> HIDE DEF counted
<1>3. ~(d.minWindows = 0 \/ counted = {})
  BY <1>1
<1>4. (CHOOSE w \in counted : TRUE) \in counted
  BY <1>3
<1> QED BY <1>1, <1>2, <1>3, <1>4

\* A click on the taskbar opens one minimised window and counts it off, or does nothing.
LEMMA TaskBarKeeps ==
  ASSUME NEW d, Good(d), NEW x
  PROVE  LET e == TaskBarClick(d, x)
             w == OpenedBy(d, x)
         IN  /\ Good(e) /\ e.made = d.made
             /\ \/ e = d
                \/ /\ w \in Here(d) /\ w \in d.min
                   /\ e.children = Raised(d.children, w) /\ e.focussed = w
                   /\ e.min = d.min \ {w}
<1> DEFINE w == OpenedBy(d, x)
           o == [d EXCEPT !.min = @ \ {w}, !.away = @ \ {w}]
           g == GetFocus(o, w)
           e == [g EXCEPT !.minWindows = @ - 1]
<1>1. CASE w = None
  BY <1>1 DEF TaskBarClick
<1>2. CASE w # None
  <2>1. TaskBarClick(d, x) = e
    BY <1>2 DEF TaskBarClick
  <2>2. d.minWindows # 0 /\ w \in Minimised(d)
    BY <1>2, OpenedByFacts
  <2> HIDE DEF w
  <2>3. w \in Here(d) /\ w \in d.min
    BY <2>2 DEF Minimised
  <2>4. DOMAIN d = Names
    BY DEF Good, Typed
  <2>5. /\ DOMAIN o = Names
        /\ o.min = d.min \ {w} /\ o.away = d.away \ {w}
        /\ o.children = d.children /\ o.focussed = d.focussed
        /\ o.minWindows = d.minWindows /\ o.full = d.full
        /\ o.userWindow = d.userWindow /\ o.made = d.made /\ o.closed = d.closed
        /\ o.refused = d.refused /\ o.half = d.half /\ o.astray = d.astray
    BY ONLY <2>4, ReopenedFields
  <2> HIDE DEF o
  <2>6. Here(o) = Here(d) /\ Minimised(o) = Minimised(d) \ {w}
    BY <2>5 DEF Here, Minimised
  <2>7. Typed(o) /\ Held(o)
    <3>1. o.min \subseteq d.made /\ o.away \subseteq o.min
      BY <2>5 DEF Good, Typed
    <3> QED BY <2>5, <2>6, <3>1 DEF Good, Typed, Held
  <2>8. o.children # <<>>
    <3>1. Here(o) = {o.children[i] : i \in 1 .. Len(o.children)}
      BY <2>7, StackFacts DEF Typed, Here
    <3> QED BY <2>3, <2>6, <3>1, EmptySeq
  <2>9. Chosen(o, w) = w
    BY <2>3, <2>6 DEF Chosen
  <2>10. /\ Typed(g) /\ Held(g) /\ OnTop(g)
         /\ Here(g) = Here(d) /\ Minimised(g) = Minimised(o)
         /\ g.children = Raised(o.children, w) /\ g.focussed = w
    BY <2>6, <2>7, <2>8, <2>9, GetFocusKeeps
  <2>11. /\ DOMAIN g = Names
         /\ g.minWindows = o.minWindows /\ g.min = o.min /\ g.away = o.away /\ g.full = o.full
         /\ g.userWindow = o.userWindow /\ g.made = o.made /\ g.closed = o.closed
         /\ g.refused = o.refused /\ g.half = o.half /\ g.astray = o.astray
    BY <2>5, GetFocusFields
  <2> HIDE DEF g
  <2>12. DOMAIN g = Names
    BY <2>11
  <2>13. /\ DOMAIN e = Names
         /\ e.minWindows = g.minWindows - 1
         /\ e.min = g.min /\ e.away = g.away
         /\ e.children = g.children /\ e.focussed = g.focussed /\ e.full = g.full
         /\ e.userWindow = g.userWindow /\ e.made = g.made /\ e.closed = g.closed
         /\ e.refused = g.refused /\ e.half = g.half /\ e.astray = g.astray
    BY ONLY <2>12, UncountedFields
  <2> HIDE DEF e
  <2>14. e.minWindows = d.minWindows - 1 /\ e.minWindows \in 0 .. Byte - 1
    <3>1. d.minWindows \in 0 .. Byte - 1 /\ Byte \in Nat
      BY Constants DEF Good, Typed
    <3> QED BY <2>2, <2>5, <2>11, <2>13, <3>1
  <2>15. Here(e) = Here(d) /\ Minimised(e) = Minimised(d) \ {w}
    BY <2>5, <2>6, <2>10, <2>11, <2>13 DEF Here, Minimised
  <2>16. Typed(e)
    BY <2>10, <2>13, <2>14 DEF Typed
  <2>17. Held(e) /\ OnTop(e)
    BY <2>10, <2>13, <2>15 DEF Held, OnTop
  <2>18. Counted(e)
    <3> SUFFICES ASSUME e.astray = {}
                 PROVE  /\ e.focussed \notin e.min /\ e.minWindows = Cardinality(Minimised(e))
                        /\ Minimised(e) \subseteq e.away
      BY DEF Counted
    <3>1. d.minWindows = Cardinality(Minimised(d)) /\ Minimised(d) \subseteq d.away
      BY <2>5, <2>11, <2>13 DEF Good, Counted
    <3>2. IsFiniteSet(Minimised(d))
      BY MinimisedFinite DEF Good
    <3>3. Cardinality(Minimised(e)) = d.minWindows - 1
      BY <2>2, <2>15, <3>1, <3>2, FS_RemoveElement
    <3>4. e.focussed \notin e.min
      BY <2>5, <2>10, <2>11, <2>13
    <3>5. Minimised(e) \subseteq e.away
      BY <2>5, <2>11, <2>13, <2>15, <3>1
    <3> QED BY <2>14, <3>3, <3>4, <3>5
  <2>19. OneUser(e)
    BY <2>5, <2>11, <2>13, <2>15 DEF Good, OneUser
  <2>20. Good(e)
    BY <2>16, <2>17, <2>18, <2>19 DEF Good
  <2> QED BY <2>1, <2>3, <2>5, <2>10, <2>11, <2>13, <2>20 DEF w
<1> QED BY <1>1, <1>2

-----------------------------------------------------------------------------
\* Every step keeps the desktop good.

\* The desktop before the GUI starts.
LEMMA EmptyFacts ==
  /\ Typed(EmptyDesk) /\ Held(EmptyDesk) /\ Counted(EmptyDesk) /\ OneUser(EmptyDesk)
  /\ EmptyDesk.made = {} /\ EmptyDesk.half = {} /\ EmptyDesk.closed = {}
  /\ EmptyDesk.userWindow = None /\ Here(EmptyDesk) = {}
<1> DEFINE d == EmptyDesk
<1>1. /\ DOMAIN d = Names
      /\ d.children = <<>> /\ d.focussed = None /\ d.minWindows = 0 /\ d.min = {} /\ d.away = {}
      /\ d.full = {} /\ d.userWindow = None /\ d.made = {} /\ d.closed = {} /\ d.refused = {}
      /\ d.half = {} /\ d.astray = {}
  BY DEF EmptyDesk, Names
<1> HIDE DEF d
<1>2. Len(<<>>) = 0 /\ <<>> \in Seq(Window) /\ DOMAIN <<>> = {}
  OBVIOUS
<1>3. Stack(d.children) /\ Len(d.children) <= MaxWindows /\ Here(d) = {}
  BY <1>1, <1>2, Constants DEF Stack, IsInjective, Here, ToSet
<1>4. Typed(d)
  <2>1. 0 \in 0 .. Byte - 1
    BY Constants
  <2> QED BY <1>1, <1>3, <2>1 DEF Typed
<1>5. Held(d) /\ OneUser(d)
  BY <1>1, <1>3 DEF Held, OneUser
<1>6. Counted(d)
  <2>1. Minimised(d) = {}
    BY <1>3 DEF Minimised
  <2> QED BY <1>1, <1>3, <2>1, FS_EmptySet DEF Counted
<1> QED BY <1>1, <1>3, <1>4, <1>5, <1>6 DEF d

\* A window that no command line holds opens: nothing changes for those that one does.
LEMMA CreateGood ==
  ASSUME NEW d, Typed(d), Held(d), Counted(d), OneUser(d),
         NEW w \in Window \ d.made, w \notin User, NEW dirty \in BOOLEAN
  PROVE  Good(CreateChild(d, w, dirty))
<1> DEFINE e == CreateChild(d, w, dirty)
<1>1. /\ Typed(e) /\ Held(e) /\ OnTop(e) /\ Counted(e)
      /\ Here(e) \in {Here(d), Here(d) \cup {w}}
      /\ e.userWindow = d.userWindow /\ e.closed = d.closed /\ e.half = d.half
  BY CreateKeeps
<1> HIDE DEF e
<1>2. OneUser(e)
  BY <1>1 DEF OneUser
<1> QED BY <1>1, <1>2 DEF Good, e

\* The GUI starts with a terminal on a good desktop.
LEMMA InitGood == Init => Good(desk)
<1> SUFFICES ASSUME NEW dirty \in BOOLEAN PROVE Good(CreateChild(EmptyDesk, Terminal, dirty))
  BY DEF Init
<1>1. Terminal \in Window \ EmptyDesk.made /\ Terminal \notin User
  BY WindowAssumption, EmptyFacts DEF WindowAssumption
<1> QED BY <1>1, EmptyFacts, CreateGood

\* The windows that no command line holds.
LEMMA RestFacts == \A w \in Rest : w \in Window /\ w \notin User
BY DEF Rest

\* A command opens a window.
LEMMA OpenGood ==
  ASSUME Good(desk), NEW w \in Rest, NEW dirty \in BOOLEAN, OpenWindow(w, dirty)
  PROVE  Good(desk')
<1>1. w \in Window \ desk.made /\ w \notin User
  BY RestFacts DEF OpenWindow
<1>2. Typed(desk) /\ Held(desk) /\ Counted(desk) /\ OneUser(desk)
  BY DEF Good
<1>3. Good(CreateChild(desk, w, dirty))
  BY ONLY <1>1, <1>2, CreateGood, dirty \in BOOLEAN
<1> QED BY <1>3 DEF OpenWindow

\* What is opened by a click on the icons.
LEMMA IconGood ==
  ASSUME NEW d, Good(d), NEW on, NEW w, w \in Rest \ d.made, NEW dirty \in BOOLEAN
  PROVE  Good(IconClick(d, on, w, dirty))
<1>1. w \in Window \ d.made /\ w \notin User
  BY RestFacts
<1>2. Typed(d) /\ Held(d) /\ Counted(d) /\ OneUser(d)
  BY DEF Good
<1>3. Good(CreateChild(d, w, dirty))
  BY ONLY <1>1, <1>2, CreateGood, dirty \in BOOLEAN
<1> QED BY <1>3 DEF IconClick

\* The command line opens its user window, having none: only the new one is there.
LEMMA UserGood ==
  ASSUME Good(desk), NEW w \in User, NEW dirty \in BOOLEAN, UserWindow(w, dirty)
  PROVE  Good(desk')
<1> DEFINE e == CreateChild(desk, w, dirty)
<1>1. w \in Window \ desk.made /\ desk.userWindow = None /\ desk' = [e EXCEPT !.userWindow = w]
  BY Constants DEF UserWindow, NoUserWindow
<1>2. Typed(desk) /\ Held(desk) /\ Counted(desk)
  BY DEF Good
<1>3. /\ Typed(e) /\ Held(e) /\ OnTop(e) /\ Counted(e)
      /\ Here(e) \in {Here(desk), Here(desk) \cup {w}}
      /\ e.closed = desk.closed /\ e.half = desk.half
  BY ONLY <1>1, <1>2, CreateKeeps, dirty \in BOOLEAN
<1> HIDE DEF e
<1>4. DOMAIN e = Names /\ w \in User \cup {None} /\ e.half \subseteq e.made
  BY <1>3 DEF Typed
<1>5. desk' = Noted(e, w, e.half)
  BY <1>1, <1>4 DEF Noted, Names
<1> DEFINE n == Noted(e, w, e.half)
<1>6. Typed(n) /\ Held(n) /\ OnTop(n) /\ Counted(n) /\ Here(n) = Here(e)
  <2>1. Typed(e) /\ Held(e) /\ OnTop(e) /\ Counted(e)
    BY <1>3
  <2> QED BY ONLY <1>4, <2>1, NotedKeeps
<1>7. n.userWindow = w /\ n.half = e.half /\ n.closed = e.closed
  BY ONLY <1>4, NotedFields
<1> HIDE DEF n
<1>8. OneUser(n)
  <2>1. w \notin desk.closed
    BY <1>1 DEF Good, Typed
  <2>2. None \notin Here(desk)
    BY Constants DEF Good, Held, Typed
  <2>3. desk.half = {} => Here(desk) \cap User = {}
    BY <1>1, <2>2 DEF Good, OneUser
  <2> QED BY <1>3, <1>6, <1>7, <2>1, <2>3 DEF OneUser
<1> QED BY <1>5, <1>6, <1>8 DEF Good, n

\* A mouse button passes through the taskbar, the icons and the windows.
LEMMA MouseGood ==
  ASSUME Good(desk), NEW on, NEW click \in Clicks, NEW x, NEW w, NEW dirty \in BOOLEAN,
         MouseDown(on, click, x, w, dirty)
  PROVE  Good(desk')
<1> DEFINE barred == IF x # None THEN TaskBarClick(desk, x) ELSE desk
           opened == IF w # None THEN IconClick(barred, on, w, dirty) ELSE barred
<1>1. desk' = OnMouseDown(opened, on, click) /\ (w # None => w \in Rest \ desk.made)
  BY DEF MouseDown
<1>2. Good(barred) /\ barred.made = desk.made
  BY TaskBarKeeps
<1> HIDE DEF barred
<1>3. Good(opened)
  BY <1>1, <1>2, IconGood
<1> HIDE DEF opened
<1> QED BY <1>1, <1>3, ClickKeeps

\* The inductive step.
LEMMA StepGood == Good(desk) /\ [Next]_vars => Good(desk')
<1> SUFFICES ASSUME Good(desk), [Next]_vars PROVE Good(desk')
  OBVIOUS
<1>1. CASE \E x \in ClickX \cup {None}, w \in Rest \cup {None}, dirty \in BOOLEAN :
             \E on \in Here(desk) \cup {w, None}, click \in Clicks :
               MouseDown(on, click, x, w, dirty)
  BY <1>1, MouseGood
<1>2. CASE \E w \in Rest, dirty \in BOOLEAN : OpenWindow(w, dirty)
  BY <1>2, OpenGood
<1>3. CASE \E w \in User, dirty \in BOOLEAN : UserWindow(w, dirty)
  BY <1>3, UserGood
<1>4. CASE KeyF3
  BY <1>4, FullScreenKeeps DEF KeyF3
<1>5. CASE UNCHANGED vars
  BY <1>5 DEF vars
<1> QED BY <1>1, <1>2, <1>3, <1>4, <1>5 DEF Next

IInv == Good(desk)

\* Every desktop that the handlers can leave is good: the invariant the theorems
\* below are read off from.
THEOREM WindowsGood == Spec => []IInv
<1>1. Init => IInv
  BY InitGood DEF IInv
<1>2. IInv /\ [Next]_vars => IInv'
  BY StepGood DEF IInv
<1> QED BY <1>1, <1>2, PTL DEF Spec

\* children[] holds each window opened and not closed once, keys go to no minimised
\* window and minWindows counts the minimised ones (widget.cc GetFocus, AddChild,
\* DeleteChild; window.cc Minimize; desktop.cc), for every number of windows.
THEOREM WindowsKept == Spec => []DesktopInv
<1>1. IInv => DesktopInv
  <2> SUFFICES ASSUME Good(desk) PROVE DesktopInv
    BY DEF IInv
  <2>1. TypeOK
    BY DEF Good, Typed, Stack, TypeOK
  <2>2. NoWindowLost
    BY DEF Good, Typed, Held, Stack, NoWindowLost
  <2>3. FocusVisible /\ MinCounted
    BY DEF Good, Counted, FocusVisible, MinCounted
  <2> QED BY <2>1, <2>2, <2>3 DEF DesktopInv
<1> QED BY <1>1, WindowsGood, PTL

\* The window the title bar buttons act on, children[0], is the one that keys go to
\* (CompositeWidget::OnMouseDown, GetFocus).
THEOREM FrontHasFocus == Spec => []FocusOnTop
<1>1. IInv => FocusOnTop
  BY DEF IInv, Good, OnTop, FocusOnTop
<1> QED BY <1>1, WindowsGood, PTL

\* The command line's userWindow is the one user window there is, unless a click
\* closed it without telling, or told without closing (Window::OnMouseDown).
THEOREM CommandLineKnowsItsWindow == Spec => []OneUserWindow
<1>1. IInv => OneUserWindow
  BY DEF IInv, Good, OneUser, OneUserWindow
<1> QED BY <1>1, WindowsGood, PTL

-----------------------------------------------------------------------------
\* The order of the windows behind.

(***************************************************************************)
(* From s to t a window came before another, that it was behind, only by   *)
(* coming among the first k.                                               *)
(***************************************************************************)
Order(s, t, k) ==
  \A a, b \in ToSet(s) \cap ToSet(t) :
    Place(s, a) < Place(s, b) /\ Place(t, b) < Place(t, a) => Place(t, b) <= k

\* Nothing has moved.
LEMMA OrderRefl ==
  ASSUME NEW s, Stack(s) PROVE Order(s, s, 0)
BY PlaceFacts, StackFacts DEF Order

\* The more may come to the front, the weaker the claim.
LEMMA OrderWeaker ==
  ASSUME NEW s, NEW t, Stack(t), NEW j \in Nat, NEW k \in Nat, j <= k, Order(s, t, j)
  PROVE  Order(s, t, k)
<1>1. \A a \in ToSet(t) : Place(t, a) \in 1 .. Len(t) /\ Len(t) \in Nat
  BY PlaceFacts, StackFacts
<1> QED BY <1>1 DEF Order

\* GetFocus lets one more window come to the front.
LEMMA OrderRaised ==
  ASSUME NEW s, NEW t, Stack(s), Stack(t), ToSet(s) \subseteq ToSet(t),
         NEW k \in Nat, Order(s, t, k), NEW w \in ToSet(t)
  PROVE  Order(s, Raised(t, w), k + 1)
<1> DEFINE r == Raised(t, w)
<1>1. /\ Stack(r) /\ ToSet(r) = ToSet(t) /\ Place(r, w) = 1
      /\ \A v \in ToSet(t) \ {w} :
           Place(r, v) = IF Place(t, v) < Place(t, w) THEN Place(t, v) + 1 ELSE Place(t, v)
  BY RaisedStack
<1> HIDE DEF r
<1>2. \A v \in ToSet(t) : Place(r, v) \in Nat /\ 1 <= Place(r, v) /\ Place(t, v) \in Nat
  BY <1>1, PlaceFacts, StackFacts
<1>3. ASSUME NEW a \in ToSet(s), NEW b \in ToSet(s),
             Place(s, a) < Place(s, b), Place(r, b) < Place(r, a)
      PROVE  Place(r, b) <= k + 1
  <2>1. a \in ToSet(t) /\ b \in ToSet(t)
    OBVIOUS
  <2>2. CASE b = w
    BY <1>1, <2>2
  <2>3. CASE b # w
    <3>1. a # w
      BY <1>1, <1>2, <1>3, <2>1
    <3>2. Place(t, b) < Place(t, a)
      BY <1>1, <1>2, <1>3, <2>1, <2>3, <3>1
    <3>3. Place(t, b) <= k
      BY <1>3, <2>1, <3>2 DEF Order
    <3> QED BY <1>1, <1>2, <2>1, <2>3, <3>3
  <2> QED BY <2>2, <2>3
<1>4. Order(s, r, k + 1)
  BY <1>3 DEF Order
<1> QED BY <1>4 DEF r

\* A window at the back changes no order.
LEMMA OrderAppend ==
  ASSUME NEW s, NEW t, Stack(t), ToSet(s) \subseteq ToSet(t),
         NEW k \in Nat, Order(s, t, k), NEW w \in Window \ ToSet(t)
  PROVE  Order(s, Append(t, w), k)
<1>1. \A v \in ToSet(t) : Place(Append(t, w), v) = Place(t, v)
  BY AppendStack
<1> QED BY <1>1 DEF Order

\* Nor does the front window going.
LEMMA OrderTail ==
  ASSUME NEW s, NEW t, Stack(t), t # <<>>, NEW k \in Nat, Order(s, t, k)
  PROVE  Order(s, Tail(t), k)
<1>1. /\ ToSet(Tail(t)) = ToSet(t) \ {t[1]}
      /\ \A v \in ToSet(t) \ {t[1]} : Place(Tail(t), v) = Place(t, v) - 1
  BY TailStack
<1>2. \A v \in ToSet(t) : Place(t, v) \in Nat
  BY PlaceFacts, StackFacts
<1>3. ASSUME NEW a \in ToSet(s) \cap ToSet(Tail(t)), NEW b \in ToSet(s) \cap ToSet(Tail(t)),
             Place(s, a) < Place(s, b), Place(Tail(t), b) < Place(Tail(t), a)
      PROVE  Place(Tail(t), b) <= k
  <2>1. a \in ToSet(t) \ {t[1]} /\ b \in ToSet(t) \ {t[1]}
    BY <1>1
  <2>2. Place(t, b) < Place(t, a)
    BY <1>1, <1>2, <1>3, <2>1
  <2>3. Place(t, b) <= k
    BY <1>3, <2>1, <2>2 DEF Order
  <2> QED BY <1>1, <1>2, <2>1, <2>3
<1> QED BY <1>3 DEF Order

\* A window is put at the back, if there is room, and the one chosen in front.
LEMMA CreateOrder ==
  ASSUME NEW s, Stack(s), NEW d, Good(d), ToSet(s) \subseteq Here(d),
         NEW k \in Nat, Order(s, d.children, k),
         NEW w \in Window \ d.made, NEW dirty \in BOOLEAN
  PROVE  Order(s, CreateChild(d, w, dirty).children, k + 1)
<1> DEFINE a == AddChild(New(d, w, dirty), w)
<1>1. Typed(d) /\ Held(d) /\ Counted(d)
  BY DEF Good
<1>2. Typed(a) /\ a.children # <<>> /\ a.children \in {d.children, Append(d.children, w)}
      /\ Here(a) \in {Here(d), Here(d) \cup {w}}
  BY ONLY <1>1, AddKeeps, w \in Window \ d.made, dirty \in BOOLEAN
<1>3. CreateChild(d, w, dirty) = GetFocus(a, w)
  BY DEF CreateChild, New
<1> HIDE DEF a
<1>4. Stack(d.children) /\ Here(d) = ToSet(d.children) /\ w \notin Here(d)
  BY <1>1 DEF Typed, Held, Here
<1>5. Stack(a.children) /\ Here(a) = ToSet(a.children) /\ ToSet(s) \subseteq ToSet(a.children)
  BY <1>2, <1>4 DEF Typed, Here
<1>6. Order(s, a.children, k)
  <2>1. Order(s, Append(d.children, w), k)
    <3>1. Stack(d.children) /\ ToSet(s) \subseteq ToSet(d.children) /\ w \in Window \ ToSet(d.children)
      BY <1>4
    <3> DEFINE t == d.children
    <3> HIDE DEF t
    <3>2. Stack(t) /\ ToSet(s) \subseteq ToSet(t) /\ w \in Window \ ToSet(t) /\ Order(s, t, k)
      BY <3>1 DEF t
    <3>3. Order(s, Append(t, w), k)
      BY ONLY <3>2, OrderAppend, k \in Nat
    <3> QED BY <3>3 DEF t
  <2> QED BY <1>2, <2>1
<1>7. Chosen(a, w) \in ToSet(a.children)
  BY <1>2, <1>5, ChosenThere
<1>8. GetFocus(a, w).children = Raised(a.children, Chosen(a, w))
  BY <1>2, GetFocusFields DEF Typed
<1> HIDE DEF Chosen
<1>9. ASSUME NEW c \in ToSet(a.children) PROVE Order(s, Raised(a.children, c), k + 1)
  BY <1>5, <1>6, OrderRaised
<1> QED BY <1>3, <1>7, <1>8, <1>9

\* A click brings at most the window under it.
LEMMA ClickOrder ==
  ASSUME NEW s, Stack(s), NEW d, Good(d), ToSet(s) \subseteq Here(d),
         NEW j \in Nat, NEW k \in Nat, Order(s, d.children, j), j <= k,
         NEW on, NEW click \in Clicks,
         Hits(d, on) /\ on # d.focussed => j + 1 <= k
  PROVE  Order(s, OnMouseDown(d, on, click).children, k)
<1> DEFINE e == OnMouseDown(d, on, click)
           p == Picked(d, on).children
<1>1. /\ ~Hits(d, on) => e = d
      /\ Hits(d, on) => e.children \in {p, Tail(p)} /\ on \in Here(d) /\ p # <<>>
  BY ClickKeeps
<1> HIDE DEF e
<1>2. Stack(d.children) /\ Here(d) = ToSet(d.children)
  BY DEF Good, Typed, Here
<1>3. CASE ~Hits(d, on)
  BY <1>1, <1>2, <1>3, OrderWeaker DEF e
<1>4. CASE Hits(d, on)
  <2>1. Stack(p) /\ Order(s, p, k)
    <3>1. CASE on = d.focussed
      BY <1>2, <3>1, OrderWeaker DEF Picked
    <3>2. CASE on # d.focussed
      <4>1. p = Raised(d.children, on)
        <5>1. DOMAIN d = Names /\ Chosen(d, on) = on
          BY <1>1, <1>4 DEF Good, Typed, Chosen
        <5> QED BY <3>2, <5>1, GetFocusFields DEF Picked
      <4>2. on \in ToSet(d.children)
        BY <1>1, <1>2, <1>4
      <4> HIDE DEF p
      <4>3. Stack(p)
        BY <1>2, <4>1, <4>2, RaisedStack
      <4>4. Order(s, p, j + 1) /\ j + 1 \in Nat
        BY <1>2, <4>1, <4>2, OrderRaised
      <4> QED BY <1>4, <3>2, <4>3, <4>4, OrderWeaker
    <3> QED BY <3>1, <3>2
  <2> HIDE DEF p
  <2> QED BY <1>1, <1>4, <2>1, OrderTail DEF e
<1> QED BY <1>3, <1>4

\* A step may bring one window or two.
LEMMA BroughtFacts == Brought \in Nat /\ 1 <= Brought
BY DEF Brought

\* The taskbar brings a window to the front, or nothing.
LEMMA TaskBarOrder ==
  ASSUME NEW d, Good(d), NEW x
  PROVE  LET e == TaskBarClick(d, x) IN
         /\ Good(e) /\ Order(d.children, e.children, 1) /\ ToSet(d.children) \subseteq Here(e)
         /\ e = d \/ (e.focussed \in d.min /\ e.min = d.min \ {e.focussed})
<1> DEFINE e == TaskBarClick(d, x)
           w == OpenedBy(d, x)
<1>1. /\ Good(e)
      /\ \/ e = d
         \/ /\ w \in Here(d) /\ w \in d.min
            /\ e.children = Raised(d.children, w) /\ e.focussed = w
            /\ e.min = d.min \ {w}
  BY TaskBarKeeps
<1> HIDE DEF e, w
<1>2. Stack(d.children) /\ Here(d) = ToSet(d.children) /\ Order(d.children, d.children, 0)
  BY OrderRefl DEF Good, Typed, Here
<1>3. CASE e = d
  BY <1>1, <1>2, <1>3, OrderWeaker DEF e
<1>4. CASE e # d
  <2>1. ToSet(e.children) = ToSet(d.children)
    BY <1>1, <1>2, <1>4, RaisedStack
  <2>2. Order(d.children, Raised(d.children, w), 0 + 1)
    <3>1. w \in ToSet(d.children)
      BY <1>1, <1>2, <1>4
    <3> QED BY <1>2, <3>1, OrderRaised
  <2>3. Order(d.children, e.children, 1)
    BY <1>1, <1>4, <2>2
  <2> QED BY <1>1, <1>4, <2>1, <2>3 DEF e, Here
<1> QED BY <1>3, <1>4

\* A mouse button brings two windows only if the taskbar opened another
\* window than the click or an icon made one: min or made tells.
LEMMA MouseOrder ==
  ASSUME Good(desk), NEW on, NEW click \in Clicks, NEW x, NEW w, NEW dirty \in BOOLEAN,
         MouseDown(on, click, x, w, dirty)
  PROVE  Order(desk.children, desk'.children, Brought)
<1> DEFINE barred == IF x # None THEN TaskBarClick(desk, x) ELSE desk
           opened == IF w # None THEN IconClick(barred, on, w, dirty) ELSE barred
           s == desk.children
<1>1. desk' = OnMouseDown(opened, on, click) /\ (w # None => w \in Rest \ desk.made)
  BY DEF MouseDown
<1>2. /\ Good(barred) /\ barred.made = desk.made
      /\ Order(s, barred.children, 1) /\ ToSet(s) \subseteq Here(barred)
      /\ barred = desk \/ (barred.focussed \in desk.min /\ barred.min = desk.min \ {barred.focussed})
  <2>1. Good(barred) /\ barred.made = desk.made
    BY TaskBarKeeps
  <2>2. CASE x # None
    BY <2>1, <2>2, TaskBarOrder
  <2>3. CASE x = None
    <3>1. Stack(s) /\ Here(desk) = ToSet(s)
      BY DEF Good, Typed, Here
    <3>2. Order(s, s, 0)
      BY <3>1, OrderRefl
    <3>3. Order(s, s, 1)
      BY <3>1, <3>2, OrderWeaker
    <3> QED BY <2>1, <2>3, <3>1, <3>3
  <2> QED BY <2>2, <2>3
<1>3. Stack(s) /\ Here(desk) = ToSet(s)
  BY DEF Good, Typed, Here
<1> HIDE DEF barred
<1>4. CASE w = None \/ Hits(barred, on)
  <2>1. opened = barred
    BY <1>4 DEF IconClick
  <2> HIDE DEF opened
  <2>2. desk' = OnMouseDown(barred, on, click)
    BY <1>1, <2>1
  <2>3. CASE barred = desk
    <3>1. Order(s, s, 0) /\ barred.children = s
      BY <1>3, <2>3, OrderRefl
    <3> HIDE DEF s
    <3>2. Order(s, OnMouseDown(barred, on, click).children, Brought)
      <4>1. 0 \in Nat /\ 0 <= Brought /\ 0 + 1 <= Brought /\ Brought \in Nat
        BY BroughtFacts
      <4>2. Order(s, barred.children, 0)
        BY <3>1
      <4> QED BY <1>2, <1>3, <4>1, <4>2, ClickOrder
    <3> QED BY <2>2, <3>2 DEF s
  <2>4. CASE barred # desk
    <3>1. ASSUME Hits(barred, on), on # barred.focussed PROVE Brought = 2
      <4>1. desk'.min \in {barred.min, barred.min \cup {on}}
        BY <1>2, <2>2, <3>1, ClickKeeps
      <4>2. barred.focussed \in desk.min /\ barred.focussed \notin desk'.min
        BY <1>2, <2>4, <3>1, <4>1
      <4> QED BY <4>2 DEF Brought
    <3> HIDE DEF s
    <3>2. /\ 1 \in Nat /\ 1 <= Brought /\ Brought \in Nat
          /\ (Hits(barred, on) /\ on # barred.focussed => 1 + 1 <= Brought)
      BY BroughtFacts, <3>1
    <3>3. Order(s, OnMouseDown(barred, on, click).children, Brought)
      BY <1>2, <1>3, <3>2, ClickOrder
    <3> QED BY <2>2, <3>3 DEF s
  <2> QED BY <2>3, <2>4
<1>5. CASE w # None /\ ~Hits(barred, on)
  <2>1. opened = CreateChild(barred, w, dirty)
    BY <1>5 DEF IconClick
  <2>2. w \in Window \ barred.made /\ w \notin User
    BY <1>1, <1>2, <1>5, RestFacts
  <2>3. Typed(barred) /\ Held(barred) /\ Counted(barred) /\ OneUser(barred)
    BY <1>2 DEF Good
  <2> HIDE DEF opened
  <2>4. Good(CreateChild(barred, w, dirty))
    BY ONLY <2>2, <2>3, CreateGood, dirty \in BOOLEAN
  <2>5. LET e == CreateChild(barred, w, dirty) IN
        /\ Here(e) \in {Here(barred), Here(barred) \cup {w}} /\ e.made = barred.made \cup {w}
        /\ e.away = barred.away /\ (w \in Here(e) => e.focussed = w)
    BY ONLY <2>2, <2>3, CreateKeeps, dirty \in BOOLEAN
  <2>6. /\ Good(opened) /\ opened.made = barred.made \cup {w} /\ opened.away = barred.away
        /\ Here(opened) \in {Here(barred), Here(barred) \cup {w}}
        /\ w \in Here(opened) => opened.focussed = w
    BY <2>1, <2>4, <2>5
  <2>7. Brought = 2
    <3>1. desk'.made = opened.made
      BY <1>1, <2>6, ClickKeeps
    <3>2. w \in desk'.made /\ w \notin desk.made
      BY <1>2, <2>2, <2>6, <3>1
    <3> QED BY <3>2 DEF Brought
  <2> HIDE DEF s
  <2>8. Order(s, opened.children, 2)
    <3>1. Order(s, CreateChild(barred, w, dirty).children, 1 + 1)
      BY <1>2, <1>3, <2>2, CreateOrder
    <3> QED BY <2>1, <3>1
  <2>9. ToSet(s) \subseteq Here(opened)
    BY <1>2, <2>6
  <2>10. Hits(opened, on) => on = opened.focussed
    BY <1>5, <2>6 DEF Hits
  <2>11. Order(s, OnMouseDown(opened, on, click).children, 2)
    BY <1>3, <2>6, <2>8, <2>9, <2>10, ClickOrder
  <2> QED BY <1>1, <2>7, <2>11 DEF s
<1> QED BY <1>4, <1>5

\* A window is opened, and nothing else comes to the front.
LEMMA OpenOrder ==
  ASSUME Good(desk), NEW w \in Window \ desk.made, NEW dirty \in BOOLEAN
  PROVE  Order(desk.children, CreateChild(desk, w, dirty).children, 1)
<1> DEFINE s == desk.children
<1>1. Stack(s) /\ ToSet(s) = Here(desk)
  BY DEF Good, Typed, Here
<1>2. Order(s, s, 0)
  BY <1>1, OrderRefl
<1> HIDE DEF s
<1>3. ToSet(s) \subseteq Here(desk) /\ Order(s, desk.children, 0)
  BY <1>1, <1>2 DEF s
<1>4. Order(s, CreateChild(desk, w, dirty).children, 0 + 1)
  BY <1>1, <1>3, CreateOrder
<1> QED BY <1>4 DEF s

\* Every step keeps the order of the windows behind.
LEMMA StepOrder ==
  ASSUME Good(desk), Next
  PROVE  Order(desk.children, desk'.children, Brought)
<1>1. CASE \E x \in ClickX \cup {None}, w \in Rest \cup {None}, dirty \in BOOLEAN :
             \E on \in Here(desk) \cup {w, None}, click \in Clicks :
               MouseDown(on, click, x, w, dirty)
  BY <1>1, MouseOrder
<1>2. ASSUME Good(desk'), Order(desk.children, desk'.children, 1)
      PROVE  Order(desk.children, desk'.children, Brought)
  <2>1. Stack(desk'.children)
    BY <1>2 DEF Good, Typed
  <2> QED BY <1>2, <2>1, BroughtFacts, OrderWeaker
<1>3. Good(desk')
  BY StepGood
<1>4. CASE \E w \in Rest, dirty \in BOOLEAN : OpenWindow(w, dirty)
  <2>1. PICK w \in Rest, dirty \in BOOLEAN : OpenWindow(w, dirty)
    BY <1>4
  <2>2. w \in Window \ desk.made /\ desk' = CreateChild(desk, w, dirty)
    BY <2>1, RestFacts DEF OpenWindow
  <2> QED BY <1>2, <1>3, <2>2, OpenOrder
<1>5. CASE \E w \in User, dirty \in BOOLEAN : UserWindow(w, dirty)
  <2>1. PICK w \in User, dirty \in BOOLEAN : UserWindow(w, dirty)
    BY <1>5
  <2>2. w \in Window \ desk.made /\ desk' = [CreateChild(desk, w, dirty) EXCEPT !.userWindow = w]
    BY <2>1, Constants DEF UserWindow
  <2> DEFINE e == CreateChild(desk, w, dirty)
  <2>3. DOMAIN e = Names
    <3>1. Typed(desk) /\ Held(desk) /\ Counted(desk)
      BY DEF Good
    <3>2. Typed(e)
      BY ONLY <2>2, <3>1, CreateKeeps, dirty \in BOOLEAN
    <3> QED BY <3>2 DEF Typed
  <2>4. Order(desk.children, e.children, 1)
    BY <2>2, OpenOrder
  <2>5. desk' = [e EXCEPT !.userWindow = w]
    BY <2>2
  <2> HIDE DEF e
  <2>6. desk'.children = e.children
    BY <2>3, <2>5 DEF Names
  <2> QED BY <1>2, <1>3, <2>4, <2>6
<1>6. CASE KeyF3
  <2>1. desk'.children = desk.children /\ Stack(desk.children)
    BY <1>6, FullScreenKeeps DEF KeyF3, Good, Typed
  <2>2. Order(desk.children, desk.children, 0)
    BY <2>1, OrderRefl
  <2>3. Order(desk.children, desk.children, 1)
    BY <2>1, <2>2, OrderWeaker
  <2> QED BY <1>2, <1>3, <2>1, <2>3
<1> QED BY <1>1, <1>4, <1>5, <1>6 DEF Next

\* A step brings a window before another only by bringing it to the front, two at
\* most (Desktop::OnMouseDown, GetFocus).
THEOREM WindowsKeepOrder == Spec => StackOrder
<1>1. IInv /\ [Next]_vars => [StackStep]_vars
  <2> SUFFICES ASSUME Good(desk), Next PROVE StackStep
    BY DEF IInv
  <2> DEFINE old == desk.children
             new == desk'.children
  <2>1. Order(old, new, Brought)
    BY StepOrder
  <2>2. Stack(old) /\ Stack(new)
    <3>1. Good(desk')
      BY StepGood
    <3> QED BY <3>1 DEF Good, Typed
  <2> HIDE DEF old, new
  <2>3. ASSUME NEW i \in DOMAIN new, NEW j \in DOMAIN new, Brought < i, i < j,
               {new[i], new[j]} \subseteq ToSet(old)
        PROVE  Place(old, new[i]) < Place(old, new[j])
    <3>1. /\ new[i] \in ToSet(old) \cap ToSet(new) /\ new[j] \in ToSet(old) \cap ToSet(new)
          /\ Place(new, new[i]) = i /\ Place(new, new[j]) = j /\ i \in Nat /\ j \in Nat
      BY <2>2, <2>3, StackFacts, PlaceFacts
    <3>2. Place(old, new[i]) \in Nat /\ Place(old, new[j]) \in Nat
      BY <2>2, <3>1, StackFacts, PlaceFacts
    <3>3. Place(old, new[i]) # Place(old, new[j])
      <4>1. new[i] # new[j]
        BY <2>3, <3>1
      <4> QED BY <2>2, <3>1, <4>1, PlaceFacts
    <3>4. ~(Place(old, new[j]) < Place(old, new[i]))
      BY <2>1, <2>3, <3>1, BroughtFacts DEF Order
    <3> QED BY <3>2, <3>3, <3>4
  <2> QED BY <2>3 DEF StackStep, old, new
<1> QED BY <1>1, WindowsGood, PTL DEF Spec, StackOrder

-----------------------------------------------------------------------------
\* The taskbar: the window shown is the window opened.

(***************************************************************************)
(* The minimised windows, counted from the front and from the back.        *)
(***************************************************************************)
LEMMA Sides ==
  ASSUME NEW d, Typed(d), NEW w \in Minimised(d)
  PROVE  /\ Cardinality(InFront(d, w)) \in Nat /\ Cardinality(Behind(d, w)) \in Nat
         /\ Cardinality(InFront(d, w)) + Cardinality(Behind(d, w)) + 1 = Cardinality(Minimised(d))
         /\ IsFiniteSet(InFront(d, w)) /\ w \notin InFront(d, w)
<1> DEFINE s == d.children
           A == InFront(d, w)
           B == Behind(d, w)
           M == Minimised(d)
<1>1. /\ \A v \in M : Place(s, v) \in Nat
      /\ \A u, v \in M : Place(s, u) = Place(s, v) => u = v
  <2>1. Stack(s) /\ M \subseteq ToSet(s)
    BY DEF Typed, Minimised, Here
  <2> HIDE DEF M, s
  <2> QED BY <2>1, PlaceFacts, StackFacts
<1>2. IsFiniteSet(M) /\ Cardinality(M) \in Nat
  BY MinimisedFinite
<1>3. A \subseteq M /\ B \subseteq M /\ w \notin A /\ w \notin B /\ A \cap B = {}
  BY <1>1 DEF InFront, Behind
<1>4. M = (A \cup B) \cup {w} /\ w \notin A \cup B
  <2>1. M \subseteq (A \cup B) \cup {w}
    BY <1>1 DEF InFront, Behind
  <2> QED BY <1>3, <2>1
<1> HIDE DEF A, B, M
<1>5. IsFiniteSet(A) /\ IsFiniteSet(B) /\ Cardinality(A) \in Nat /\ Cardinality(B) \in Nat
  BY <1>2, <1>3, FS_Subset, FS_CardinalityType
<1>6. IsFiniteSet(A \cup B) /\ Cardinality(A \cup B) = Cardinality(A) + Cardinality(B)
  <2>1. Cardinality(A \cap B) = 0
    BY <1>3, FS_EmptySet
  <2>2. IsFiniteSet(A \cup B) /\ Cardinality(A \cup B) = Cardinality(A) + Cardinality(B) - Cardinality(A \cap B)
    BY <1>5, FS_Union
  <2> QED BY <1>5, <2>1, <2>2
<1>7. Cardinality(M) = Cardinality(A \cup B) + 1
  BY <1>4, <1>6, FS_AddElement
<1> QED BY <1>3, <1>5, <1>6, <1>7 DEF A, B, M

\* One of two minimised windows is in front of the other, and counts less.
LEMMA SidesDiffer ==
  ASSUME NEW d, Typed(d), NEW v \in Minimised(d), NEW w \in Minimised(d), v # w
  PROVE  /\ v \in InFront(d, w) \/ w \in InFront(d, v)
         /\ v \in InFront(d, w) => w \in Behind(d, v)
         /\ v \in InFront(d, w) => Cardinality(InFront(d, v)) < Cardinality(InFront(d, w))
<1> DEFINE s == d.children
           M == Minimised(d)
<1>1. /\ \A u \in M : Place(s, u) \in Nat
      /\ \A t, u \in M : Place(s, t) = Place(s, u) => t = u
  <2>1. Stack(s) /\ M \subseteq ToSet(s)
    BY DEF Typed, Minimised, Here
  <2> HIDE DEF M, s
  <2> QED BY <2>1, PlaceFacts, StackFacts
<1>2. v \in InFront(d, w) \/ w \in InFront(d, v)
  BY <1>1 DEF InFront
<1>3. v \in InFront(d, w) => w \in Behind(d, v)
  BY DEF InFront, Behind
<1>4. ASSUME v \in InFront(d, w)
      PROVE  Cardinality(InFront(d, v)) < Cardinality(InFront(d, w))
  <2> DEFINE A == InFront(d, v)
             B == InFront(d, w)
  <2>1. A \cup {v} \subseteq B
    BY <1>1, <1>4 DEF InFront
  <2>2. IsFiniteSet(A) /\ IsFiniteSet(B) /\ v \notin A /\ Cardinality(A) \in Nat
    BY Sides
  <2> HIDE DEF A, B
  <2>3. IsFiniteSet(A \cup {v}) /\ Cardinality(A \cup {v}) = Cardinality(A) + 1
    BY <2>2, FS_AddElement
  <2>4. Cardinality(A \cup {v}) <= Cardinality(B) /\ Cardinality(B) \in Nat
    BY <2>1, <2>2, FS_Subset, FS_CardinalityType
  <2> QED BY <2>2, <2>3, <2>4 DEF A, B
<1> QED BY <1>2, <1>3, <1>4

\* Each number is that of one minimised window.
LEMMA Numbered ==
  ASSUME NEW d, Typed(d), NEW q \in Nat, q < Cardinality(Minimised(d))
  PROVE  \E w \in Minimised(d) : Cardinality(InFront(d, w)) = q
<1> DEFINE M == Minimised(d)
           m == Cardinality(M)
           f == [w \in M |-> Cardinality(InFront(d, w))]
<1>1. IsFiniteSet(M) /\ m \in Nat
  BY MinimisedFinite
<1>2. \A w \in M : Cardinality(InFront(d, w)) \in 0 .. m - 1
  BY <1>1, Sides
<1>3. \A v, w \in M : f[v] = f[w] => v = w
  <2> SUFFICES ASSUME NEW v \in M, NEW w \in M, v # w PROVE f[v] # f[w]
    OBVIOUS
  <2>1. Cardinality(InFront(d, v)) \in Nat /\ Cardinality(InFront(d, w)) \in Nat
    BY Sides
  <2>2. CASE v \in InFront(d, w)
    BY <2>1, <2>2, SidesDiffer
  <2>3. CASE w \in InFront(d, v)
    BY <2>1, <2>3, SidesDiffer
  <2> QED BY <2>2, <2>3, SidesDiffer
<1>4. f \in [M -> 0 .. m - 1]
  BY <1>2
<1>5. f \in Injection(M, 0 .. m - 1)
  <2>1. DOMAIN f = M
    BY <1>4
  <2> HIDE DEF f, M, m
  <2> QED BY <1>3, <1>4, <2>1 DEF Injection, IsInjective
<1>6. IsFiniteSet(0 .. m - 1) /\ Cardinality(0 .. m - 1) = m
  <2> HIDE DEF m
  <2>1. 0 \in Int /\ m - 1 \in Int /\ (0 > m - 1 => m = 0) /\ (m - 1) - 0 + 1 = m
    BY <1>1
  <2>2. /\ IsFiniteSet(0 .. m - 1)
        /\ Cardinality(0 .. m - 1) = IF 0 > m - 1 THEN 0 ELSE (m - 1) - 0 + 1
    BY <2>1, FS_Interval
  <2> QED BY <2>1, <2>2
<1> HIDE DEF f
<1>7. f \in Surjection(M, 0 .. m - 1)
  <2> DEFINE N == 0 .. m - 1
  <2>1. f \in Injection(M, N) /\ IsFiniteSet(N) /\ Cardinality(M) = Cardinality(N)
    BY <1>5, <1>6
  <2> HIDE DEF N, M, m
  <2>2. f \in Surjection(M, N)
    BY ONLY <2>1, FS_Injection
  <2> QED BY <2>2 DEF N
<1>8. \E w \in M : f[w] = q
  <2>1. q \in 0 .. m - 1
    BY <1>1
  <2> HIDE DEF M, m
  <2> QED BY <1>7, <2>1 DEF Surjection
<1> QED BY <1>8 DEF f

\* Four buttons' left edges fit in a byte.
LEMMA EdgeFits ==
  ASSUME NEW m \in 1 .. 4, NEW k \in Nat, k < m
  PROVE  (Width \div m) \in Nat /\ ((Width \div m) * k) % Byte = (Width \div m) * k
<1>1. Width \in Nat /\ Byte \in Nat /\ 1 <= Byte /\ 3 * Width < 4 * Byte
  BY Constants
<1>2. CASE k = 0
  <2>1. (Width \div m) \in Nat
    BY <1>1
  <2>2. 0 % Byte = 0
    BY <1>1
  <2> QED BY <1>2, <2>1, <2>2
<1>3. CASE m = 2 /\ k = 1
  <2>1. (Width \div 2) \in Nat /\ (Width \div 2) < Byte
    BY <1>1
  <2> QED BY <1>1, <1>3, <2>1
<1>4. CASE m = 3
  <2>1. (Width \div 3) \in Nat /\ (Width \div 3) * 2 < Byte
    BY <1>1
  <2> QED BY <1>1, <1>2, <1>4, <2>1
<1>5. CASE m = 4
  <2>1. (Width \div 4) \in Nat /\ (Width \div 4) * 3 < Byte
    BY <1>1
  <2> QED BY <1>1, <1>2, <1>5, <2>1
<1> QED BY <1>2, <1>3, <1>4, <1>5

\* Division leaves a remainder.
LEMMA Divided ==
  ASSUME NEW x \in Nat, NEW b \in Nat, b # 0
  PROVE  x \div b \in Nat /\ b * (x \div b) <= x /\ x < b * (x \div b) + b
OBVIOUS

\* Multiples keep the order.
LEMMA Smaller ==
  ASSUME NEW b \in Nat, NEW p \in Nat, NEW q \in Nat
  PROVE  /\ b * p < b * q => p < q
         /\ p < q => b * p + b <= b * q
         /\ b * p <= 2 * (b * p)
OBVIOUS

\* The button of the q-th minimised window from the front is seen from its edge on.
LEMMA OpensShown ==
  ASSUME NEW d, Typed(d), d.minWindows = Cardinality(Minimised(d)), d.minWindows \in 1 .. 4,
         NEW x \in Nat, x < ButtonWidth(d) * d.minWindows
  PROVE  OpenedBy(d, x) = ShownAt(d, x)
<1> DEFINE m == d.minWindows
           b == ButtonWidth(d)
           M == Minimised(d)
           F(w) == Cardinality(InFront(d, w))
           q == x \div b
           drawn == {w \in M : LeftEdge(d, w) <= x /\ x < 2 * LeftEdge(d, w) + b}
           counted == {w \in M : CountedFromBack(d, w) = q + 1}
<1>1. m \in 1 .. 4 /\ m = Cardinality(M) /\ b = Width \div m /\ x < b * m
  BY DEF ButtonWidth
<1>2. b \in Nat
  <2>1. 0 < m /\ 0 \in Nat
    BY <1>1
  <2> QED BY <1>1, <2>1, EdgeFits
<1>3. b # 0
  <2> HIDE DEF b, m
  <2> QED BY <1>1, <1>2
<1>4. /\ OpenedBy(d, x) = IF m = 0 \/ counted = {} THEN None ELSE CHOOSE w \in counted : TRUE
      /\ ShownAt(d, x) = IF m = 0 \/ drawn = {} THEN None
                         ELSE CHOOSE w \in drawn : drawn \cap Behind(d, w) = {}
  BY DEF OpenedBy, ShownAt
<1>5. \A w \in M : LeftEdge(d, w) = b * F(w) /\ CountedFromBack(d, w) = F(w) + 1 /\ F(w) \in Nat
  <2> TAKE w \in M
  <2>1. /\ F(w) \in Nat /\ Cardinality(Behind(d, w)) \in Nat
        /\ F(w) + Cardinality(Behind(d, w)) + 1 = m
    BY Sides
  <2>2. LeftEdge(d, w) = (b * F(w)) % Byte /\ CountedFromBack(d, w) = m - Cardinality(Behind(d, w))
    BY DEF LeftEdge, CountedFromBack
  <2> HIDE DEF m, F
  <2>3. F(w) < m
    BY <1>1, <2>1
  <2>4. (b * F(w)) % Byte = b * F(w)
    BY <1>1, <2>1, <2>3, EdgeFits
  <2> QED BY <1>1, <2>1, <2>2, <2>4
<1> HIDE DEF b, m, M, F
<1>6. q \in Nat /\ b * q <= x /\ x < b * q + b
  BY <1>2, <1>3, Divided
<1> HIDE DEF q
<1>7. q < m
  <2>1. m \in Nat /\ b * q < b * m
    BY <1>1, <1>2, <1>6
  <2> QED BY <1>2, <1>6, <2>1, Smaller
<1>8. PICK w \in M : F(w) = q
  <2>1. q < Cardinality(Minimised(d))
    BY <1>1, <1>7 DEF M
  <2> QED BY <1>6, <2>1, Numbered DEF M, F
<1>9. counted = {w}
  <2>1. \A v \in counted : v = w
    <3> SUFFICES ASSUME NEW v \in M, F(v) = q, v # w PROVE FALSE
      BY <1>5, <1>6
    <3>1. F(v) < F(w) \/ F(w) < F(v)
      BY <1>8, SidesDiffer DEF F, M
    <3> QED BY <1>6, <1>8, <3>1
  <2>2. w \in counted
    BY <1>5, <1>6, <1>8
  <2> QED BY <2>1, <2>2
<1>10. w \in drawn
  <2>1. LeftEdge(d, w) = b * q
    BY <1>5, <1>8
  <2>2. b * q <= 2 * (b * q) /\ b * q \in Nat
    BY <1>2, <1>6, Smaller
  <2>3. x < 2 * (b * q) + b
    BY <1>2, <1>6, <2>2
  <2> QED BY <1>6, <2>1, <2>3
<1>11. ASSUME NEW v \in drawn, v \in Behind(d, w) PROVE FALSE
  <2>1. v \in M /\ v # w /\ w \in InFront(d, v)
    <3>1. Place(d.children, w) \in Nat
      BY <1>8, PlaceFacts, StackFacts DEF M, Minimised, Here, Typed
    <3> QED BY <1>8, <1>11, <3>1 DEF Behind, InFront, M
  <2>2. q < F(v) /\ F(v) \in Nat
    BY <1>5, <1>8, <2>1, SidesDiffer DEF F, M
  <2>3. b * q + b <= b * F(v) /\ b * F(v) \in Nat
    BY <1>2, <1>6, <2>2, Smaller
  <2>4. b * F(v) <= x
    BY <1>5, <1>11
  <2> QED BY <1>2, <1>6, <2>3, <2>4
<1>12. ASSUME NEW v \in drawn, v # w PROVE w \in drawn \cap Behind(d, v)
  <2>1. v \in M
    OBVIOUS
  <2>2. v \in InFront(d, w) \/ w \in InFront(d, v)
    BY <1>8, <1>12, <2>1, SidesDiffer DEF M
  <2>3. w \notin InFront(d, v)
    BY <1>8, <1>11, <1>12, <2>1, SidesDiffer DEF M
  <2>4. w \in Behind(d, v)
    BY <1>8, <1>12, <2>1, <2>2, <2>3, SidesDiffer DEF M
  <2> QED BY <1>10, <2>4
<1> HIDE DEF drawn, counted
<1>13. OpenedBy(d, x) = w
  <2>1. m # 0
    BY <1>1
  <2> QED BY <1>4, <1>9, <2>1
<1>14. (CHOOSE v \in drawn : drawn \cap Behind(d, v) = {}) = w
  <2>1. drawn \cap Behind(d, w) = {}
    BY <1>11
  <2>2. \A v \in drawn : drawn \cap Behind(d, v) = {} => v = w
    BY <1>12
  <2> QED BY <1>10, <2>1, <2>2
<1>15. ShownAt(d, x) = w
  <2>1. m # 0
    BY <1>1
  <2> QED BY <1>4, <1>10, <1>14, <2>1
<1> QED BY <1>13, <1>15

\* DrawTaskBar counts the buttons from the front and TaskBarClick from the back; as
\* long as the left edges fit in a byte, both mean the same window.
THEOREM ButtonsOpenWhatTheyShow == Spec => []TaskBarOpensShown
<1>1. IInv => TaskBarOpensShown
  <2> SUFFICES ASSUME Good(desk), desk.astray = {}, desk.minWindows \in 1 .. 4, NEW x \in ClickX,
                      x < ButtonWidth(desk) * desk.minWindows
               PROVE  OpenedBy(desk, x) = ShownAt(desk, x)
    BY DEF IInv, TaskBarOpensShown
  <2>1. Typed(desk) /\ desk.minWindows = Cardinality(Minimised(desk))
    BY DEF Good, Counted
  <2>2. x \in Nat
    BY Constants
  <2> QED BY <2>1, <2>2, OpensShown
<1> QED BY <1>1, WindowsGood, PTL
=============================================================================
