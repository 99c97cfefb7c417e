---------------------------- MODULE WindowManager ----------------------------
(***************************************************************************)
(* The windows of the desktop: CompositeWidget (src/src/gui/widget.cc),    *)
(* Window (gui/window.cc) and Desktop (gui/desktop.cc), with the `window`  *)
(* command of cli.cc and Script::Close of script.cc.                       *)
(*                                                                         *)
(* Geometry is reduced to what the control depends on: a click names the   *)
(* window it is `on`, the first whose rectangle holds its point, the part  *)
(* of that window it hits, and whether a desktop icon or the taskbar is    *)
(* under it.  A minimised window is parked outside the screen, where no    *)
(* point is; any other window may have been dragged anywhere.  What the    *)
(* programs in the windows draw, menus, resizing, the names of windows and *)
(* the simulator, which takes clicks and keys away from the windows while  *)
(* it runs, are left out, and so are the user windows of command lines     *)
(* other than the first.  Windows are never destroyed (FreeChild is not    *)
(* called).                                                                *)
(*                                                                         *)
(* A handler maps the desktop d, a record, to the desktop it leaves, so    *)
(* that one click may pass through several.                                *)
(***************************************************************************)
EXTENDS Integers, Sequences, FiniteSets, SequencesExt

CONSTANTS
  Window,      \* the windows that are ever made
  Terminal,    \* the one made when the GUI starts; it has a command line
  User,        \* windows that command line opens with `window`
  None,        \* the null pointer
  MaxWindows,  \* size of children[]; 30 in the code
  Width,       \* WIDTH_13H: 320
  Byte,        \* the range of a uint8_t: 256
  ClickX       \* where on the taskbar the mouse is clicked

ASSUME WindowAssumption ==
  /\ Terminal \in Window /\ User \subseteq Window \ {Terminal}
  /\ None \notin Window
  /\ MaxWindows \in Nat \ {0}
  /\ Width \in Nat /\ Byte \in Nat
  /\ MaxWindows < Byte /\ Byte <= Width /\ 3 * Width < 4 * Byte
  /\ ClickX \subseteq 0 .. Width - 1

VARIABLE desk  \* the desktop, a record like EmptyDesk

vars == <<desk>>

Rest == Window \ ({Terminal} \cup User)

EmptyDesk ==
  [children |-> <<>>, focussed |-> None, minWindows |-> 0,
   min |-> {},            \* windows whose Min is set
   away |-> {},           \* windows parked at (320, 200)
   full |-> {},           \* windows whose Fullscreen is set
   userWindow |-> None,   \* CommandLine::userWindow of the Terminal
   made |-> {}, closed |-> {}, refused |-> {},
   half |-> {},           \* user windows closed but not told, or told but not closed
   astray |-> {}]         \* how the desktop has left the ground it works on

Here(d) == ToSet(d.children)

-----------------------------------------------------------------------------
(***************************************************************************)
(* GetFocus brings a window to the front, the others keeping their order.  *)
(* For a window that is not there (AddChild refused it) the loop runs to   *)
(* the end of children[], and one further: behind it lies focussedChild,   *)
(* which gets the last window, and is put in front.                        *)
(*                                                                         *)
(* A definition named after a mistake, here and below, is a variant of the *)
(* one that follows it: put in its place it must make a property fail.     *)
(***************************************************************************)
RaisedBySwap(s, w) ==
  [i \in 1 .. Len(s) |-> IF i = 1 THEN w ELSE IF s[i] = w THEN s[1] ELSE s[i]]

Place(s, w) == CHOOSE i \in 1 .. Len(s) : s[i] = w

Raised(s, w) ==
  [i \in 1 .. Len(s) |-> IF i = 1 THEN w ELSE IF i <= Place(s, w) THEN s[i - 1] ELSE s[i]]

GetFocusInPlace(d, w) ==
  [d EXCEPT !.focussed = IF w \in Here(d) THEN w ELSE Last(d.children)]

GetFocus(d, w) ==
  LET front == IF w \in Here(d) THEN w ELSE Last(d.children)
  IN  [d EXCEPT !.focussed = front, !.children = Raised(@, front)]

AddChild(d, w) ==
  IF Len(d.children) >= MaxWindows
  THEN [d EXCEPT !.refused = @ \cup {w}, !.astray = @ \cup {"table full"}]
  ELSE [d EXCEPT !.children = Append(@, w)]

\* No constructor sets Min: it is what the memory held, here dirty.
CreateChild(d, w, dirty) ==
  LET new == [d EXCEPT !.made = @ \cup {w},
                       !.min = IF dirty THEN @ \cup {w} ELSE @,
                       !.astray = IF dirty THEN @ \cup {"Min not set"} ELSE @]
  IN  GetFocus(AddChild(new, w), w)

\* The front window goes; focussedChild goes on pointing to it.
DeleteChild(d) ==
  [d EXCEPT !.children = Tail(@), !.closed = @ \cup {d.children[1]}]

MinimizeUncounted(d) ==
  [d EXCEPT !.min = @ \cup {d.children[1]}, !.away = @ \cup {d.children[1]},
            !.focussed = None]

Minimize(d) ==
  [d EXCEPT !.min = @ \cup {d.children[1]}, !.away = @ \cup {d.children[1]},
            !.minWindows = (@ + 1) % Byte, !.focussed = None]

\* F3.  The window goes to the top left corner, or back to where it was made
\* or last minimised.
FullScreen(d, w) ==
  [d EXCEPT !.full = IF w \in @ THEN @ \ {w} ELSE @ \cup {w}, !.away = @ \ {w}]

\* app->Close(): a user window gives its place in the command line back.
Close(d, w) ==
  [d EXCEPT !.userWindow = IF w \in User THEN None ELSE @]

-----------------------------------------------------------------------------
(***************************************************************************)
(* The taskbar.  DrawTaskBar draws a button for each minimised window from *)
(* the front; the left edge of a button is kept in a byte, and a button    *)
(* covers the earlier ones from its left edge on.  TaskBarClick goes over  *)
(* the minimised windows from the back, counting down from minWindows to   *)
(* the number of the button that was clicked.                              *)
(***************************************************************************)
Minimised(d) == Here(d) \cap d.min
InFront(d, w) == {v \in Minimised(d) : Place(d.children, v) < Place(d.children, w)}
Behind(d, w) == {v \in Minimised(d) : Place(d.children, w) < Place(d.children, v)}

ButtonWidth(d) == Width \div d.minWindows

LeftEdge(d, w) == (ButtonWidth(d) * Cardinality(InFront(d, w))) % Byte

\* The window whose button is seen at x: the last drawn there.
ShownAt(d, x) ==
  LET drawn == {w \in Minimised(d) :
                  LeftEdge(d, w) <= x /\ x < 2 * LeftEdge(d, w) + ButtonWidth(d)}
  IN  IF d.minWindows = 0 \/ drawn = {} THEN None
      ELSE CHOOSE w \in drawn : drawn \cap Behind(d, w) = {}

CountedFromFront(d, w) == d.minWindows - Cardinality(InFront(d, w))
CountedFromBack(d, w) == d.minWindows - Cardinality(Behind(d, w))

OpenedBy(d, x) ==
  LET counted == {w \in Minimised(d) : CountedFromBack(d, w) = x \div ButtonWidth(d) + 1}
  IN  IF d.minWindows = 0 \/ counted = {} THEN None ELSE CHOOSE w \in counted : TRUE

TaskBarClick(d, x) ==
  LET w == OpenedBy(d, x)
  IN  IF w = None THEN d
      ELSE [GetFocus([d EXCEPT !.min = @ \ {w}, !.away = @ \ {w}], w)
              EXCEPT !.minWindows = @ - 1]

-----------------------------------------------------------------------------
\* Whether the point is on a window of the desktop.
Hits(d, on) == on \in Here(d) \ d.away

(***************************************************************************)
(* A mouse button goes down over the windows.  The window under the point  *)
(* that is in front gets the focus; the left button then works the buttons *)
(* of its title bar, which a fullscreen window has not; and the window     *)
(* that is focussed after that is told.  It calls its app's Close when the *)
(* point is in the corner of the close box, whichever mouse button it was  *)
(* (`inBox`): not within two pixels of its edge, which is for resizing,    *)
(* nor at the left of a very wide window, where ContainsCoordinateButton   *)
(* sees its buttons once more, its distance being kept in a byte.          *)
(* Maximize may put the corner under the point.  One stands for all clicks *)
(* that do the same, such as those that only maximise.                     *)
(***************************************************************************)
Clicks ==
  {[left |-> TRUE, part |-> "rest", inBox |-> FALSE],
   [left |-> TRUE, part |-> "min", inBox |-> FALSE],
   [left |-> TRUE, part |-> "max", inBox |-> TRUE],
   [left |-> TRUE, part |-> "close", inBox |-> FALSE],
   [left |-> TRUE, part |-> "close", inBox |-> TRUE],
   [left |-> FALSE, part |-> "close", inBox |-> TRUE]}

TitleButton(d, click) ==
  IF ~click.left \/ d.focussed \in d.full THEN d
  ELSE CASE click.part = "close" -> DeleteChild(d)
         [] click.part = "min" -> Minimize(d)
         [] click.part \in {"max", "rest"} -> d

OnMouseDown(d, on, click) ==
  LET raised == IF on = d.focussed THEN d ELSE GetFocus(d, on)
      acted == TitleButton(raised, click)
      told == IF click.inBox THEN {acted.focussed} \ ({None} \cup acted.full) ELSE {}
      gone == acted.closed \ d.closed
      after == IF told = {} THEN acted ELSE Close(acted, acted.focussed)
  IN  IF ~Hits(d, on) THEN d
      ELSE [after EXCEPT !.half = @ \cup (((gone \ told) \cup (told \ gone)) \cap User)]

\* An icon opens a window unless a window covers it.
IconClick(d, on, w, dirty) ==
  IF Hits(d, on) THEN d ELSE CreateChild(d, w, dirty)

-----------------------------------------------------------------------------
\* The GUI starts with a terminal.
Init ==
  \E dirty \in BOOLEAN : desk = CreateChild(EmptyDesk, Terminal, dirty)

(***************************************************************************)
(* Desktop::OnMouseDown: the taskbar first (x is None above it, and after  *)
(* F1 has hidden it), then the icons (w is None when there is none), then  *)
(* the windows, all with the same point and whatever the ones before have  *)
(* done.                                                                   *)
(***************************************************************************)
MouseDown(on, click, x, w, dirty) ==
  /\ w # None => w \in Rest \ desk.made
  /\ dirty => w # None
  /\ on = None => click.part = "rest"
  /\ LET barred == IF x # None THEN TaskBarClick(desk, x) ELSE desk
         opened == IF w # None THEN IconClick(barred, on, w, dirty) ELSE barred
     IN  desk' = OnMouseDown(opened, on, click)

\* `terminal`, `paint`, `journal` and the other commands that open a window, in
\* whichever terminal or script; the terminal that is made when the GUI is
\* entered again.
OpenWindow(w, dirty) ==
  /\ w \in Rest \ desk.made
  /\ desk' = CreateChild(desk, w, dirty)

NoUserWindowForgotten(d) == TRUE

\* The command line has no window of its own: it will open one.
NoUserWindow(d) == d.userWindow = None

\* `window`, typed into the Terminal or met in a script it runs.
UserWindow(w, dirty) ==
  /\ w \in User \ desk.made
  /\ NoUserWindow(desk)
  /\ desk' = [CreateChild(desk, w, dirty) EXCEPT !.userWindow = w]

KeyF3 ==
  /\ desk.focussed # None
  /\ desk' = FullScreen(desk, desk.focussed)

Next ==
  \/ \E x \in ClickX \cup {None}, w \in Rest \cup {None}, dirty \in BOOLEAN :
       \E on \in Here(desk) \cup {w, None}, click \in Clicks :
         MouseDown(on, click, x, w, dirty)
  \/ \E w \in Rest, dirty \in BOOLEAN : OpenWindow(w, dirty)
  \/ \E w \in User, dirty \in BOOLEAN : UserWindow(w, dirty)
  \/ KeyF3

Spec == Init /\ [][Next]_vars

-----------------------------------------------------------------------------
TypeOK ==
  /\ desk.children \in Seq(Window) /\ Len(desk.children) <= MaxWindows
  /\ desk.focussed \in Window \cup {None}
  /\ desk.minWindows \in 0 .. Byte - 1
  /\ desk.min \subseteq desk.made /\ desk.full \subseteq desk.made
  /\ desk.away \subseteq desk.min
  /\ desk.userWindow \in User \cup {None}
  /\ desk.made \subseteq Window
  /\ desk.closed \cup desk.refused \cup desk.half \subseteq desk.made

(***************************************************************************)
(* children[] holds every window that was opened, and not closed or        *)
(* refused, exactly once: bringing windows to the front loses and doubles  *)
(* none, not even when the table is full and GetFocus runs beyond it.      *)
(***************************************************************************)
NoWindowLost ==
  /\ IsInjective(desk.children)
  /\ Here(desk) = desk.made \ (desk.closed \cup desk.refused)

(***************************************************************************)
(* The window that keys go to is the one in front (or one that was closed, *)
(* which DeleteChild leaves focussed): the title bar buttons, which act on *)
(* children[0], act on the window that was clicked.                        *)
(***************************************************************************)
FocusOnTop ==
  desk.focussed \in Here(desk) => desk.focussed = desk.children[1]

(***************************************************************************)
(* Keys do not go to a minimised window, unless the table has been full or *)
(* a window came up with its Min flag not set by anyone.                   *)
(***************************************************************************)
FocusVisible ==
  desk.astray = {} /\ desk.focussed \in Here(desk) => desk.focussed \notin desk.min

(***************************************************************************)
(* minWindows, by which the taskbar is divided, counts the windows whose   *)
(* Min is set, with the same two exceptions.                               *)
(***************************************************************************)
MinCounted ==
  desk.astray = {} =>
    desk.minWindows = Cardinality(Minimised(desk))

(***************************************************************************)
(* The desktop's table and its two summaries, focussedChild and            *)
(* minWindows, agree through every order of clicks, keys and openings.     *)
(***************************************************************************)
DesktopInv == TypeOK /\ NoWindowLost /\ FocusVisible /\ MinCounted

(***************************************************************************)
(* The window whose button is seen on the taskbar is the one that a click  *)
(* there opens, although one side counts from the front and the other from *)
(* the back.  Not so from the fifth button on, whose left edge does not    *)
(* fit in a byte, nor in the pixels the division leaves over.              *)
(***************************************************************************)
TaskBarOpensShown ==
  desk.astray = {} /\ desk.minWindows \in 1 .. 4 =>
    \A x \in ClickX :
      x < ButtonWidth(desk) * desk.minWindows => OpenedBy(desk, x) = ShownAt(desk, x)

(***************************************************************************)
(* The command line believes in a user window as long as there is one, if  *)
(* every click that closed one also told it, and the other way round: it   *)
(* never has two, and none that is closed keeps `window` from working.     *)
(***************************************************************************)
OneUserWindow ==
  desk.half = {} =>
    /\ Here(desk) \cap User \subseteq {desk.userWindow}
    /\ desk.userWindow \notin desk.closed

(***************************************************************************)
(* Windows behind keep their order: in one step a window comes before      *)
(* another that it was behind only by coming to the front, where the       *)
(* taskbar or an icon and then the click itself may each bring one.        *)
(***************************************************************************)
Brought == IF desk'.min = desk.min /\ desk'.made = desk.made THEN 1 ELSE 2

StackStep ==
  LET old == desk.children
      new == desk'.children
  IN  \A i, j \in DOMAIN new :
        Brought < i /\ i < j /\ {new[i], new[j]} \subseteq ToSet(old)
          => Place(old, new[i]) < Place(old, new[j])

StackOrder == [][StackStep]_vars
=============================================================================
