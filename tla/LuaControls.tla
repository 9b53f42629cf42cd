---------------------------- MODULE LuaControls ----------------------------
(***************************************************************************)
(* trainer/src/bridge/lua_ui_bridge.cpp: the categories, windows and icons *)
(* that Lua scripts add to the menu, and their controls.                   *)
(*                                                                         *)
(* Scripts work on them from the game's thread (Dispatch), through tables  *)
(* that know the number of a category or an icon; the render thread draws  *)
(* them, lets the user change them, and takes them away or fills them in   *)
(* as scripts are loaded and unloaded (lua_script_bridge.cpp).  An action  *)
(* is a critical section of g_mutex.                                       *)
(***************************************************************************)
EXTENDS GameSession, Sequences

CONSTANTS
  Scripts, NoScript,  \* (which is none of them)
  Names,     \* of categories,
  Labels,    \* of controls
  Items,     \* what a selection of items offers
  Numbers,   \* values of toggles (0 and 1) and sliders,
  Ranges,    \* and the bounds, pairs of Numbers, scripts give the latter
  MaxMade,   \* bounds: categories and icons that scripts create,
  MaxShapes  \* and shapes of an icon (64 in the code)

VARIABLE menu

vars == <<menu, game, bounds>>

Owners == Scripts \cup {NoScript}

\* Texts are like toggles, the channels of a colour like sliders from 0 to 1.
Types == {"toggle", "slider", "items"}
Nothing == [i \in Items |-> 0]

\* LuaUiControl, by its label in its category.  items says how often an item is in the
\* list.  of is the table it was added through, and from the script whose value it has.
Controls == [type : Types, value : Numbers, low : Numbers, high : Numbers,
             items : [Items -> 0 .. 2], of : Nat, from : Owners]

\* LuaUiCategory and LuaUiIconDefinition: they are in the order in which they were made,
\* which is the order of made.  Of a shape the table it was drawn through is kept.
MenuTypeOK ==
  /\ \A c \in menu.categories :
       /\ c.id \in Nat /\ c.made \in 1 .. Len(menu.tables) /\ c.name \in Names
       /\ c.standalone \in BOOLEAN /\ c.owner \in Owners /\ Len(c.shapes) <= MaxShapes
       /\ DOMAIN c.controls \subseteq Labels /\ \A l \in DOMAIN c.controls : c.controls[l] \in Controls
  /\ \A i \in menu.icons :
       i.id \in Nat /\ i.made \in 1 .. Len(menu.pens) /\ i.owner \in Owners /\ Len(i.shapes) <= MaxShapes
  /\ menu.selected \in Nat /\ menu.owner \in Owners /\ menu.op \in Owners
  /\ menu.executing => menu.op # NoScript

First(S) == CHOOSE c \in S : \A d \in S : c.made <= d.made

Init ==
  /\ GameInit
  /\ menu = [categories |-> {}, icons |-> {}, selected |-> 0, nextCategory |-> 0, nextIcon |-> 0,
             owner |-> NoScript, creating |-> <<>>, tables |-> <<>>, pens |-> <<>>,
             open |-> FALSE, alive |-> FALSE, loaded |-> {},
             op |-> NoScript, executing |-> FALSE, saved |-> {}]

-----------------------------------------------------------------------------
(* Dispatch: the chunk that executes, one that was given up, or a callback *)
(* that a script has left in the game's events.                            *)

Made == Len(menu.tables) + Len(menu.pens) + Len(menu.creating)

\* PZSA.ui.icon: its table knows its number, which is never given again.
CreateIcon ==
  /\ menu.alive /\ menu.creating = <<>> /\ Made < MaxMade
  /\ menu' = [menu EXCEPT
       !.icons = @ \cup {[id |-> menu.nextIcon, made |-> Len(menu.pens) + 1,
                          owner |-> menu.owner, shapes |-> <<>>]},
       !.nextIcon = @ + 1, !.pens = Append(@, menu.nextIcon)]
  /\ UNCHANGED <<game, bounds>>

IconsOf(table) == {i \in menu.icons : i.id = menu.pens[table]}

\* line, rect and circle of an icon's table.
Draw(table) ==
  /\ menu.creating = <<>>
  /\ IconsOf(table) # {}
  /\ LET icon == First(IconsOf(table)) IN
       /\ Len(icon.shapes) < MaxShapes
       /\ menu' = [menu EXCEPT !.icons =
            (@ \ {icon}) \cup {[icon EXCEPT !.shapes = Append(@, table)]}]
  /\ UNCHANGED <<game, bounds>>

\* PZSA.ui.category and PZSA.imgui.window, with the table of an icon or without: its
\* shapes are copied under the lock,
BeginCategory(name, standalone, table) ==
  /\ menu.alive /\ menu.creating = <<>> /\ Made < MaxMade
  /\ menu' = [menu EXCEPT !.creating = <<[name |-> name, standalone |-> standalone,
       shapes |-> IF table = 0 \/ IconsOf(table) = {} THEN <<>> ELSE First(IconsOf(table)).shapes]>>]
  /\ UNCHANGED <<game, bounds>>

\* Faulty variant of NumberOf: a category is known by its place in the list.
NumberOfPlace(m) == Cardinality(m.categories)

\* The number of a category is never given again.
NumberOf(m) == m.nextCategory

\* and when the lock is taken once more, the category belongs to the script that is
\* executing by then.
FinishCategory ==
  /\ menu.creating # <<>>
  /\ LET new == Head(menu.creating) IN
       menu' = [menu EXCEPT
         !.categories = @ \cup {[id |-> NumberOf(menu), made |-> Len(menu.tables) + 1,
           name |-> new.name, standalone |-> new.standalone, owner |-> menu.owner,
           shapes |-> new.shapes, controls |-> <<>>]},
         !.nextCategory = @ + 1, !.tables = Append(@, NumberOf(menu)), !.creating = <<>>]
  /\ UNCHANGED <<game, bounds>>

\* std::clamp, which is undefined where the bounds are the wrong way round: it answers
\* with one of them.
Clamped(value, low, high, upper) ==
  IF low > high THEN (IF upper THEN high ELSE low)
  ELSE IF value < low THEN low ELSE IF value > high THEN high ELSE value

\* Faulty variant of Offered: the initial value of a slider is taken as it is.
OfferedPlainly(type, range, value, upper) ==
  [type |-> type, value |-> IF type = "items" THEN 0 ELSE value,
   low |-> IF type = "slider" THEN range[1] ELSE 0, high |-> IF type = "slider" THEN range[2] ELSE 1,
   items |-> Nothing]

\* What toggle, slider, input, color and item_multiselect ask for.
Offered(type, range, value, upper) ==
  [type |-> type,
   value |-> IF type = "slider" THEN Clamped(value, range[1], range[2], upper)
             ELSE IF type = "toggle" THEN Clamped(value, 0, 1, upper) ELSE 0,
   low |-> IF type = "slider" THEN range[1] ELSE 0, high |-> IF type = "slider" THEN range[2] ELSE 1,
   items |-> Nothing]

CategoriesOf(table) == {c \in menu.categories : c.id = menu.tables[table]}

\* A method of a category's table: nothing where the category is gone, or has a control
\* with that label, of whatever type.
AddControl(table, label, offer) ==
  /\ menu.creating = <<>>
  /\ CategoriesOf(table) # {}
  /\ LET c == First(CategoriesOf(table))
         control == [type |-> offer.type, value |-> offer.value, low |-> offer.low, high |-> offer.high,
                     items |-> offer.items, of |-> table, from |-> c.owner]
     IN  /\ label \notin DOMAIN c.controls
         /\ menu' = [menu EXCEPT !.categories = (@ \ {c}) \cup
              {[c EXCEPT !.controls = [l \in DOMAIN c.controls \cup {label} |->
                                         IF l = label THEN control ELSE c.controls[l]]]}]
  /\ UNCHANGED <<game, bounds>>

-----------------------------------------------------------------------------
(* The menu.                                                               *)

\* A click on the entry of a category, in the sidebar.
Select(c) ==
  /\ ~c.standalone
  /\ menu' = [menu EXCEPT !.selected = c.id, !.open = TRUE]
  /\ menu' # menu
  /\ UNCHANGED <<game, bounds>>

\* DrawLuaUi shows all windows, DrawLuaCategoryPage the category that is selected.
Shown ==
  LET page == {c \in menu.categories : c.id = menu.selected /\ ~c.standalone} IN
  {c \in menu.categories : c.standalone} \cup
    IF menu.open /\ page # {} THEN {First(page)} ELSE {}

\* ToggleSelection: an item that is in the list goes, once.
Toggled(items, i) == [items EXCEPT ![i] = IF @ = 0 THEN 1 ELSE @ - 1]

\* What the user makes of a control: the sliders of a window take any number that is
\* typed into them, those of a page clamp it.
Changes(c, control) ==
  CASE control.type = "toggle" -> {[control EXCEPT !.value = v] : v \in 0 .. 1}
    [] control.type = "slider" /\ c.standalone -> {[control EXCEPT !.value = v] : v \in Numbers}
    [] control.type = "slider" /\ ~c.standalone ->
         {[control EXCEPT !.value = Clamped(v, control.low, control.high, upper)] :
            v \in Numbers, upper \in BOOLEAN}
    [] control.type = "items" -> {[control EXCEPT !.items = Nothing]} \cup
         {[control EXCEPT !.items = Toggled(@, i)] : i \in Items}

Edit(c, label) ==
  /\ label \in DOMAIN c.controls
  /\ \E control \in Changes(c, c.controls[label]) :
       /\ control # c.controls[label]
       /\ menu' = [menu EXCEPT !.categories = (@ \ {c}) \cup
            {[c EXCEPT !.controls[label] = [control EXCEPT !.from = c.owner]]}]
  /\ UNCHANGED <<game, bounds>>

-----------------------------------------------------------------------------
(* What the loading and unloading of scripts does to the menu.             *)

\* Faulty variant of OwnedBy: what other scripts have is captured as well.
OwnedByAnyone(m, s) == m.categories

OwnedBy(m, s) == {c \in m.categories : c.owner = s}

\* CaptureLuaUiConfiguration
Captured(m, s) ==
  UNION {{[made |-> c.made, name |-> c.name, standalone |-> c.standalone, label |-> l,
           type |-> c.controls[l].type, value |-> c.controls[l].value,
           items |-> c.controls[l].items, from |-> c.controls[l].from] : l \in DOMAIN c.controls}
         : c \in OwnedBy(m, s)}

\* Faulty variant of Filled: a slider takes what was saved, whatever its range is now.
FilledAsSaved(control, saved, upper) ==
  [control EXCEPT !.value = saved.value, !.items = [i \in Items |-> IF saved.items[i] = 0 THEN 0 ELSE 1],
                  !.from = saved.from]

\* The value that was saved: within the bounds of the control as it is now, each item once.
Filled(control, saved, upper) ==
  [control EXCEPT
     !.value = IF control.type = "slider" THEN Clamped(saved.value, control.low, control.high, upper)
               ELSE saved.value,
     !.items = [i \in Items |-> IF saved.items[i] = 0 THEN 0 ELSE 1],
     !.from = saved.from]

\* RestoreLuaUiConfiguration: the first that was saved for a category of that name and
\* kind, with the label and the type of the control.
Restored(m, s, saved, upper) ==
  LET Like(c, l) == {v \in saved : /\ v.name = c.name /\ v.standalone = c.standalone
                                   /\ v.label = l /\ v.type = c.controls[l].type}
  IN [m EXCEPT !.categories =
        {IF c.owner # s THEN c
         ELSE [c EXCEPT !.controls = [l \in DOMAIN c.controls |->
                 IF Like(c, l) = {} THEN c.controls[l]
                 ELSE Filled(c.controls[l], First(Like(c, l)), upper)]] : c \in @}]

\* Faulty variant of Replacement: the page stays where it was.
ReplacementNever(m, left) == m.selected

\* Where the category that is selected goes, the first one that is left is selected.
Replacement(m, left) ==
  LET pages == {c \in left : ~c.standalone} IN
  IF \E c \in left : c.id = m.selected THEN m.selected
  ELSE IF pages = {} THEN 0 ELSE First(pages).id

\* RemoveLuaUiForScript
Removed(m, s) ==
  LET left == m.categories \ {c \in m.categories : c.owner = s} IN
  [m EXCEPT !.categories = left, !.icons = {i \in @ : i.owner # s}, !.selected = Replacement(m, left)]

\* A list that a configuration has for a script: from an earlier version of it, or by
\* hand.  (The value 0, which all ranges of the run have, would show nothing more.)
Listed(s) ==
  {{[made |-> 1, name |-> n, standalone |-> w, label |-> l, type |-> t, value |-> v,
     items |-> [i \in Items |-> 2 * v], from |-> s]} :
     n \in Names, w \in BOOLEAN, l \in Labels, t \in Types, v \in Numbers \ {0}}

\* BeginOperation
BeginLoad(s, list) ==
  /\ menu.op = NoScript
  /\ menu' = [menu EXCEPT !.op = s, !.saved = list]
  /\ Request
  /\ UNCHANGED game

\* The cleanup function of the script has ended.
CleanedUp ==
  /\ menu.op # NoScript /\ ~menu.executing
  /\ menu' = Removed(menu, menu.op)
  /\ menu' # menu
  /\ UNCHANGED <<game, bounds>>

\* The compiler has answered: the script is executed.
Compiled ==
  /\ menu.op # NoScript /\ ~menu.executing
  /\ menu' = [Removed(menu, menu.op) EXCEPT !.owner = menu.op, !.executing = TRUE, !.alive = TRUE]
  /\ UNCHANGED <<game, bounds>>

\* FinishOperation
Ended(m) == [m EXCEPT !.op = NoScript, !.executing = FALSE, !.saved = {}, !.owner = NoScript]

\* The script has been executed.
Executed ==
  /\ menu.executing
  /\ \E upper \in BOOLEAN :
       menu' = [Ended(Restored(menu, menu.op, menu.saved, upper)) EXCEPT !.loaded = @ \cup {menu.op}]
  /\ UNCHANGED <<game, bounds>>

\* It cannot be read or compiled, it ends with an error, or it takes too long: then it may
\* go on while the next one is executed.
Failed ==
  /\ menu.op # NoScript
  /\ menu' = Ended([menu EXCEPT !.loaded = @ \ {menu.op}])
  /\ UNCHANGED <<game, bounds>>

\* A script is unloaded.
Unload(s) ==
  /\ menu.op = NoScript /\ s \in menu.loaded
  /\ menu' = Ended(Removed([menu EXCEPT !.loaded = @ \ {s}], s))
  /\ Request
  /\ UNCHANGED game

\* A configuration is applied to a script that is loaded.
Apply(s, list) ==
  /\ menu.op = NoScript /\ s \in menu.loaded
  /\ \E upper \in BOOLEAN : menu' = Restored(menu, s, list, upper)
  /\ menu' # menu
  /\ Request
  /\ UNCHANGED game

Dispatch ==
  \/ CreateIcon \/ FinishCategory
  \/ \E table \in DOMAIN menu.pens : Draw(table)
  \/ \E name \in Names, standalone \in BOOLEAN, table \in {0} \cup DOMAIN menu.pens :
       BeginCategory(name, standalone, table)
  \/ \E table \in DOMAIN menu.tables, label \in Labels, type \in Types, range \in Ranges,
        value \in Numbers, upper \in BOOLEAN :
       AddControl(table, label, Offered(type, range, value, upper))

Next ==
  \/ Dispatch
  \/ \E c \in menu.categories : Select(c)
  \/ \E c \in Shown, label \in Labels : Edit(c, label)
  \/ \E s \in Scripts :
       \/ BeginLoad(s, {}) \/ BeginLoad(s, Captured(menu, s))
       \/ \E list \in Listed(s) : BeginLoad(s, list) \/ Apply(s, list)
       \/ Unload(s)
  \/ CleanedUp \/ Compiled \/ Executed \/ Failed

Spec == Init /\ [][Next]_vars

-----------------------------------------------------------------------------
(* Properties.                                                             *)

\* What a script does through a table reaches the category or the icon the table was
\* made for, or nothing: never one that another script has added since.
TablesReachTheirOwn ==
  /\ \A c \in menu.categories : \A l \in DOMAIN c.controls : c.controls[l].of = c.made
  /\ \A i \in menu.icons : \A k \in DOMAIN i.shapes : i.shapes[k] = i.made

\* The value of a control is that of its own script, however many scripts have controls
\* of that name and are loaded again, in whatever order.
ValuesStayWithTheirScript ==
  \A c \in menu.categories : \A l \in DOMAIN c.controls : c.controls[l].from = c.owner

\* The slider of a page is within its bounds, and no item is selected twice, also after a
\* value was saved by another version of the script.
ValuesAreInRange ==
  \A c \in menu.categories : \A l \in DOMAIN c.controls :
    LET control == c.controls[l] IN
    /\ control.type = "slider" /\ ~c.standalone /\ control.low <= control.high =>
         control.low <= control.value /\ control.value <= control.high
    /\ \A i \in Items : control.items[i] <= 1

\* The page that is open is that of a category, as long as there was one to turn to when
\* the category it showed was taken away.
SelectedIsListed ==
  menu.open /\ menu.selected # 0 => \E c \in menu.categories : c.id = menu.selected /\ ~c.standalone
=============================================================================
