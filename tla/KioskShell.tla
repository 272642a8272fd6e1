----------------------------- MODULE KioskShell -----------------------------
(***************************************************************************)
(* The windows of Weston's kiosk shell: weston/kiosk-shell/kiosk-shell.c,  *)
(* with the window events and the restore command that ACGlass added.      *)
(*                                                                         *)
(* Toplevel windows form trees (a dialog below its parent).  The output    *)
(* shows the tree of one root; the views of the others wait in a layer     *)
(* below the background.  A handler calls several helpers that each change *)
(* the shell, so the shell is one record and a helper maps a shell to a    *)
(* shell.  There is one output and one seat, as in ACGlass.                *)
(*                                                                         *)
(* The output may keep a pointer to the list of a root that was freed (a   *)
(* hazard of this code).  The model reads such a list as the empty list    *)
(* that the memory holds until it is used again; a build in which it was   *)
(* used again may do anything from there on.                               *)
(***************************************************************************)
EXTENDS Naturals, Sequences, Functions

CONSTANTS
  Windows,          \* toplevel windows, each created at most once
  NULL

ASSUME NullAssumption == NULL \notin Windows

VARIABLES
  window,           \* window -> where it is in its life
  shell,            \* what the shell keeps, see ShellType
  minimized,        \* windows whose last event is MINIMIZED, with contents since
  reparented        \* history: a window that had contents or a layer was given a parent

vars == <<window, shell, minimized, reparented>>

ShellType ==
  [parent : [Windows -> Windows \cup {NULL}],
   parent_destroy_signal : [Windows -> Seq(Windows)],  \* children, in the order they came
   surface_tree_list : [Windows -> Seq(Windows)],      \* the top one first
   active_surface_tree : Windows \cup {NULL},          \* whose list is shown
   normal_layer : Seq(Windows),
   inactive_layer : Seq(Windows),
   focused_surface : Windows \cup {NULL},
   focus_count : [Windows -> Nat]]

\* Every pointer names a window or none, and no focus_count goes below zero
\* (it is an unsigned count of the seats that focus the window, and a window
\* whose count misses zero is never told that it is inactive).
KioskTypeOK ==
  /\ window \in [Windows -> {"none", "added", "mapped", "unmapped", "removed"}]
  /\ shell \in ShellType
  /\ minimized \subseteq Windows
  /\ reparented \in BOOLEAN

Init ==
  /\ window = [w \in Windows |-> "none"]
  /\ shell = [parent |-> [w \in Windows |-> NULL],
              parent_destroy_signal |-> [w \in Windows |-> <<>>],
              surface_tree_list |-> [w \in Windows |-> <<>>],
              active_surface_tree |-> NULL,
              normal_layer |-> <<>>,
              inactive_layer |-> <<>>,
              focused_surface |-> NULL,
              focus_count |-> [w \in Windows |-> 0]]
  /\ minimized = {}
  /\ reparented = FALSE

Alive(w) == window[w] \in {"added", "mapped", "unmapped"}

-----------------------------------------------------------------------------
(* Helpers: each is a function of a shell sh.  The code moves the windows of a *)
(* list one after the other, from the bottom, to the top of another list; here *)
(* the whole list is put on top at once.                                       *)

\* The elements of the list l that are in S, in their order.
Keep(l, S) ==
  LET kept[i \in 0..Len(l)] ==
        IF i = 0 THEN <<>>
        ELSE IF l[i] \in S THEN Append(kept[i - 1], l[i]) ELSE kept[i - 1]
  IN  kept[Len(l)]

Without(l, S) == Keep(l, Windows \ S)

\* w and everything above it: the least set with w and the parents of its members
Ancestors(sh, w) ==
  {a \in Windows : \A S \in SUBSET Windows :
     w \in S /\ (\A x \in S : sh.parent[x] \in S \cup {NULL}) => a \in S}

is_descendant_of(sh, w, a) == a \in Ancestors(sh, w)

get_parent_root(sh, w) == CHOOSE r \in Ancestors(sh, w) : sh.parent[r] = NULL

OutOfLayers(sh, S) ==
  [sh EXCEPT !.normal_layer = Without(@, S), !.inactive_layer = Without(@, S)]

ToNormal(sh, l) == [OutOfLayers(sh, Range(l)) EXCEPT !.normal_layer = l \o @]
ToInactive(sh, l) == [OutOfLayers(sh, Range(l)) EXCEPT !.inactive_layer = l \o @]

\* Every window is in one surface_tree_list at most; this puts l on top of r's.
MoveToTree(sh, r, l) ==
  [sh EXCEPT !.surface_tree_list =
     [x \in Windows |-> IF x = r THEN l \o Without(@[x], Range(l)) ELSE Without(@[x], Range(l))]]

Tree(sh, r) == IF r = NULL THEN <<>> ELSE sh.surface_tree_list[r]

\* The part of the tree of r that is w and its dialogs
Part(sh, r, w) == Keep(Tree(sh, r), {x \in Windows : is_descendant_of(sh, x, w)})

\* Mutation: the previous tree is forgotten, not hidden.
set_active_surface_treeOverlaid(sh, r) ==
  [ToNormal(sh, Tree(sh, r)) EXCEPT !.active_surface_tree = r]

set_active_surface_tree(sh, r) ==
  LET cleared == ToInactive(sh, Tree(sh, sh.active_surface_tree))
  IN  [ToNormal(cleared, Tree(sh, r)) EXCEPT !.active_surface_tree = r]

\* Mutation: only the list is reordered, not the layer.
raise_surface_subtreeInList(sh, w) ==
  MoveToTree(sh, sh.active_surface_tree, Part(sh, sh.active_surface_tree, w))

\* The part of the active tree below w goes on top, in the same order.
raise_surface_subtree(sh, w) ==
  LET part == Part(sh, sh.active_surface_tree, w)
  IN  MoveToTree(ToNormal(sh, part), sh.active_surface_tree, part)

\* Mutation: the window that gets the focus is not counted.
surface_activateUncounted(sh, w) ==
  LET old == sh.focused_surface
      unfocused == IF old = NULL THEN sh ELSE [sh EXCEPT !.focus_count[old] = @ - 1]
  IN  raise_surface_subtree([unfocused EXCEPT !.focused_surface = w], w)

surface_activate(sh, w) ==
  LET old == sh.focused_surface
      unfocused == IF old = NULL THEN sh ELSE [sh EXCEPT !.focus_count[old] = @ - 1]
      focused == [unfocused EXCEPT !.focused_surface = w, !.focus_count[w] = @ + 1]
  IN  raise_surface_subtree(focused, w)

\* The listener of w moves from the signal of its parent, if it has one, to p's.
Relink(sh, w, p) ==
  [sh EXCEPT
     !.parent[w] = p,
     !.parent_destroy_signal =
       [x \in Windows |-> IF x = p THEN Append(Without(@[x], {w}), w) ELSE Without(@[x], {w})]]

\* A window without a parent takes its part of the tree along and is shown.
set_parent(sh, w, p) ==
  LET root == IF p = NULL THEN get_parent_root(sh, w) ELSE get_parent_root(sh, p)
      linked == Relink(sh, w, p)
      alone == MoveToTree(linked, w, Part(linked, root, w))
  IN  CASE p = NULL /\ w = root -> sh
        [] p = NULL /\ w # root -> set_active_surface_tree(alone, w)
        [] p # NULL /\ w \in Range(sh.surface_tree_list[root]) -> linked
        [] OTHER -> MoveToTree(linked, root, <<w>>)

-----------------------------------------------------------------------------
(* The handlers. *)

\* acglass_find_window looks in the two layers only.
Found(w) == w \in Range(shell.normal_layer \o shell.inactive_layer)

\* desktop_surface_added: a tree of its own, and the event OPENED.  A dialog may
\* name its parent in the very request that adds it.
desktop_surface_added(w) ==
  /\ window[w] = "none"
  /\ window' = [window EXCEPT ![w] = "added"]
  /\ LET alone == MoveToTree(shell, w, <<w>>)
     IN  \/ shell' = alone
         \/ \E p \in Windows : Alive(p) /\ shell' = set_parent(alone, w, p)
  /\ UNCHANGED <<minimized, reparented>>

\* desktop_surface_committed, of the first contents
desktop_surface_committed(w) ==
  /\ window[w] \in {"added", "unmapped"}
  /\ window' = [window EXCEPT ![w] = "mapped"]
  /\ shell' = surface_activate(IF shell.parent[w] = NULL
                               THEN set_active_surface_tree(shell, w) ELSE shell, w)
  /\ UNCHANGED <<minimized, reparented>>

\* weston_surface_unmap: the client takes the contents away, which is also the
\* first of the two requests that close a window; the shell is not asked.
weston_surface_unmap(w) ==
  /\ window[w] = "mapped"
  /\ window' = [window EXCEPT ![w] = "unmapped"]
  /\ shell' = OutOfLayers(shell, {w})
  /\ minimized' = minimized \ {w}
  /\ UNCHANGED reparented

\* desktop_surface_set_parent, after the window was added.  A window that has
\* dialogs of its own is not given a parent: its dialogs would stay behind in
\* its list.
desktop_surface_set_parent(w, p) ==
  /\ Alive(w)
  /\ p # NULL => Alive(p) /\ p # w /\ shell.parent_destroy_signal[w] = <<>>
  /\ shell' = set_parent(shell, w, p)
  /\ reparented' = (reparented \/ (p # NULL /\ (window[w] = "mapped" \/ Found(w))))
  /\ UNCHANGED <<window, minimized>>

\* desktop_surface_minimized_requested, with the event MINIMIZED
desktop_surface_minimized_requested(w) ==
  /\ Alive(w)
  /\ shell' = IF shell.active_surface_tree = get_parent_root(shell, w)
              THEN set_active_surface_tree(shell, NULL)
              ELSE ToInactive(shell, <<w>>)
  /\ minimized' = minimized \cup {w}
  /\ UNCHANGED <<window, reparented>>

\* acglass_window_command_handler, with the event RESTORED
acglass_restore_window(w) ==
  /\ Found(w)
  /\ LET shown == set_active_surface_tree(shell, get_parent_root(shell, w))
     IN  shell' = surface_activate(raise_surface_subtree(shown, w), w)
  /\ minimized' = minimized \ {w}
  /\ UNCHANGED <<window, reparented>>

\* kiosk_shell_activate_view: a click or a touch on a window that is there to see
kiosk_shell_activate_view(w) ==
  /\ window[w] = "mapped"
  /\ w \in Range(shell.normal_layer)
  /\ shell' = surface_activate(shell, w)
  /\ UNCHANGED <<window, minimized, reparented>>

\* The topmost other window, unless one of the same tree is found, in the
\* inactive layer first.
find_focus_successor(sh, w) ==
  LET Others(l) == Keep(l, {x \in Windows \ {w} : window[x] = "mapped"})
      Related(l) == Keep(Others(l), {x \in Windows : get_parent_root(sh, x) =
                                                    get_parent_root(sh, w)})
      found == Related(sh.inactive_layer) \o Related(sh.normal_layer)
               \o Others(sh.normal_layer) \o Others(sh.inactive_layer)
  IN  IF found = <<>> THEN NULL ELSE Head(found)

\* The window has, or may have had, the focus of the output.
LosesFocus(sh, w) ==
  LET f == sh.focused_surface
  IN  f # NULL /\ (f = w \/ (window[f] = "mapped") # (window[w] = "mapped"))

\* Mutation: the children keep a parent that is gone.
notify_parent_destroyNot(sh, c) == sh

\* kiosk_shell_surface_notify_parent_destroy, of the child c
notify_parent_destroy(sh, c) == set_parent(sh, c, sh.parent[sh.parent[c]])

\* The signal goes to one child after the other.
emit_parent_destroy(sh, w) ==
  LET children == sh.parent_destroy_signal[w]
      told[i \in 0..Len(children)] ==
        IF i = 0 THEN sh ELSE notify_parent_destroy(told[i - 1], children[i])
  IN  told[Len(children)]

\* Mutation: without a successor the focus stays where it is.
PassFocusKept(sh, w) ==
  LET next == find_focus_successor(sh, w)
      shown == IF next \in Range(sh.inactive_layer)
               THEN set_active_surface_tree(sh, get_parent_root(sh, next)) ELSE sh
  IN  CASE ~LosesFocus(sh, w) -> sh
        [] LosesFocus(sh, w) /\ next = NULL -> set_active_surface_tree(sh, NULL)
        [] OTHER -> surface_activate(shown, next)

\* The focus goes to the successor, whose tree is shown if it was hidden.
PassFocus(sh, w) ==
  LET next == find_focus_successor(sh, w)
      shown == IF next \in Range(sh.inactive_layer)
               THEN set_active_surface_tree(sh, get_parent_root(sh, next)) ELSE sh
  IN  CASE ~LosesFocus(sh, w) -> sh
        [] LosesFocus(sh, w) /\ next = NULL ->
             set_active_surface_tree([sh EXCEPT !.focused_surface = NULL], NULL)
        [] OTHER -> surface_activate(shown, next)

\* kiosk_shell_surface_destroy
surface_destroy(sh, w) ==
  [OutOfLayers(sh, {w}) EXCEPT
     !.surface_tree_list = [x \in Windows |-> Without(@[x], {w})],
     !.parent_destroy_signal = [x \in Windows |-> IF x = w THEN <<>> ELSE Without(@[x], {w})],
     !.parent[w] = NULL,
     !.focus_count[w] = 0]

\* desktop_surface_removed, with the event CLOSED
desktop_surface_removed(w) ==
  /\ Alive(w)
  /\ window' = [window EXCEPT ![w] = "removed"]
  /\ shell' = surface_destroy(PassFocus(emit_parent_destroy(shell, w), w), w)
  /\ minimized' = minimized \ {w}
  /\ UNCHANGED reparented

Next ==
  \E w \in Windows :
    \/ desktop_surface_added(w)
    \/ desktop_surface_committed(w)
    \/ weston_surface_unmap(w)
    \/ \E p \in Windows \cup {NULL} : desktop_surface_set_parent(w, p)
    \/ desktop_surface_minimized_requested(w)
    \/ acglass_restore_window(w)
    \/ kiosk_shell_activate_view(w)
    \/ desktop_surface_removed(w)

Spec == Init /\ [][Next]_vars

-----------------------------------------------------------------------------
(* Properties *)

\* The window that has the focus was not freed: what assert(current_focus) in
\* kiosk_shell_surface_activate relies on, whichever windows were removed,
\* unmapped or minimized before.
FocusLive == shell.focused_surface # NULL => Alive(shell.focused_surface)

\* The list of a root holds the living windows below it, and no other list
\* holds anything: parents may close before their dialogs and dialogs may
\* change their parents, and no window is lost or left in a freed list.
TreesComplete ==
  \A r \in Windows :
    Range(shell.surface_tree_list[r]) =
      {w \in Windows : Alive(r) /\ Alive(w) /\ get_parent_root(shell, w) = r}

\* What the output shows is the active tree: its windows that have contents are
\* in the visible layer, in the order of the tree, and no window of another
\* tree is.  It needs that no window that was there to see got a parent: then
\* set_parent changes the tree and not the layer.
ActiveTreeShown ==
  ~reparented =>
    LET tree == Tree(shell, shell.active_surface_tree)
        shown == Range(shell.normal_layer)
    IN  /\ shell.normal_layer = Keep(tree, shown)
        /\ \A w \in Range(tree) : window[w] = "mapped" => w \in shown

\* A window that said it was minimized, and kept its contents, is found by the
\* restore command that the Android side sends back.
MinimizedIsFound ==
  \A w \in minimized : window[w] = "mapped" => Found(w)

\* The restore command shows a minimized window (the one step after which it
\* is not minimized and no window has changed): its tree is the active one, it
\* or one of its dialogs is on top and it has the focus.
RestoreShows ==
  [][\A w \in minimized \ minimized' :
       window' = window =>
         /\ shell'.focused_surface = w
         /\ shell'.active_surface_tree = get_parent_root(shell, w)
         /\ is_descendant_of(shell', Head(shell'.normal_layer), w)]_vars
=============================================================================
