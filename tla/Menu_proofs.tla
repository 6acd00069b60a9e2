----------------------------- MODULE Menu_proofs -----------------------------
(***************************************************************************)
(* The highlight of the file list is the selection, the list a page of the *)
(* directory, and what FIRE takes is what is opened, for every card, every *)
(* directory, every order of keys and every size of a page.                *)
(*                                                                         *)
(* The list is drawn slot by slot over the page before it, and a drawing   *)
(* may stop half way; then Mark moves the highlight.  What holds all the   *)
(* while is that no slot but the old selection's is inverted: this comes   *)
(* first, action by action.                                                *)
(*                                                                         *)
(* The rest is about cards.  Lemmas without state say where the entries of *)
(* a directory are, how many of them are images, and what becomes of a     *)
(* name on its way to the screen and back.  Then every step is one of a    *)
(* few kinds (Kinds), and each part of the invariant (MenuInv) is kept by  *)
(* each kind.                                                              *)
(***************************************************************************)
EXTENDS Menu, SequenceTheorems, FiniteSetTheorems, TLAPS

Page == 0..(FSEL_PAGESIZE - 1)
Marked(idx) == {fsel_index2offs(idx)}

\* draw_fsel is at work, or Mark comes next.
DrawsList ==
  pc = "mark" \/ (pc = "trace" /\ task = "list") \/ (pc = "read" /\ task # "first")

\* What a path is traced for, what a directory is read for, and where
\* menu_dispatch returns to.
TaskInPlace ==
  /\ pc = "trace" => task \in {"dir", "open", "list"}
  /\ pc = "read" => task \in {"first", "skip", "show"}
  /\ back \in {"serve", "mount"}
  /\ DrawsList => state = "FSEL"

\* Drawn or not, at most the selection is inverted.
OneHighlight ==
  state \in {"FSEL", "WAITBREAK2"} => inverted \cap Page \subseteq Marked(menu_selected)

\* The list is up: fsel_redraw is 1 from fsel_init until the list is drawn.
Shown == state \in {"FSEL", "WAITBREAK2"} /\ fsel_redraw # 1 /\ ~Drawing
SelectionShown == Shown => inverted \cap Page = Marked(menu_selected) \cap Page

HighlightInv == TaskInPlace /\ OneHighlight /\ SelectionShown

-----------------------------------------------------------------------------
(* The display.                                                            *)

\* The title is not on a line of the list: a clear screen has no highlight.
LEMMA ClearScreen ==
  ASSUME MenuAssumption PROVE DOMAIN Title \cap Page = {}
  BY DEF MenuAssumption, Page, FSEL_PAGESIZE

\* Moving the highlight away from the only slot that may have it leaves it at
\* the new item alone.
LEMMA Moved ==
  ASSUME NEW from, NEW to, inverted \cap Page \subseteq Marked(from), MoveHighlight(from, to)
  PROVE inverted' \cap Page = Marked(to) \cap Page
  BY DEF MoveHighlight, Marked

\* Nor does a slot drawn over get one.
LEMMA Drawn ==
  ASSUME NEW s, OneHighlight, inverted' = inverted \ {s}, UNCHANGED <<state, menu_selected>>
  PROVE OneHighlight'
  BY DEF OneHighlight, Marked

\* The highlight stays for as long as nothing of it is touched and no list
\* appears that was not up, or half drawn.
LEMMA Untouched ==
  ASSUME HighlightInv, UNCHANGED <<inverted, menu_selected>>,
         state' \in {"FSEL", "WAITBREAK2"} => state \in {"FSEL", "WAITBREAK2"},
         Shown' => Shown
  PROVE OneHighlight' /\ SelectionShown'
  BY DEF HighlightInv, OneHighlight, SelectionShown, Marked, fsel_index2offs

\* In the menu there is no list.
LEMMA NoList ==
  ASSUME state' \notin {"FSEL", "WAITBREAK2"}
  PROVE OneHighlight' /\ SelectionShown'
  BY DEF OneHighlight, SelectionShown, Shown

\* The list that is up shows its selection; and so it may be drawn over.
LEMMA ListShows ==
  ASSUME HighlightInv
  PROVE state \in {"FSEL", "WAITBREAK2"} => inverted \cap Page \subseteq Marked(menu_selected)
  BY DEF HighlightInv, OneHighlight

-----------------------------------------------------------------------------
(* Directories.                                                            *)

LEMMA MountStep ==
  ASSUME HighlightInv, Mount PROVE HighlightInv'
<1>1. TaskInPlace'
  BY DEF HighlightInv, TaskInPlace, DrawsList, Mount, dirVars
<1>2. UNCHANGED <<inverted, menu_selected, state, fsel_redraw>>
  BY DEF Mount, menuVars, screen, fselVars
<1>3. Shown' => Shown
  BY <1>2 DEF Shown, Drawing, Mount
<1> QED
  BY <1>1, <1>2, <1>3, Untouched DEF HighlightInv

\* A path that is given up ends in no list that was not being drawn.
LEMMA Fails ==
  ASSUME HighlightInv, pc = "trace", NEW why, TraceFails(why), UNCHANGED back
  PROVE HighlightInv'
<1>1. task \in {"dir", "open", "list"}
  BY DEF HighlightInv, TaskInPlace, DrawsList
<1>2. /\ UNCHANGED <<inverted, menu_selected, state, fsel_redraw, task>>
      /\ pc' = IF task = "list" THEN "mark" ELSE "away"
  BY <1>1 DEF TraceFails, OpenFails, menuVars, screen, fselVars, dirVars
<1>3. TaskInPlace'
  BY <1>2 DEF HighlightInv, TaskInPlace, DrawsList
<1>4. Shown' => Shown
  BY <1>1, <1>2 DEF Shown, Drawing
<1> QED
  BY <1>2, <1>3, <1>4, Untouched DEF HighlightInv

LEMMA Ends ==
  ASSUME HighlightInv, pc = "trace", NEW e, TraceEnds(e), UNCHANGED back
  PROVE HighlightInv'
<1>1. task \in {"dir", "open", "list"}
  BY DEF HighlightInv, TaskInPlace, DrawsList
<1>2. CASE task # "open" /\ "DIR" \notin e.attr
  <2>1. TraceFails("name")
    BY <1>2, Zenon DEF TraceEnds
  <2> QED
    BY <2>1, Fails, Zenon
<1>3. CASE task = "open" \/ "DIR" \in e.attr
  <2>1. CASE task = "open"
    <3>1. UNCHANGED <<inverted, menu_selected, state, fsel_redraw, task>> /\ pc' \in {"away", "serve"}
      <4>1. CASE "DIR" \in e.attr
        <5>1. OpenFails("name")
          BY <2>1, <4>1 DEF TraceEnds
        <5> QED
          BY <5>1 DEF OpenFails, menuVars, screen, fselVars, dirVars
      <4>2. CASE "DIR" \notin e.attr
        BY <2>1, <4>2 DEF TraceEnds, menuVars, screen, fselVars, dirVars
      <4> QED
        BY <4>1, <4>2
    <3>2. TaskInPlace'
      BY <3>1 DEF HighlightInv, TaskInPlace, DrawsList
    <3>3. Shown' => Shown
      BY <3>1, <2>1 DEF Shown, Drawing
    <3> QED
      BY <3>1, <3>2, <3>3, Untouched DEF HighlightInv
  <2>2. CASE task = "dir" /\ "DIR" \in e.attr
    <3>1. /\ UNCHANGED <<inverted, menu_selected, state, fsel_redraw>>
          /\ (pc' = "read" /\ task' = "first") \/ pc' = "open"
      BY <2>2 DEF TraceEnds, menuVars, screen, fselVars, dirVars
    <3>2. TaskInPlace'
      BY <3>1 DEF HighlightInv, TaskInPlace, DrawsList
    <3>3. Shown' => Shown
      BY <3>1, <2>2 DEF Shown, Drawing
    <3> QED
      BY <3>1, <3>2, <3>3, Untouched DEF HighlightInv
  <2>3. CASE task = "list" /\ "DIR" \in e.attr
    <3>1. /\ UNCHANGED <<inverted, menu_selected, state, fsel_redraw>>
          /\ pc' = "read" /\ task' \in {"skip", "show"}
      BY <2>3 DEF TraceEnds, screen
    <3>2. TaskInPlace'
      BY <2>3, <3>1 DEF HighlightInv, TaskInPlace, DrawsList
    <3>3. ~Shown'
      BY <3>1 DEF Shown, Drawing
    <3> QED
      BY <3>1, <3>2, <3>3, Untouched DEF HighlightInv
  <2> QED
    BY <1>1, <1>3, <2>1, <2>2, <2>3
<1> QED
  BY <1>2, <1>3

LEMMA TraceStep ==
  ASSUME HighlightInv, TraceTurn PROVE HighlightInv'
<1>1. pc = "trace" /\ UNCHANGED back
  BY DEF TraceTurn
<1>2. CASE \E why : TraceFails(why)
  BY <1>1, <1>2, Fails
<1>3. CASE \E e : TraceEnds(e)
  BY <1>1, <1>3, Ends
<1>4. CASE UNCHANGED <<pc, task, fileVars, menuVars>>
  <2>1. UNCHANGED <<pc, task, inverted, menu_selected, state, fsel_redraw>>
    BY <1>4 DEF menuVars, screen, fselVars
  <2> QED
    BY <1>1, <2>1, Untouched DEF HighlightInv, TaskInPlace, DrawsList, Shown, Drawing
<1>5. \/ \E why : TraceFails(why)
      \/ \E e : TraceEnds(e)
      \/ UNCHANGED <<pc, task, fileVars, menuVars>>
  <2>1. PICK ok \in Answers :
          IF ~Reaches(dir, ok)
          THEN TraceFails("card") /\ Blame(ok) /\ UNCHANGED winsect
          ELSE LET e    == EntryAt(disk, dir)
                   here == IsValid(e) /\ e.name = Head(path)
                   next == NextOf(dir, ok)
               IN /\ winsect' = IF IsEnd(e) \/ here THEN dir.sect ELSE Window(dir, ok)
                  /\ Blame(ok \/ IsEnd(e) \/ here \/ ~NeedsLink(vol, dir))
                  /\ CASE IsEnd(e) -> TraceFails("name")
                       [] ~IsEnd(e) /\ here /\ Len(path) = 1 -> TraceEnds(e)
                       [] ~IsEnd(e) /\ here /\ Len(path) > 1 ->
                            IF "DIR" \notin e.attr THEN TraceFails("name")
                            ELSE /\ path' = Tail(path) /\ dir' = SubDir(vol, e.clust)
                                 /\ UNCHANGED <<pc, task, fileVars, menuVars>>
                       [] OTHER ->
                            IF next.sect = 0 THEN TraceFails(IF ok THEN "name" ELSE "card")
                            ELSE dir' = next /\ UNCHANGED <<pc, path, task, fileVars, menuVars>>
    BY Zenon DEF TraceTurn
  <2> DEFINE e    == EntryAt(disk, dir)
             here == IsValid(e) /\ e.name = Head(path)
  <2>2. CASE ~Reaches(dir, ok)
    BY <2>1, <2>2, Zenon
  <2>3. CASE Reaches(dir, ok) /\ IsEnd(e)
    BY <2>1, <2>3, Zenon
  <2>4. CASE Reaches(dir, ok) /\ ~IsEnd(e) /\ here /\ Len(path) = 1
    BY <2>1, <2>4, Zenon
  <2>5. CASE Reaches(dir, ok) /\ ~IsEnd(e) /\ here /\ Len(path) > 1
    BY <2>1, <2>5, Zenon
  <2>6. CASE Reaches(dir, ok) /\ ~IsEnd(e) /\ ~(here /\ (Len(path) = 1 \/ Len(path) > 1))
    BY <2>1, <2>6, Zenon
  <2> QED
    BY <2>2, <2>3, <2>4, <2>5, <2>6, Zenon
<1> QED
  BY <1>2, <1>3, <1>4, <1>5

LEMMA OpenStep ==
  ASSUME HighlightInv, f_open PROVE HighlightInv'
<1>1. /\ UNCHANGED <<inverted, menu_selected, state, fsel_redraw, back>>
      /\ pc = "open"
      /\ \/ pc' = "away" /\ task' = task
         \/ pc' = "trace" /\ task' = "open"
  <2>1. CASE make_dirfile(ptrfile) = <<>>
    <3>1. OpenFails("name") /\ pc = "open" /\ UNCHANGED back
      BY <2>1 DEF f_open
    <3> QED
      BY <3>1 DEF OpenFails, menuVars, screen, fselVars, dirVars
  <2>2. CASE make_dirfile(ptrfile) # <<>>
    BY <2>2 DEF f_open, Trace, menuVars, screen, fselVars
  <2> QED
    BY <2>1, <2>2
<1>2. TaskInPlace'
  BY <1>1 DEF HighlightInv, TaskInPlace, DrawsList
<1>3. Shown' => Shown
  BY <1>1 DEF Shown, Drawing
<1> QED
  BY <1>1, <1>2, <1>3, Untouched DEF HighlightInv

-----------------------------------------------------------------------------
(* A list is drawn.                                                        *)

\* A slot drawn, or an entry that is none: the list is still being drawn, and
\* no slot but the selection's is inverted.
LEMMA DrawnOn ==
  ASSUME HighlightInv, pc = "read", pc' \in {"read", "mark"}, UNCHANGED <<state, menu_selected, back>>,
         task \in {"skip", "show"}, task' \in {"skip", "show"},
         UNCHANGED inverted \/ \E s : inverted' = inverted \ {s}
  PROVE HighlightInv'
<1>1. OneHighlight'
  <2>1. OneHighlight
    BY DEF HighlightInv
  <2>2. CASE UNCHANGED inverted
    BY <2>1, <2>2 DEF OneHighlight, Marked, fsel_index2offs
  <2>3. CASE \E s : inverted' = inverted \ {s}
    BY <2>1, <2>3, Drawn
  <2> QED
    BY <2>2, <2>3
<1>2. ~Shown'
  BY DEF Shown, Drawing
<1>3. TaskInPlace'
  BY DEF HighlightInv, TaskInPlace, DrawsList
<1> QED
  BY <1>1, <1>2, <1>3 DEF HighlightInv, SelectionShown

\* The first image of the directory is looked for: no list is drawn.
LEMMA FirstLooked ==
  ASSUME HighlightInv, pc = "read", task = "first", pc' \in {"read", "open"}, task' = "first",
         UNCHANGED <<state, menu_selected, back, inverted, fsel_redraw>>
  PROVE HighlightInv'
<1>1. TaskInPlace'
  BY DEF HighlightInv, TaskInPlace, DrawsList
<1>2. Shown' => Shown
  BY DEF Shown, Drawing
<1> QED
  BY <1>1, <1>2, Untouched DEF HighlightInv

LEMMA ReadStep ==
  ASSUME HighlightInv, ReadTurn PROVE HighlightInv'
<1>1. pc = "read" /\ UNCHANGED <<state, menu_selected, back, fsel_redraw>>
  BY DEF ReadTurn
<1>2. task \in {"first", "skip", "show"}
  BY <1>1 DEF HighlightInv, TaskInPlace, DrawsList
<1>3. \/ \E e : Found(e)
      \/ NoFile
      \/ UNCHANGED <<pc, task, screen>>
  BY Zenon DEF ReadTurn
<1>4. CASE task = "first"
  <2>1. task' = "first" /\ pc' \in {"read", "open"} /\ UNCHANGED inverted
    <3>1. CASE \E e : Found(e)
      BY <3>1, <1>4 DEF Found, screen
    <3>2. CASE NoFile
      BY <3>2, <1>4 DEF NoFile, screen
    <3>3. CASE UNCHANGED <<pc, task, screen>>
      BY <3>3, <1>1, <1>4 DEF screen
    <3> QED
      BY <1>3, <3>1, <3>2, <3>3
  <2> QED
    BY <1>1, <1>4, <2>1, FirstLooked
<1>5. CASE task \in {"skip", "show"}
  <2>1. /\ task' \in {"skip", "show"} /\ pc' \in {"read", "mark"}
        /\ UNCHANGED inverted \/ \E s : inverted' = inverted \ {s}
    <3>1. CASE \E e : Found(e)
      <4>1. CASE task = "skip"
        BY <3>1, <4>1, <1>1 DEF Found, screen
      <4>2. CASE task = "show"
        BY <3>1, <4>2, <1>1 DEF Found, screen
      <4> QED
        BY <1>5, <4>1, <4>2
    <3>2. CASE NoFile
      <4>1. CASE task = "skip"
        BY <3>2, <4>1, <1>1 DEF NoFile, screen
      <4>2. CASE task = "show"
        BY <3>2, <4>2, <1>1 DEF NoFile, screen
      <4> QED
        BY <1>5, <4>1, <4>2
    <3>3. CASE UNCHANGED <<pc, task, screen>>
      BY <3>3, <1>1, <1>5 DEF screen
    <3> QED
      BY <1>3, <3>1, <3>2, <3>3
  <2> QED
    BY <1>1, <1>5, <2>1, DrawnOn
<1> QED
  BY <1>2, <1>4, <1>5

-----------------------------------------------------------------------------
(* menu_dispatch.                                                          *)

\* Back in the menu, whatever was on the screen.
LEMMA BackToMenu ==
  ASSUME HighlightInv, menu_init, UNCHANGED <<back, task>>, pc' \notin {"trace", "read", "mark"}
  PROVE HighlightInv'
<1>1. state' = "MENU"
  BY DEF menu_init
<1>2. TaskInPlace'
  BY DEF HighlightInv, TaskInPlace, DrawsList
<1> QED
  BY <1>1, <1>2, NoList DEF HighlightInv

\* The menu goes on by itself, or on to a state without a list.
LEMMA NoListStep ==
  ASSUME HighlightInv, state' \notin {"FSEL", "WAITBREAK2"}, UNCHANGED <<back, task>>,
         pc' \notin {"trace", "read", "mark"}
  PROVE HighlightInv'
  BY NoList DEF HighlightInv, TaskInPlace, DrawsList

\* Nothing is touched, and pc is not at a place of the list.
LEMMA QuietStep ==
  ASSUME HighlightInv, pc \notin {"trace", "read", "mark"}, pc' \notin {"trace", "read", "mark"},
         UNCHANGED <<back, task, state, menu_selected, inverted, fsel_redraw>>
  PROVE HighlightInv'
<1>1. Shown' => Shown
  BY DEF Shown, Drawing
<1>2. TaskInPlace'
  BY DEF HighlightInv, TaskInPlace, DrawsList
<1> QED
  BY <1>1, <1>2, Untouched DEF HighlightInv

LEMMA AwayStep ==
  ASSUME HighlightInv, Away PROVE HighlightInv'
<1>1. menu_init /\ pc' = "look" /\ back' = "mount" /\ task' = task /\ state' = "MENU"
  BY DEF Away, dirVars, menu_init
<1> QED
  BY <1>1, NoList DEF HighlightInv, TaskInPlace, DrawsList

LEMMA PollStep ==
  ASSUME HighlightInv, Poll PROVE HighlightInv'
<1>1. /\ UNCHANGED <<inverted, menu_selected, state, fsel_redraw, task>>
      /\ pc = "serve" /\ pc' \in {"look", "away"} /\ back' = "serve"
  BY DEF Poll, menuVars, dirVars, screen, fselVars
<1>2. Shown' => Shown
  BY <1>1 DEF Shown, Drawing
<1> QED
  BY <1>1, <1>2, Untouched DEF HighlightInv, TaskInPlace, DrawsList

LEMMA LookStep ==
  ASSUME HighlightInv, Look PROVE HighlightInv'
<1>1. back \in {"serve", "mount"}
  BY DEF HighlightInv, TaskInPlace, DrawsList
<1>2. UNCHANGED <<back, task, fsel_redraw>> /\ pc = "look" /\ pc' \in {"act", "serve", "mount"}
  BY <1>1 DEF Look, dirVars, fselVars
<1>3. CASE menu_init
  BY <1>2, <1>3, BackToMenu
<1>4. CASE UNCHANGED <<state, joy_status, screen, menu_x, menu_y, menu_selected, osdcmd, OSD_CMD>>
  BY <1>2, <1>4, QuietStep DEF screen
<1> QED
  BY <1>3, <1>4 DEF Look

LEMMA EndPulseStep ==
  ASSUME HighlightInv, EndPulse PROVE HighlightInv'
<1>1. /\ UNCHANGED <<back, task, state, menu_selected, inverted, fsel_redraw>>
      /\ pc = "pulse" /\ pc' = back
  BY DEF EndPulse, dirVars, fselVars, screen
<1> QED
  BY <1>1, QuietStep DEF HighlightInv, TaskInPlace, DrawsList

\* The selection moves: the old highlight goes, the new one is the only one.
LEMMA MarkStep ==
  ASSUME HighlightInv, Mark PROVE HighlightInv'
<1>1. /\ MoveHighlight(menu_selected, menu_selected') /\ UNCHANGED <<task, back>>
      /\ pc' = back /\ state' = IF "FIRE" \in joy_status THEN "WAITBREAK2" ELSE state
  BY DEF Mark, dirVars
<1>2. TaskInPlace'
  BY <1>1 DEF HighlightInv, TaskInPlace, DrawsList
<1>3. state = "FSEL"
  BY DEF HighlightInv, TaskInPlace, DrawsList, Mark
<1>4. inverted' \cap Page = Marked(menu_selected') \cap Page
  BY <1>1, <1>3, ListShows, Moved
<1> QED
  BY <1>2, <1>4 DEF HighlightInv, SelectionShown, OneHighlight, Page, Marked, fsel_index2offs

\* The list opens on a clear screen, to be drawn next.
LEMMA OpenListStep ==
  ASSUME MenuAssumption, HighlightInv, OpenList, UNCHANGED <<back, task>>
  PROVE HighlightInv'
<1>1. inverted' \cap Page = {}
  BY ClearScreen DEF OpenList, osd_cls
<1>2. OneHighlight'
  BY <1>1 DEF OneHighlight
<1>3. ~Shown'
  BY DEF OpenList, Shown
<1>4. TaskInPlace'
  BY DEF OpenList, HighlightInv, TaskInPlace, DrawsList
<1> QED
  BY <1>2, <1>3, <1>4 DEF HighlightInv, SelectionShown

\* One line of the list up or down, or a page: then it is drawn anew.
LEMMA InFselStep ==
  ASSUME HighlightInv, pc = "act", InFsel, UNCHANGED back PROVE HighlightInv'
<1>1. state = "FSEL" /\ UNCHANGED <<state, menu_selected, inverted>>
  BY DEF InFsel, screen
<1>2. CASE fsel_redraw = 1 \/ Down(Up).page
  <2>1. pc' = "trace" /\ task' = "list"
    BY <1>2 DEF InFsel, Trace
  <2>2. ~Shown'
    BY <2>1 DEF Shown, Drawing
  <2> QED
    BY <1>1, <2>1, <2>2, Untouched DEF HighlightInv, TaskInPlace, DrawsList
<1>3. CASE ~(fsel_redraw = 1 \/ Down(Up).page)
  <2>1. pc' = "mark" /\ task' = task
    BY <1>3 DEF InFsel, dirVars
  <2>2. Shown
    BY <1>1, <1>3 DEF Shown, Drawing
  <2> QED
    BY <1>1, <2>1, <2>2, Untouched DEF HighlightInv, TaskInPlace, DrawsList
<1> QED
  BY <1>2, <1>3

LEMMA ActStep ==
  ASSUME MenuAssumption, HighlightInv, Act PROVE HighlightInv'
<1>1. pc = "act" /\ UNCHANGED back /\ back \in {"serve", "mount"}
  BY DEF Act, HighlightInv, TaskInPlace
<1>2. CASE InMenu
  <2>1. state' \in {"MENU", "WAITBREAK"} /\ pc' = back /\ UNCHANGED task
    BY <1>2 DEF InMenu, dirVars
  <2> QED
    BY <1>1, <2>1, NoListStep
<1>3. CASE InWaitBreak
  <2>1. UNCHANGED task /\ state = "WAITBREAK"
    BY <1>3 DEF InWaitBreak, dirVars
  <2>2. CASE Pressed("FIRE")
    <3>1. state' = "WAITBREAK" /\ pc' = back
      BY <1>3, <2>1, <2>2 DEF InWaitBreak, Stay
    <3> QED
      BY <1>1, <2>1, <3>1, NoListStep
  <2>3. CASE ~Pressed("FIRE") /\ Item[menu_selected] = "DISK"
    <3>1. OpenList
      BY <1>3, <2>3 DEF InWaitBreak, switch_state
    <3> QED
      BY <1>1, <2>1, <3>1, OpenListStep
  <2>4. CASE ~Pressed("FIRE") /\ Item[menu_selected] # "DISK"
    <3>1. switch_state
      BY <1>3, <2>4 DEF InWaitBreak
    <3>2. state' \in {"MENU", "ABOOT"}
      BY <2>4, <3>1 DEF switch_state
    <3>3. pc' \in {back, "pulse"}
      <4> DEFINE item == Item[menu_selected]
      <4>1. CASE item = "HOLD"
        BY <2>4, <3>1, <4>1 DEF switch_state
      <4>2. CASE item \in {"RESET", "RESTART"}
        BY <2>4, <3>1, <4>2 DEF switch_state
      <4>3. CASE item \notin {"HOLD", "RESET", "RESTART"}
        BY <2>4, <3>1, <4>3, Zenon DEF switch_state
      <4> QED
        BY <4>1, <4>2, <4>3
    <3> QED
      BY <1>1, <2>1, <3>2, <3>3, NoListStep
  <2> QED
    BY <2>2, <2>3, <2>4
<1>4. CASE InWaitBreak2
  <2>1. UNCHANGED <<task, fsel_redraw>>
    BY <1>4 DEF InWaitBreak2, dirVars, fselVars
  <2>2. CASE Pressed("FIRE")
    <3>1. pc' = back /\ UNCHANGED <<state, menu_selected, inverted>>
      BY <1>4, <2>2 DEF InWaitBreak2, Stay, screen
    <3> QED
      BY <1>1, <2>1, <3>1, QuietStep
  <2>3. CASE ~Pressed("FIRE")
    <3>1. menu_init /\ pc' = "away"
      BY <1>4, <2>3 DEF InWaitBreak2
    <3> QED
      BY <1>1, <2>1, <3>1, BackToMenu
  <2> QED
    BY <2>2, <2>3
<1>5. CASE InAbout
  <2>1. UNCHANGED <<task>> /\ pc' = back /\ state' \in {"ABOOT", "ABOOT2", "MENU"}
    BY <1>5 DEF InAbout, Stay, menu_init, dirVars
  <2> QED
    BY <1>1, <2>1, NoListStep
<1>6. CASE InFsel
  BY <1>1, <1>6, InFselStep
<1> QED
  BY <1>2, <1>3, <1>4, <1>5, <1>6 DEF Act

-----------------------------------------------------------------------------
LEMMA HighlightInit ==
  ASSUME MenuInit PROVE HighlightInv
  BY DEF MenuInit, HighlightInv, TaskInPlace, DrawsList, OneHighlight, SelectionShown, Shown

\* The user's keys and cards touch nothing of the screen.
LEMMA UserStep ==
  ASSUME HighlightInv, Touch \/ Swap \/ UNCHANGED allVars PROVE HighlightInv'
<1>1. UNCHANGED <<pc, back, task, state, menu_selected, inverted, fsel_redraw>>
  BY DEF Touch, Swap, allVars, dirVars, menuVars, screen, fselVars
<1>2. Shown' => Shown
  BY <1>1 DEF Shown, Drawing
<1> QED
  BY <1>1, <1>2, Untouched DEF HighlightInv, TaskInPlace, DrawsList

LEMMA HighlightNext ==
  ASSUME MenuAssumption, HighlightInv, [MenuNext]_allVars PROVE HighlightInv'
<1>1. CASE Firmware
  BY <1>1, MountStep, TraceStep, OpenStep, ReadStep, PollStep, AwayStep, LookStep, ActStep,
     EndPulseStep, MarkStep DEF Firmware
<1>2. CASE Touch \/ Swap \/ UNCHANGED allVars
  BY <1>2, UserStep
<1> QED
  BY <1>1, <1>2 DEF MenuNext

\* What is highlighted is what FIRE would choose (HighlightIsSelection): on the
\* list that is up, after any moves, pages and broken drawings, no item but
\* menu_selected, which fsel_getselected reads, is shown inverted.
THEOREM HighlightIsWhatFireTakes == MenuSpec => []HighlightIsSelection
<1>1. MenuInit => HighlightInv
  BY HighlightInit
<1>2. HighlightInv /\ [MenuNext]_allVars => HighlightInv'
  BY HighlightNext, MenuAssumption
<1>3. HighlightInv => HighlightIsSelection
  BY DEF HighlightInv, SelectionShown, HighlightIsSelection, Shown, ListUp, Page, Marked
<1> QED
  BY <1>1, <1>2, <1>3, PTL DEF MenuSpec

-----------------------------------------------------------------------------
(* Division.                                                               *)

LEMMA DivMod ==
  ASSUME NEW S \in Nat \ {0}, NEW a \in Nat
  PROVE  a \div S \in Nat /\ a % S \in 0..(S - 1) /\ a = (a \div S) * S + (a % S)
<1>1. a = S * (a \div S) + (a % S) /\ a % S \in 0..(S - 1) /\ a \div S \in Int
  BY SMT
<1>2. a \div S >= 0
  BY <1>1, SMT
<1>3. S * (a \div S) = (a \div S) * S
  BY <1>1, SMT
<1> QED BY <1>1, <1>2, <1>3, SMT

LEMMA MulGe ==
  ASSUME NEW S \in Nat, NEW x \in Int, x >= 1
  PROVE  x * S >= S /\ x * S \in Int
<1>1. PICK y \in Nat : x = y + 1
  BY SMT
<1>2. x * S = y * S + S
  BY <1>1, SMT
<1>3. y * S >= 0 /\ y * S \in Int
  BY SMT
<1> QED BY <1>2, <1>3, SMT

LEMMA DivIs ==
  ASSUME NEW S \in Nat \ {0}, NEW q \in Nat, NEW r \in 0..(S - 1)
  PROVE  (q * S + r) \div S = q /\ (q * S + r) % S = r /\ q * S + r \in Nat
<1> DEFINE a == q * S + r
           d == a \div S
           m == a % S
<1>0. a \in Nat
  BY SMT
<1>1. d \in Nat /\ m \in 0..(S - 1) /\ a = d * S + m
  BY <1>0, DivMod
<1>2. a = q * S + r
  OBVIOUS
<1> HIDE DEF a, d, m
<1>3. (q - d) * S = m - r
  BY <1>1, <1>2, SMT
<1>4. (d - q) * S = r - m
  BY <1>1, <1>2, SMT
<1>5. ~(q - d >= 1)
  BY <1>1, <1>3, MulGe, SMT
<1>6. ~(d - q >= 1)
  BY <1>1, <1>4, MulGe, SMT
<1>7. d = q
  BY <1>1, <1>5, <1>6, SMT
<1>8. m = r
  BY <1>1, <1>2, <1>7, SMT
<1> QED BY <1>0, <1>7, <1>8 DEF a, d, m

\* Along a row, and from its end to the next.
LEMMA Along ==
  ASSUME NEW S \in Nat \ {0}, NEW a \in Nat, NEW m \in Nat, (a % S) + m < S
  PROVE  (a + m) \div S = a \div S /\ (a + m) % S = (a % S) + m
<1> DEFINE q == a \div S
           r == a % S
<1>1. q \in Nat /\ r \in 0..(S - 1) /\ a = q * S + r
  BY DivMod
<1>2. r + m < S
  OBVIOUS
<1> HIDE DEF q, r
<1>3. r + m \in 0..(S - 1)
  BY <1>1, <1>2, SMT
<1>4. (q * S + (r + m)) \div S = q /\ (q * S + (r + m)) % S = r + m
  BY <1>1, <1>3, DivIs
<1>5. q * S \in Int
  BY <1>1, SMT
<1>6. a + m = q * S + (r + m)
  BY <1>1, <1>5, SMT
<1>7. (a + m) \div S = q /\ (a + m) % S = r + m
  BY <1>4, <1>6
<1> QED BY <1>7 DEF q, r

LEMMA NextRow ==
  ASSUME NEW S \in Nat \ {0}, NEW a \in Nat, a % S = S - 1
  PROVE  (a + 1) \div S = (a \div S) + 1 /\ (a + 1) % S = 0
<1> DEFINE q == a \div S
<1>1. q \in Nat /\ a = q * S + (S - 1)
  BY DivMod
<1> HIDE DEF q
<1>2. a + 1 = (q + 1) * S + 0
  BY <1>1, SMT
<1>3. ((q + 1) * S + 0) \div S = q + 1 /\ ((q + 1) * S + 0) % S = 0
  BY <1>1, DivIs
<1>4. (a + 1) \div S = q + 1 /\ (a + 1) % S = 0
  BY <1>2, <1>3
<1> QED BY <1>4 DEF q

LEMMA MulMono ==
  ASSUME NEW S \in Nat, NEW x \in Nat, NEW y \in Nat, x <= y
  PROVE  x * S <= y * S /\ x * S \in Nat /\ y * S \in Nat
<1>1. (y - x) * S >= 0 /\ (y - x) * S = y * S - x * S
  BY SMT
<1> QED BY <1>1, SMT

LEMMA DivLess ==
  ASSUME NEW S \in Nat \ {0}, NEW n \in Nat, NEW a \in Nat
  PROVE  a < n * S <=> a \div S < n
<1> DEFINE q == a \div S
<1>1. q \in Nat /\ a % S \in 0..(S - 1) /\ a = q * S + (a % S)
  BY DivMod
<1> HIDE DEF q
<1>2. CASE q < n
  <2>1. (q + 1) * S <= n * S /\ (q + 1) * S = q * S + S /\ q * S \in Nat /\ n * S \in Nat
    <3>1. q + 1 <= n /\ q + 1 \in Nat
      BY <1>1, <1>2
    <3> QED BY <1>1, <3>1, MulMono, SMT
  <2> QED BY <1>1, <1>2, <2>1, SMT DEF q
<1>3. CASE n <= q
  <2>1. n * S <= q * S /\ q * S \in Nat /\ n * S \in Nat
    BY <1>1, <1>3, MulMono
  <2> QED BY <1>1, <1>3, <2>1, SMT DEF q
<1> QED BY <1>1, <1>2, <1>3, SMT

\* One further.
LEMMA Onward ==
  ASSUME NEW S \in Nat \ {0}, NEW a \in Nat
  PROVE  /\ a \div S \in Nat /\ a % S \in Nat /\ a + 1 \in Nat
         /\ (a + 1) % S # 0 => (a + 1) \div S = a \div S /\ (a + 1) % S = (a % S) + 1
         /\ (a + 1) % S = 0 => (a + 1) \div S = (a \div S) + 1
<1> DEFINE q == a \div S
           r == a % S
<1>1. q \in Nat /\ r \in 0..(S - 1)
  BY DivMod, Zenon
<1>2. CASE r + 1 < S
  <2>1. (a + 1) \div S = q /\ (a + 1) % S = r + 1
    <3>1. 1 \in Nat
      OBVIOUS
    <3> QED BY <1>2, <3>1, Along, Zenon
  <2> HIDE DEF q, r
  <2> QED BY <1>1, <2>1 DEF q, r
<1>3. CASE ~(r + 1 < S)
  <2>1. r = S - 1
    <3> HIDE DEF q, r
    <3> QED BY <1>1, <1>3
  <2>2. (a + 1) \div S = q + 1 /\ (a + 1) % S = 0
    BY <2>1, NextRow, Zenon
  <2> HIDE DEF q, r
  <2> QED BY <1>1, <2>2 DEF q, r
<1> QED BY <1>2, <1>3

-----------------------------------------------------------------------------
(* Cards.  The places of a directory object, entry by entry.                *)

\* Entry p of the root directory, or of VECTOR06, as the directory object has it.
RootPlace(card, p) == [sect |-> Volume[card].dirbase + p \div ENTRIES, clust |-> 0, index |-> p]
HomePlace(card, p) ==
  [sect  |-> HomeSector(card, p \div ENTRIES),
   clust |-> Home[card][((p \div ENTRIES) \div Volume[card].sects_clust) + 1],
   index |-> p]

\* What a card is, for all that follows.
LEMMA CardIs ==
  ASSUME NEW card \in DOMAIN Volume
  PROVE  /\ HasSectors(card) /\ IsLinked(card) /\ HasHome(card) /\ NamesDiffer(card)
         /\ TitleNamesNone(card) /\ card \in Cards
         /\ Volume[card].dirbase \in Nat \ {0} /\ Volume[card].database \in Nat \ {0}
         /\ Volume[card].max_clust \in Nat /\ Volume[card].sects_clust \in Nat \ {0}
         /\ Volume[card].n_rootdir \in Nat \ {0} /\ Volume[card].n_rootdir % ENTRIES = 0
         /\ Home[card] \in Seq(2..(Volume[card].max_clust - 1))
         /\ ENTRIES \in Nat \ {0} /\ ENTRIES > 2
<1>1. HasSectors(card) /\ IsLinked(card) /\ HasHome(card) /\ NamesDiffer(card)
      /\ TitleNamesNone(card)
  BY CardsAssumption
<1>2. card \in Cards
  BY DEF Volume
<1>3. ENTRIES \in Nat \ {0} /\ ENTRIES > 2
  BY EntriesAssumption
<1> QED BY <1>1, <1>2, <1>3 DEF HasSectors, IsLinked

\* The root directory is read to its last entry, and no further.
LEMMA RootNext ==
  ASSUME NEW card \in DOMAIN Volume, NEW p \in 0..(Volume[card].n_rootdir - 1), NEW link,
         NEW d, d = next_dir_entry(Volume[card], RootPlace(card, p), link)
  PROVE  IF p + 1 < Volume[card].n_rootdir THEN d = RootPlace(card, p + 1) ELSE d.sect = 0
<1> DEFINE n == Volume[card].n_rootdir
<1>1. ENTRIES \in Nat \ {0} /\ n \in Nat /\ n % ENTRIES = 0 /\ Volume[card].dirbase \in Nat
      /\ p \in Nat /\ p < n
  BY CardIs
<1> HIDE DEF n
<1>2. /\ p \div ENTRIES \in Nat
      /\ (p + 1) % ENTRIES # 0 => (p + 1) \div ENTRIES = p \div ENTRIES
      /\ (p + 1) % ENTRIES = 0 => (p + 1) \div ENTRIES = (p \div ENTRIES) + 1
  BY <1>1, Onward, Zenon
<1>3. CASE (p + 1) % ENTRIES # 0
  <2>1. d = [RootPlace(card, p) EXCEPT !.index = p + 1]
    BY <1>3 DEF next_dir_entry, RootPlace
  <2>2. d = RootPlace(card, p + 1)
    BY <1>2, <1>3, <2>1, Zenon DEF RootPlace
  <2>3. p + 1 # n
    BY <1>1, <1>3, Zenon
  <2>4. p + 1 < n
    BY <1>1, <2>3
  <2> QED BY <2>2, <2>4, Zenon DEF n
<1>4. CASE (p + 1) % ENTRIES = 0
  <2>1. (p + 1) \div ENTRIES = (p \div ENTRIES) + 1 /\ p \div ENTRIES \in Nat
    BY <1>2, <1>4, Zenon
  <2>2. CASE p + 1 < n
    <3>1. d = [RootPlace(card, p) EXCEPT !.index = p + 1, !.sect = @ + 1]
      <4>1. ~(p + 1 >= n)
        BY <1>1, <2>2
      <4>2. d = [[RootPlace(card, p) EXCEPT !.index = p + 1] EXCEPT !.sect = @ + 1]
        BY <1>4, <4>1, Zenon DEF next_dir_entry, RootPlace, n
      <4> QED BY <4>2 DEF RootPlace
    <3>2. Volume[card].dirbase + (p + 1) \div ENTRIES = (Volume[card].dirbase + p \div ENTRIES) + 1
      BY <1>1, <2>1
    <3>3. d = RootPlace(card, p + 1)
      BY <3>1, <3>2, Zenon DEF RootPlace
    <3> QED BY <2>2, <3>3 DEF n
  <2>3. CASE ~(p + 1 < n)
    <3>1. d = [RootPlace(card, p) EXCEPT !.sect = 0]
      <4>1. p + 1 >= n
        BY <1>1, <2>3
      <4> QED BY <1>4, <4>1, Zenon DEF next_dir_entry, RootPlace, n
    <3>2. d.sect = 0
      BY <3>1 DEF RootPlace
    <3> QED BY <2>3, <3>2 DEF n
  <2> QED BY <2>2, <2>3
<1> QED BY <1>3, <1>4

\* VECTOR06 begins at its third entry.
LEMMA HomeStarts ==
  ASSUME NEW card \in DOMAIN Volume, Home[card] # <<>>
  PROVE  /\ 2 < HomeSize(card) /\ HomeSize(card) \in Nat
         /\ SubDir(Volume[card], Home[card][1]) = HomePlace(card, 2)
<1> DEFINE S == Volume[card].sects_clust
           n == Len(Home[card])
<1>1. /\ ENTRIES \in Nat \ {0} /\ ENTRIES > 2 /\ S \in Nat \ {0} /\ n \in Nat \ {0}
      /\ Volume[card].database \in Nat /\ Home[card] \in Seq(2..(Volume[card].max_clust - 1))
  <2>1. Home[card] \in Seq(2..(Volume[card].max_clust - 1))
    BY CardIs
  <2>2. n \in Nat \ {0}
    BY <2>1, EmptySeq, LenProperties, SMT
  <2> QED BY <2>1, <2>2, CardIs
<1> HIDE DEF S, n
<1>2. n * S >= 1 /\ n * S \in Nat
  <2>1. 1 * S <= n * S /\ n * S \in Nat
    BY <1>1, MulMono, SMT
  <2> QED BY <1>1, <2>1
<1>3. HomeSize(card) = (n * S) * ENTRIES
  BY DEF HomeSize, n, S
<1>4. (n * S) * ENTRIES >= ENTRIES /\ (n * S) * ENTRIES \in Int
  BY <1>1, <1>2, MulGe
<1>5. 2 \div ENTRIES = 0 /\ 2 % ENTRIES = 2
  BY <1>1, DivIs, SMT
<1>6. 0 \div S = 0 /\ 0 % S = 0
  BY <1>1, DivIs, SMT
<1>7. Home[card][1] \in 2..(Volume[card].max_clust - 1)
  <2>1. 1 \in 1..Len(Home[card])
    BY <1>1 DEF n
  <2> QED BY <1>1, <2>1, ElementOfSeq, Zenon
<1>8. clust2sect(Volume[card], Home[card][1]) \in Int
  <2>1. InUse(Volume[card], Home[card][1])
    BY <1>7 DEF InUse
  <2>2. (Home[card][1] - 2) * S \in Int
    BY <1>1, <1>7, SMT
  <2> QED BY <1>1, <2>1, <2>2 DEF clust2sect, S
<1>9. HomePlace(card, 2) = [sect |-> clust2sect(Volume[card], Home[card][1]) + 0,
                            clust |-> Home[card][1], index |-> 2]
  <2>1. HomePlace(card, 2) =
          [sect |-> clust2sect(Volume[card], Home[card][0 + 1]) + 0,
           clust |-> Home[card][0 + 1], index |-> 2]
    BY <1>5, <1>6, Zenon DEF HomePlace, HomeSector, S
  <2>2. 0 + 1 = 1
    OBVIOUS
  <2> QED BY <2>1, <2>2, Zenon
<1> QED BY <1>1, <1>3, <1>4, <1>8, <1>9 DEF SubDir

\* Where an entry is: the row of sectors, and the row of clusters.
LEMMA HomeAt ==
  ASSUME NEW card \in DOMAIN Volume, NEW p \in 0..(HomeSize(card) - 1),
         NEW m, m = p \div ENTRIES, NEW k, k = m \div Volume[card].sects_clust
  PROVE  /\ m \in Nat /\ k \in 0..(Len(Home[card]) - 1)
         /\ Home[card][k + 1] \in 2..(Volume[card].max_clust - 1)
         /\ HomeSector(card, m) \in Nat \ {0}
         /\ HomePlace(card, p) = [sect |-> HomeSector(card, m), clust |-> Home[card][k + 1], index |-> p]
         /\ HomeSector(card, m) = clust2sect(Volume[card], Home[card][k + 1])
                                  + (m % Volume[card].sects_clust)
         /\ clust2sect(Volume[card], Home[card][k + 1]) \in Nat \ {0}
<1> DEFINE S == Volume[card].sects_clust
           n == Len(Home[card])
<1>1. /\ ENTRIES \in Nat \ {0} /\ S \in Nat \ {0} /\ n \in Nat
      /\ Volume[card].database \in Nat \ {0} /\ Home[card] \in Seq(2..(Volume[card].max_clust - 1))
  <2>1. Home[card] \in Seq(2..(Volume[card].max_clust - 1))
    BY CardIs
  <2>2. n \in Nat
    BY <2>1, LenProperties
  <2> QED BY <2>1, <2>2, CardIs
<1>2. HomeSize(card) = (n * S) * ENTRIES
  BY DEF HomeSize
<1>3. k = m \div S
  OBVIOUS
<1>4. HomeSector(card, m) = clust2sect(Volume[card], Home[card][k + 1]) + (m % S)
      /\ HomePlace(card, p) = [sect |-> HomeSector(card, m), clust |-> Home[card][k + 1], index |-> p]
  BY Zenon DEF HomeSector, HomePlace
<1> HIDE DEF S, n
<1>5. n * S \in Nat
  BY <1>1, MulMono, SMT
<1>6. p \in Nat /\ p < (n * S) * ENTRIES
  <2>1. (n * S) * ENTRIES \in Int
    BY <1>1, <1>5, SMT
  <2> QED BY <1>2, <2>1
<1>7. m \in Nat /\ m < n * S
  <2>1. p \div ENTRIES \in Nat
    BY <1>1, <1>6, Onward, Zenon
  <2>2. p \div ENTRIES < n * S
    BY <1>1, <1>5, <1>6, DivLess, Zenon
  <2> QED BY <2>1, <2>2
<1>8. k \in Nat /\ k < n /\ m % S \in Nat
  <2>1. m \div S \in Nat /\ m % S \in Nat
    BY <1>1, <1>7, Onward, Zenon
  <2>2. m \div S < n
    BY <1>1, <1>7, DivLess, Zenon
  <2> QED BY <1>3, <2>1, <2>2, Zenon
<1>9. Home[card][k + 1] \in 2..(Volume[card].max_clust - 1)
  <2>1. k + 1 \in 1..n
    BY <1>1, <1>8
  <2> QED BY <1>1, <2>1, ElementOfSeq DEF n
<1>10. clust2sect(Volume[card], Home[card][k + 1]) \in Nat \ {0}
  <2>1. InUse(Volume[card], Home[card][k + 1])
    BY <1>9 DEF InUse
  <2>2. Home[card][k + 1] - 2 \in Nat
    BY <1>9
  <2>3. (Home[card][k + 1] - 2) * S \in Nat
    BY <1>1, <2>2, MulMono, SMT
  <2>4. clust2sect(Volume[card], Home[card][k + 1])
        = (Home[card][k + 1] - 2) * S + Volume[card].database
    BY <2>1 DEF clust2sect, S
  <2> QED BY <1>1, <2>3, <2>4
<1>11. HomeSector(card, m) \in Nat \ {0}
  BY <1>4, <1>8, <1>10
<1> QED BY <1>1, <1>4, <1>7, <1>8, <1>9, <1>10, <1>11 DEF n, S

\* VECTOR06 is read along its clusters to the last entry of the last one.
LEMMA HomeNext ==
  ASSUME NEW card \in DOMAIN Volume, NEW p \in 0..(HomeSize(card) - 1), NEW link,
         NeedsLink(Volume[card], HomePlace(card, p)) => link = Link[card][HomePlace(card, p).clust],
         NEW d, d = next_dir_entry(Volume[card], HomePlace(card, p), link)
  PROVE  IF p + 1 < HomeSize(card) THEN d = HomePlace(card, p + 1) ELSE d.sect = 0
<1> DEFINE S == Volume[card].sects_clust
           n == Len(Home[card])
           m == p \div ENTRIES
           k == m \div S
           here == HomePlace(card, p)
<1>1. /\ ENTRIES \in Nat \ {0} /\ S \in Nat \ {0} /\ n \in Nat
      /\ Home[card] \in Seq(2..(Volume[card].max_clust - 1))
  <2>1. Home[card] \in Seq(2..(Volume[card].max_clust - 1))
    BY CardIs
  <2>2. n \in Nat
    BY <2>1, LenProperties
  <2> QED BY <2>1, <2>2, CardIs
<1>2. HomeSize(card) = (n * S) * ENTRIES /\ n * S \in Nat
  BY <1>1, MulMono, SMT DEF HomeSize
<1>3. /\ m \in Nat /\ k \in 0..(n - 1) /\ Home[card][k + 1] \in 2..(Volume[card].max_clust - 1)
      /\ HomeSector(card, m) \in Nat \ {0}
      /\ here = [sect |-> HomeSector(card, m), clust |-> Home[card][k + 1], index |-> p]
      /\ HomeSector(card, m) = clust2sect(Volume[card], Home[card][k + 1]) + (m % S)
      /\ clust2sect(Volume[card], Home[card][k + 1]) \in Nat \ {0}
  BY HomeAt, Zenon
<1>4. p \in Nat /\ p + 1 \in Nat
  BY <1>2
<1>5. /\ (p + 1) % ENTRIES # 0 => (p + 1) \div ENTRIES = m
      /\ (p + 1) % ENTRIES = 0 => (p + 1) \div ENTRIES = m + 1
  BY <1>1, <1>4, Onward, Zenon
<1>6. /\ m % S \in Nat
      /\ (m + 1) % S # 0 => (m + 1) \div S = k /\ (m + 1) % S = (m % S) + 1
      /\ (m + 1) % S = 0 => (m + 1) \div S = k + 1
  BY <1>1, <1>3, Onward, Zenon
<1>7. p + 1 < HomeSize(card) <=> (p + 1) \div ENTRIES < n * S
  BY <1>1, <1>2, <1>4, DivLess, Zenon
<1>8. m + 1 < n * S <=> (m + 1) \div S < n
  <2>1. m + 1 \in Nat
    BY <1>3
  <2> QED BY <1>1, <2>1, DivLess, Zenon
<1>9. m < n * S
  <2>1. m < n * S <=> k < n
    BY <1>1, <1>3, DivLess, Zenon
  <2> QED BY <1>1, <1>3, <2>1
<1>10. here.clust # 0 /\ here.index = p /\ here.sect = HomeSector(card, m)
  BY <1>3
<1>11. HomePlace(card, p + 1) =
         [sect  |-> HomeSector(card, (p + 1) \div ENTRIES),
          clust |-> Home[card][(((p + 1) \div ENTRIES) \div S) + 1], index |-> p + 1]
  BY Zenon DEF HomePlace
<1>12. HomeSector(card, m + 1) = clust2sect(Volume[card], Home[card][((m + 1) \div S) + 1])
                                 + ((m + 1) % S)
  BY Zenon DEF HomeSector
<1>13. NeedsLink(Volume[card], here) <=> (p + 1) % ENTRIES = 0 /\ ((p + 1) \div ENTRIES) % S = 0
  BY <1>10, Zenon DEF NeedsLink
<1> HIDE DEF n, S, m, k
<1>14. CASE (p + 1) % ENTRIES # 0
  <2>1. d = [here EXCEPT !.index = p + 1]
    <3> HIDE DEF here
    <3> QED BY <1>10, <1>14, Zenon DEF next_dir_entry, here
  <2>2. d = HomePlace(card, p + 1)
    BY <1>3, <1>5, <1>11, <1>14, <2>1 DEF k
  <2>3. p + 1 < HomeSize(card)
    BY <1>5, <1>7, <1>9, <1>14
  <2> QED BY <2>2, <2>3
<1>15. CASE (p + 1) % ENTRIES = 0 /\ (m + 1) % S # 0
  <2>1. (p + 1) \div ENTRIES = m + 1 /\ (m + 1) \div S = k
    BY <1>5, <1>6, <1>15
  <2>2. d = [[here EXCEPT !.index = p + 1] EXCEPT !.sect = @ + 1]
    <3>1. ~NeedsLink(Volume[card], here)
      BY <1>13, <1>15, <2>1
    <3> HIDE DEF here
    <3> QED BY <1>10, <1>15, <3>1, Zenon DEF next_dir_entry, here
  <2>3. HomeSector(card, m + 1) = HomeSector(card, m) + 1
    BY <1>3, <1>6, <1>12, <1>15, <2>1
  <2>4. d = [sect |-> HomeSector(card, m) + 1, clust |-> Home[card][k + 1], index |-> p + 1]
    <3>1. here = [sect |-> HomeSector(card, m), clust |-> Home[card][k + 1], index |-> p]
      BY <1>3
    <3> HIDE DEF here
    <3> QED BY <2>2, <3>1
  <2>5. d = HomePlace(card, p + 1)
    BY <1>11, <2>1, <2>3, <2>4
  <2>6. p + 1 < HomeSize(card)
    BY <1>1, <1>3, <1>7, <1>8, <2>1
  <2> QED BY <2>5, <2>6
<1>16. CASE (p + 1) % ENTRIES = 0 /\ (m + 1) % S = 0
  <2>1. (p + 1) \div ENTRIES = m + 1 /\ (m + 1) \div S = k + 1
    BY <1>5, <1>6, <1>16
  <2>2. NeedsLink(Volume[card], here)
    BY <1>13, <1>16, <2>1
  <2>3. link = Link[card][Home[card][k + 1]]
    BY <1>3, <2>2
  <2>4. IF k + 1 < n THEN link = Home[card][k + 2] ELSE ~InUse(Volume[card], link)
    <3>1. k + 1 \in DOMAIN Home[card]
      BY <1>1, <1>3, LenProperties DEF n
    <3>2. IsLinked(card)
      BY CardIs
    <3>3. (k + 1) + 1 = k + 2
      BY <1>3
    <3> QED BY <2>3, <3>1, <3>2, <3>3 DEF IsLinked, n
  <2>5. CASE k + 1 < n
    <3>1. InUse(Volume[card], link)
      <4>1. k + 2 \in 1..n
        BY <1>1, <1>3, <2>5
      <4>2. Home[card][k + 2] \in 2..(Volume[card].max_clust - 1)
        BY <1>1, <4>1, ElementOfSeq DEF n
      <4> QED BY <2>4, <2>5, <4>2 DEF InUse
    <3>2. d = [sect |-> clust2sect(Volume[card], link), clust |-> link, index |-> p + 1]
      BY <1>10, <1>16, <2>2, <3>1 DEF next_dir_entry
    <3>3. (k + 1) + 1 = k + 2
      BY <1>3
    <3>4. HomeSector(card, m + 1) = clust2sect(Volume[card], link)
      <4>1. HomeSector(card, m + 1) = clust2sect(Volume[card], link) + 0
        BY <1>12, <1>16, <2>1, <2>4, <2>5, <3>3
      <4>2. clust2sect(Volume[card], link) \in Int
        <5>1. link - 2 \in Int /\ S \in Int /\ Volume[card].database \in Int
          BY <1>1, <3>1, CardIs DEF InUse
        <5>2. (link - 2) * S \in Int
          BY <5>1, SMT
        <5> QED BY <3>1, <5>1, <5>2 DEF clust2sect, S
      <4> QED BY <4>1, <4>2
    <3>5. d = HomePlace(card, p + 1)
      BY <1>11, <2>1, <2>4, <2>5, <3>2, <3>3, <3>4
    <3>6. p + 1 < HomeSize(card)
      BY <1>7, <1>8, <2>1, <2>5
    <3> QED BY <3>5, <3>6
  <2>6. CASE ~(k + 1 < n)
    <3>1. d = [here EXCEPT !.sect = 0]
      BY <1>10, <1>16, <2>2, <2>4, <2>6 DEF next_dir_entry
    <3>2. d.sect = 0
      BY <1>3, <3>1
    <3>3. ~(p + 1 < HomeSize(card))
      BY <1>7, <1>8, <2>1, <2>6
    <3> QED BY <3>2, <3>3
  <2> QED BY <2>5, <2>6
<1> QED BY <1>14, <1>15, <1>16

\* Where the FAT is not read, the directory ends.
LEMMA HomeBroken ==
  ASSUME NEW card \in DOMAIN Volume, NEW p, NeedsLink(Volume[card], HomePlace(card, p))
  PROVE  next_dir_entry(Volume[card], HomePlace(card, p), 1).sect = 0
<1> DEFINE here == HomePlace(card, p)
<1>1. ~InUse(Volume[card], 1)
  BY CardIs DEF InUse
<1>2. here.clust # 0 /\ (here.index + 1) % ENTRIES = 0
  BY DEF NeedsLink
<1>3. next_dir_entry(Volume[card], here, 1) = [here EXCEPT !.sect = 0]
  <2> HIDE DEF here
  <2> QED BY <1>1, <1>2, Zenon DEF next_dir_entry, here
<1> QED BY <1>3 DEF HomePlace

\* The entries that a directory object is at.
LEMMA EntryIs ==
  ASSUME NEW card \in DOMAIN Volume, NEW p
  PROVE  /\ EntryAt(Disk[card], RootPlace(card, p)) = RootEntry(card, p)
         /\ EntryAt(Disk[card], HomePlace(card, p)) = HomeEntry(card, p)
         /\ RootPlace(card, p).index = p /\ HomePlace(card, p).index = p
         /\ ~NeedsLink(Volume[card], RootPlace(card, p))
  BY DEF EntryAt, RootPlace, HomePlace, RootEntry, HomeEntry, NeedsLink

\* The sectors that a directory object is in.
LEMMA SectorIs ==
  ASSUME NEW card \in DOMAIN Volume
  PROVE  /\ \A p \in 0..(Volume[card].n_rootdir - 1) :
              RootPlace(card, p).sect # 0 /\ RootPlace(card, p).sect \in DOMAIN Disk[card]
         /\ \A p \in 0..(HomeSize(card) - 1) :
              HomePlace(card, p).sect # 0 /\ HomePlace(card, p).sect \in DOMAIN Disk[card]
<1>1. HasSectors(card)
  BY CardIs
<1>2. ASSUME NEW p \in 0..(Volume[card].n_rootdir - 1)
      PROVE  RootPlace(card, p).sect # 0 /\ RootPlace(card, p).sect \in DOMAIN Disk[card]
  <2>1. p \div ENTRIES \in Nat /\ Volume[card].dirbase \in Nat \ {0}
    <3>1. /\ ENTRIES \in Nat \ {0} /\ Volume[card].dirbase \in Nat \ {0}
          /\ Volume[card].n_rootdir \in Nat
      BY CardIs, Zenon
    <3>2. p \in Nat
      BY <3>1
    <3> QED BY <3>1, <3>2, Onward, Zenon
  <2>2. RootPlace(card, p).sect = Volume[card].dirbase + p \div ENTRIES
    BY DEF RootPlace
  <2>3. Volume[card].dirbase + p \div ENTRIES \in DOMAIN Disk[card]
    BY <1>1, Zenon DEF HasSectors
  <2>4. Volume[card].dirbase + p \div ENTRIES # 0
    BY <2>1
  <2> QED BY <2>2, <2>3, <2>4, Zenon
<1>3. ASSUME NEW p \in 0..(HomeSize(card) - 1)
      PROVE  HomePlace(card, p).sect # 0 /\ HomePlace(card, p).sect \in DOMAIN Disk[card]
  <2>1. HomeSector(card, p \div ENTRIES) \in Nat \ {0}
    BY HomeAt, Zenon
  <2>2. HomeSector(card, p \div ENTRIES) \in DOMAIN Disk[card]
    BY <1>1, Zenon DEF HasSectors
  <2>3. HomePlace(card, p).sect = HomeSector(card, p \div ENTRIES)
    BY DEF HomePlace
  <2> QED BY <2>1, <2>2, <2>3
<1> QED BY <1>2, <1>3

-----------------------------------------------------------------------------
(* Images, and how many come before an entry.                               *)

Count(card) == Cardinality(Images(card))
Before(card, p) == {q \in Images(card) : q < p}

LEMMA HomeSizeNat ==
  ASSUME NEW card \in DOMAIN Volume
  PROVE  HomeSize(card) \in Nat /\ (Home[card] = <<>> => HomeSize(card) = 0)
<1>1. /\ ENTRIES \in Nat /\ Volume[card].sects_clust \in Nat
      /\ Home[card] \in Seq(2..(Volume[card].max_clust - 1))
  BY CardIs
<1>2. Len(Home[card]) \in Nat
  BY <1>1, LenProperties
<1>3. Len(Home[card]) * Volume[card].sects_clust \in Nat
  BY <1>1, <1>2, MulMono, SMT
<1>4. (Len(Home[card]) * Volume[card].sects_clust) * ENTRIES \in Nat
  BY <1>1, <1>3, MulMono, SMT
<1>5. Home[card] = <<>> => Len(Home[card]) * Volume[card].sects_clust = 0
  BY <1>1, SMT
<1>6. Home[card] = <<>> => (Len(Home[card]) * Volume[card].sects_clust) * ENTRIES = 0
  BY <1>1, <1>5, SMT
<1> QED BY <1>4, <1>6 DEF HomeSize

LEMMA ImagesFinite ==
  ASSUME NEW card \in DOMAIN Volume
  PROVE  /\ Images(card) \subseteq 2..(HomeSize(card) - 1) /\ Images(card) \subseteq Nat
         /\ IsFiniteSet(Images(card)) /\ Count(card) \in Nat
<1>1. HomeSize(card) \in Nat
  BY HomeSizeNat
<1>2. Images(card) \subseteq 2..(HomeSize(card) - 1)
  BY DEF Images, HomeUsed
<1>3. IsFiniteSet(2..(HomeSize(card) - 1))
  <2>1. 2 \in Int /\ HomeSize(card) - 1 \in Int
    BY <1>1
  <2> QED BY <2>1, FS_Interval, Zenon
<1>4. IsFiniteSet(Images(card))
  BY <1>2, <1>3, FS_Subset
<1>5. Images(card) \subseteq Nat
  BY <1>1, <1>2
<1> QED BY <1>2, <1>4, <1>5, FS_CardinalityType DEF Count

LEMMA BeforeFinite ==
  ASSUME NEW card \in DOMAIN Volume, NEW p
  PROVE  /\ IsFiniteSet(Before(card, p)) /\ ImagesBefore(card, p) = Cardinality(Before(card, p))
         /\ ImagesBefore(card, p) \in Nat /\ ImagesBefore(card, p) <= Count(card)
<1>1. Before(card, p) \in SUBSET Images(card)
  BY DEF Before
<1>2. IsFiniteSet(Images(card))
  BY ImagesFinite
<1>3. IsFiniteSet(Before(card, p)) /\ Cardinality(Before(card, p)) <= Count(card)
  BY <1>1, <1>2, FS_Subset, Zenon DEF Count
<1>4. Cardinality(Before(card, p)) \in Nat
  BY <1>3, FS_CardinalityType
<1> QED BY <1>3, <1>4 DEF ImagesBefore, Before

\* None before the third entry, one more behind each image, all behind the last.
LEMMA BeforeIs ==
  ASSUME NEW card \in DOMAIN Volume, NEW p \in Nat
  PROVE  /\ p <= 2 => ImagesBefore(card, p) = 0
         /\ p \notin Images(card) => ImagesBefore(card, p + 1) = ImagesBefore(card, p)
         /\ p \in Images(card) => ImagesBefore(card, p + 1) = ImagesBefore(card, p) + 1
         /\ (\A q \in Images(card) : q < p) => ImagesBefore(card, p) = Count(card)
<1>1. /\ Images(card) \subseteq Nat /\ \A q \in Images(card) : 2 <= q
  BY ImagesFinite, HomeSizeNat
<1>2. IsFiniteSet(Before(card, p)) /\ ImagesBefore(card, p) = Cardinality(Before(card, p))
      /\ ImagesBefore(card, p + 1) = Cardinality(Before(card, p + 1))
  BY BeforeFinite
<1>3. ASSUME p <= 2 PROVE ImagesBefore(card, p) = 0
  <2>1. Before(card, p) = {}
    BY <1>1, <1>3 DEF Before
  <2> QED BY <1>2, <2>1, FS_EmptySet
<1>4. ASSUME p \notin Images(card) PROVE ImagesBefore(card, p + 1) = ImagesBefore(card, p)
  <2>1. Before(card, p + 1) = Before(card, p)
    BY <1>1, <1>4 DEF Before
  <2> QED BY <1>2, <2>1
<1>5. ASSUME p \in Images(card) PROVE ImagesBefore(card, p + 1) = ImagesBefore(card, p) + 1
  <2>1. Before(card, p + 1) = Before(card, p) \cup {p}
    BY <1>1, <1>5 DEF Before
  <2>2. p \notin Before(card, p)
    BY DEF Before
  <2> QED BY <1>2, <2>1, <2>2, FS_AddElement
<1>6. ASSUME \A q \in Images(card) : q < p PROVE ImagesBefore(card, p) = Count(card)
  <2>1. Before(card, p) = Images(card)
    BY <1>6 DEF Before
  <2> QED BY <1>2, <2>1 DEF Count
<1> QED BY <1>3, <1>4, <1>5, <1>6

\* The images are numbered in their order, from 0.
LEMMA Numbered ==
  ASSUME NEW card \in DOMAIN Volume, NEW p \in Images(card), NEW q \in Images(card)
  PROVE  /\ p < q => ImagesBefore(card, p) < ImagesBefore(card, q)
         /\ ImagesBefore(card, p) = ImagesBefore(card, q) => p = q
         /\ ImagesBefore(card, p) < Count(card)
<1>1. p \in Nat /\ q \in Nat
  BY ImagesFinite
<1>2. ASSUME NEW a \in Images(card), NEW b \in Images(card), a \in Nat, b \in Nat, a < b
      PROVE  ImagesBefore(card, a) < ImagesBefore(card, b)
  <2>1. Before(card, a) \cup {a} \in SUBSET Before(card, b)
    BY <1>2, ImagesFinite DEF Before
  <2>2. a \notin Before(card, a)
    BY <1>2 DEF Before
  <2>3. Cardinality(Before(card, a) \cup {a}) = Cardinality(Before(card, a)) + 1
    BY <2>2, BeforeFinite, FS_AddElement
  <2>4. Cardinality(Before(card, a) \cup {a}) <= Cardinality(Before(card, b))
    BY <2>1, BeforeFinite, FS_Subset
  <2>5. /\ ImagesBefore(card, a) = Cardinality(Before(card, a)) /\ ImagesBefore(card, a) \in Nat
        /\ ImagesBefore(card, b) = Cardinality(Before(card, b)) /\ ImagesBefore(card, b) \in Nat
    BY BeforeFinite
  <2> QED BY <2>3, <2>4, <2>5
<1>3. ImagesBefore(card, p) \in Nat /\ ImagesBefore(card, q) \in Nat
  BY BeforeFinite
<1>4. p < q => ImagesBefore(card, p) < ImagesBefore(card, q)
  BY <1>1, <1>2
<1>5. q < p => ImagesBefore(card, q) < ImagesBefore(card, p)
  BY <1>1, <1>2
<1>6. ImagesBefore(card, p) < Count(card)
  <2>1. ImagesBefore(card, p + 1) = ImagesBefore(card, p) + 1
    BY <1>1, BeforeIs
  <2>2. ImagesBefore(card, p + 1) <= Count(card) /\ Count(card) \in Nat
    BY BeforeFinite, ImagesFinite
  <2> QED BY <1>3, <2>1, <2>2
<1> QED BY <1>1, <1>3, <1>4, <1>5, <1>6

\* The items of a list are the images, by their numbers.
ItemOf(card, p) == [card |-> card, n |-> ImagesBefore(card, p), name |-> HomeEntry(card, p).name]

LEMMA ListingIs ==
  ASSUME NEW card \in DOMAIN Volume
  PROVE  Listing(card) = {ItemOf(card, p) : p \in Images(card)}
<1>1. Items = UNION {{ItemOf(c, p) : p \in Images(c)} : c \in DOMAIN Volume}
  BY DEF Items, ItemOf
<1>2. \A c \in DOMAIN Volume : \A p \in Images(c) : ItemOf(c, p) \in Items
  BY <1>1
<1>3. \A it \in Items : \E c \in DOMAIN Volume : \E p \in Images(c) : it = ItemOf(c, p)
  BY <1>1, Zenon
<1>4. \A c, p : ItemOf(c, p).card = c
  BY DEF ItemOf
<1>5. \A it \in Items : it.card = card => \E p \in Images(card) : it = ItemOf(card, p)
  BY <1>3, <1>4
<1> QED BY <1>2, <1>4, <1>5, Zenon DEF Listing

LEMMA ListedIs ==
  ASSUME NEW card \in DOMAIN Volume
  PROVE  /\ \A n : Listed(card, n) <=> \E p \in Images(card) : n = ImagesBefore(card, p)
         /\ \A n : Listed(card, n) => n \in Nat /\ n < Count(card)
         /\ \A p \in Images(card) :
              ItemAt(card, ImagesBefore(card, p)) = ItemOf(card, p) /\ ItemOf(card, p) \in Items
<1>1. Listing(card) = {ItemOf(card, p) : p \in Images(card)}
  BY ListingIs
<1>2. \A p : ItemOf(card, p).n = ImagesBefore(card, p)
  BY DEF ItemOf
<1>3. \A n : Listed(card, n) <=> \E p \in Images(card) : n = ImagesBefore(card, p)
  BY <1>1, <1>2, Zenon DEF Listed
<1>4. \A n : Listed(card, n) => n \in Nat /\ n < Count(card)
  <2>1. \A p \in Images(card) : ImagesBefore(card, p) \in Nat /\ ImagesBefore(card, p) < Count(card)
    BY Numbered, BeforeFinite
  <2> QED BY <1>3, <2>1, Zenon
<1>5. ASSUME NEW p \in Images(card)
      PROVE  ItemAt(card, ImagesBefore(card, p)) = ItemOf(card, p) /\ ItemOf(card, p) \in Items
  <2>1. ItemOf(card, p) \in Listing(card) /\ ItemOf(card, p).n = ImagesBefore(card, p)
    BY <1>1, <1>2
  <2>2. \A it \in Listing(card) : it.n = ImagesBefore(card, p) => it = ItemOf(card, p)
    <3>1. \A q \in Images(card) : ImagesBefore(card, q) = ImagesBefore(card, p) => q = p
      BY Numbered
    <3> QED BY <1>1, <1>2, <3>1
  <2>3. ItemAt(card, ImagesBefore(card, p)) = ItemOf(card, p)
    BY <2>1, <2>2, Zenon DEF ItemAt
  <2> QED BY <2>1, <2>3 DEF Listing
<1> QED BY <1>3, <1>4, <1>5

\* There are as many items as images.
LEMMA ListingCount ==
  ASSUME NEW card \in DOMAIN Volume
  PROVE  Cardinality(Listing(card)) = Count(card)
<1> DEFINE f == [p \in Images(card) |-> ItemOf(card, p)]
<1>1. Listing(card) = {ItemOf(card, p) : p \in Images(card)}
  BY ListingIs
<1>2. \A p, q \in Images(card) : ItemOf(card, p) = ItemOf(card, q) => p = q
  <2>1. \A p : ItemOf(card, p).n = ImagesBefore(card, p)
    BY DEF ItemOf
  <2>2. \A p, q \in Images(card) : ImagesBefore(card, p) = ImagesBefore(card, q) => p = q
    BY Numbered
  <2> QED BY <2>1, <2>2, Zenon
<1>3. f \in [Images(card) -> Listing(card)]
  BY <1>1
<1>4. f \in Injection(Images(card), Listing(card))
  BY <1>2, <1>3 DEF Injection, IsInjective
<1>5. f \in Surjection(Images(card), Listing(card))
  BY <1>1, <1>3 DEF Surjection
<1>6. ExistsBijection(Images(card), Listing(card))
  BY <1>4, <1>5, Zenon DEF ExistsBijection, Bijection
<1> QED BY <1>6, ImagesFinite, FS_Bijection, Zenon DEF Count

-----------------------------------------------------------------------------
(* Names.                                                                   *)

LEMMA FunSeq ==
  ASSUME NEW n \in Nat, NEW f \in [1..n -> Nat]
  PROVE  f \in Seq(Nat) /\ Len(f) = n
<1>1. f \in Seq(Nat)
  OBVIOUS
<1> QED BY <1>1, LenProperties

LEMMA Widened ==
  ASSUME NEW A, NEW B, NEW C, B \subseteq C, NEW f \in [A -> B]
  PROVE  f \in [A -> C]
  OBVIOUS

\* Sequences by their elements.
LEMMA SameSeq ==
  ASSUME NEW s \in Seq(Nat), NEW t \in Seq(Nat), Len(s) = Len(t), \A k \in 1..Len(s) : s[k] = t[k]
  PROVE  s = t
  BY SeqEqual

LEMMA UpToSpaceIs ==
  ASSUME NEW s \in Seq(Nat), NEW n \in 0..Len(s), \A k \in 1..n : s[k] # SPACE,
         n < Len(s) => s[n + 1] = SPACE
  PROVE  UpToSpace(s) = SubSeq(s, 1, n)
<1> DEFINE spaces == {k \in DOMAIN s : s[k] = SPACE}
<1>1. DOMAIN s = 1..Len(s) /\ Len(s) \in Nat
  BY LenProperties
<1>2. CASE n = Len(s)
  <2>1. spaces = {}
    BY <1>1, <1>2
  <2>2. SubSeq(s, 1, Len(s)) = s
    BY <1>1
  <2> QED BY <1>2, <2>1, <2>2 DEF UpToSpace
<1>3. CASE n < Len(s)
  <2>1. n + 1 \in spaces /\ \A k \in spaces : n + 1 <= k
    BY <1>1, <1>3
  <2>2. \A k \in spaces : (\A j \in spaces : k <= j) => k = n + 1
    BY <1>1, <2>1
  <2>3. Min(spaces) = n + 1
    <3> HIDE DEF spaces
    <3> QED BY <2>1, <2>2, Zenon DEF Min
  <2>4. spaces # {} /\ Min(spaces) - 1 = n
    BY <2>1, <2>3
  <2> QED BY <2>4 DEF UpToSpace
<1>4. n = Len(s) \/ n < Len(s)
  <2>1. \A l \in Nat : n \in 0..l => n = l \/ n < l
    OBVIOUS
  <2> QED BY <1>1, <2>1, Zenon
<1> QED BY <1>2, <1>3, <1>4

\* The text of a short name: its b characters, and its extension of x.
Spelled(name, b, x) ==
  [k \in 1..(IF x = 0 THEN b ELSE b + 1 + x) |->
     IF k <= b THEN name[k] ELSE IF k = b + 1 THEN DOT ELSE name[k - b + 7]]

Spells(name, b, x) ==
  /\ name \in Seq(Nat) /\ Len(name) = 11 /\ b \in 1..8 /\ x \in 0..3
  /\ \A k \in 1..11 : IF k <= b \/ k \in 9..(8 + x) THEN name[k] \in Plain ELSE name[k] = SPACE

LEMMA ShortNameSpells ==
  ASSUME NEW name, ShortName(name)
  PROVE  \E b \in 1..8, x \in 0..3 : Spells(name, b, x)
<1>1. name \in Seq(Nat) /\ Len(name) = 11
  <2>1. name \in Seq(0..255) /\ Len(name) = 11
    BY DEF ShortName
  <2> DEFINE S == 0..255
  <2> HIDE DEF S
  <2>2. name \in [1..Len(name) -> 0..255]
    <3>1. name \in Seq(S)
      BY <2>1 DEF S
    <3>2. name \in [1..Len(name) -> S]
      BY <3>1, LenProperties
    <3> QED BY <3>2 DEF S
  <2>3. 0..255 \subseteq Nat /\ 11 \in Nat
    OBVIOUS
  <2>4. name \in [1..11 -> Nat]
    <3>1. name \in [1..Len(name) -> Nat]
      BY <2>2, <2>3, Widened, Zenon
    <3> QED BY <2>1, <3>1, Zenon
  <2> QED BY <2>3, <2>4, FunSeq, Zenon
<1> QED BY <1>1 DEF ShortName, Spells

LEMMA PlainIs ==
  ASSUME NEW c \in Plain
  PROVE  c \in 33..126 /\ c # SPACE /\ c # DOT /\ c # 5 /\ ~Rejected(c) /\ Upper(c) = c
  BY DEF Plain, SPACE, DOT

\* The name, a part at a time.
LEMMA SpellsOut ==
  ASSUME NEW name, NEW b, NEW x, Spells(name, b, x)
  PROVE  /\ b \in 1..8 /\ x \in 0..3
         /\ \A k \in 1..11 : name[k] \in Nat
         /\ \A k \in 1..b : name[k] \in Plain
         /\ \A k \in 1..x : name[8 + k] \in Plain
         /\ \A k \in (b + 1)..8 : name[k] = SPACE
         /\ \A k \in (x + 1)..3 : name[8 + k] = SPACE
<1>1. /\ b \in 1..8 /\ x \in 0..3
      /\ \A k \in 1..11 : IF k <= b \/ k \in 9..(8 + x) THEN name[k] \in Plain ELSE name[k] = SPACE
  BY DEF Spells
<1>2. \A k \in 1..11 : name[k] \in Nat
  <2>1. name \in Seq(Nat) /\ Len(name) = 11
    BY DEF Spells
  <2>2. name \in [1..11 -> Nat]
    BY <2>1, LenProperties
  <2> QED BY <2>2
<1>3. \A k \in 1..b : name[k] \in Plain
  BY <1>1
<1>4. \A k \in (b + 1)..8 : name[k] = SPACE
  BY <1>1
<1>5. \A k \in 1..x : name[8 + k] \in Plain
  <2> SUFFICES ASSUME NEW k \in 1..x PROVE name[8 + k] \in Plain
    OBVIOUS
  <2>1. 8 + k \in 1..11 /\ 8 + k \in 9..(8 + x)
    BY <1>1
  <2> QED BY <1>1, <2>1, Zenon
<1>6. \A k \in (x + 1)..3 : name[8 + k] = SPACE
  <2> SUFFICES ASSUME NEW k \in (x + 1)..3 PROVE name[8 + k] = SPACE
    OBVIOUS
  <2>1. 8 + k \in 1..11 /\ 8 + k \notin 9..(8 + x) /\ ~(8 + k <= b)
    BY <1>1
  <2> QED BY <1>1, <2>1, Zenon
<1> QED BY <1>1, <1>2, <1>3, <1>4, <1>5, <1>6

LEMMA SpelledIs ==
  ASSUME NEW name, NEW b, NEW x, Spells(name, b, x)
  PROVE  /\ Spelled(name, b, x) \in Seq(Nat)
         /\ Len(Spelled(name, b, x)) = IF x = 0 THEN b ELSE b + 1 + x
         /\ Len(Spelled(name, b, x)) \in 1..12
         /\ \A k \in 1..Len(Spelled(name, b, x)) :
              /\ Spelled(name, b, x)[k] =
                   IF k <= b THEN name[k] ELSE IF k = b + 1 THEN DOT ELSE name[k - b + 7]
              /\ Spelled(name, b, x)[k] # SPACE
              /\ Spelled(name, b, x)[k] = DOT <=> k = b + 1
              /\ k # b + 1 => Spelled(name, b, x)[k] \in Plain
<1> DEFINE n == IF x = 0 THEN b ELSE b + 1 + x
           t == Spelled(name, b, x)
<1>1. b \in 1..8 /\ x \in 0..3
  BY SpellsOut
<1>2. n \in 1..12
  BY <1>1
<1>3. t = [k \in 1..n |-> IF k <= b THEN name[k] ELSE IF k = b + 1 THEN DOT ELSE name[k - b + 7]]
  BY DEF Spelled
<1> HIDE DEF t
<1>4. ASSUME NEW k \in 1..n
      PROVE  /\ t[k] = IF k <= b THEN name[k] ELSE IF k = b + 1 THEN DOT ELSE name[k - b + 7]
             /\ t[k] # SPACE /\ t[k] \in Nat
             /\ t[k] = DOT <=> k = b + 1
             /\ k # b + 1 => t[k] \in Plain
  <2>1. t[k] = IF k <= b THEN name[k] ELSE IF k = b + 1 THEN DOT ELSE name[k - b + 7]
    BY <1>3
  <2>2. k \in Nat /\ b \in Nat
    BY <1>1, <1>2
  <2>3. \A c \in Plain : c \in Nat /\ c # SPACE /\ c # DOT
    BY PlainIs
  <2>4. CASE k <= b
    <3>1. k \in 1..b /\ k # b + 1
      BY <2>2, <2>4
    <3>2. name[k] \in Plain
      BY <3>1, SpellsOut, Zenon
    <3>3. t[k] = name[k]
      BY <2>1, <2>4, Zenon
    <3> QED BY <2>1, <2>3, <3>1, <3>2, <3>3, Zenon
  <2>5. CASE k = b + 1
    <3>1. ~(k <= b)
      BY <2>2, <2>5
    <3>2. t[k] = DOT
      BY <2>1, <2>5, <3>1, Zenon
    <3> QED BY <2>1, <2>5, <3>2 DEF DOT, SPACE
  <2>6. CASE k > b + 1
    <3>1. k - b - 1 \in 1..x /\ 8 + (k - b - 1) = k - b + 7 /\ k # b + 1 /\ ~(k <= b)
      BY <1>1, <2>2, <2>6
    <3>2. name[8 + (k - b - 1)] \in Plain
      BY <3>1, SpellsOut, Zenon
    <3>3. t[k] = name[k - b + 7]
      BY <2>1, <3>1, Zenon
    <3>4. t[k] \in Plain
      BY <3>1, <3>2, <3>3, Zenon
    <3> QED BY <2>1, <2>3, <3>1, <3>4, Zenon
  <2>7. k <= b \/ k = b + 1 \/ k > b + 1
    BY <2>2
  <2> QED BY <2>4, <2>5, <2>6, <2>7, Zenon
<1>5. t \in [1..n -> Nat]
  BY <1>3, <1>4
<1>6. t \in Seq(Nat) /\ Len(t) = n
  <2>1. n \in Nat
    BY <1>2
  <2> HIDE DEF n
  <2> QED BY <1>5, <2>1, FunSeq
<1>7. \A k \in 1..Len(t) :
        /\ t[k] = IF k <= b THEN name[k] ELSE IF k = b + 1 THEN DOT ELSE name[k - b + 7]
        /\ t[k] # SPACE
        /\ t[k] = DOT <=> k = b + 1
        /\ k # b + 1 => t[k] \in Plain
  <2> HIDE DEF n
  <2> QED BY <1>4, <1>6, Zenon
<1>8. Len(t) \in 1..12 /\ Len(t) = IF x = 0 THEN b ELSE b + 1 + x
  BY <1>2, <1>6, Zenon
<1> QED BY <1>6, <1>7, <1>8, Zenon DEF t

\* A part of a sequence.
LEMMA PartIs ==
  ASSUME NEW s, NEW l \in Nat, NEW m \in Nat, \A k \in 1..m : s[l + k] \in Nat
  PROVE  /\ SubSeq(s, l + 1, l + m) \in Seq(Nat) /\ Len(SubSeq(s, l + 1, l + m)) = m
         /\ \A k \in 1..m : SubSeq(s, l + 1, l + m)[k] = s[l + k]
<1>1. \A k \in (l + 1)..(l + m) : s[k] \in Nat
  <2> SUFFICES ASSUME NEW k \in (l + 1)..(l + m) PROVE s[k] \in Nat
    OBVIOUS
  <2>1. k - l \in 1..m /\ l + (k - l) = k
    OBVIOUS
  <2> QED BY <2>1
<1>2. /\ SubSeq(s, l + 1, l + m) \in Seq(Nat)
      /\ Len(SubSeq(s, l + 1, l + m)) = IF l + 1 <= l + m THEN (l + m) - (l + 1) + 1 ELSE 0
      /\ \A k \in 1..((l + m) - (l + 1) + 1) : SubSeq(s, l + 1, l + m)[k] = s[(l + 1) + k - 1]
  <2>1. l + 1 \in Int /\ l + m \in Int
    OBVIOUS
  <2> QED BY <1>1, <2>1, SubSeqProperties
<1>3. (l + m) - (l + 1) + 1 = m /\ (l + 1 <= l + m \/ m = 0)
  OBVIOUS
<1>4. \A k \in 1..m : (l + 1) + k - 1 = l + k
  OBVIOUS
<1>5. \A k \in 1..m : SubSeq(s, l + 1, l + m)[k] = s[l + k]
  BY <1>2, <1>3, <1>4, Zenon
<1>6. Len(SubSeq(s, l + 1, l + m)) = m
  BY <1>2, <1>3
<1> QED BY <1>2, <1>5, <1>6, Zenon

\* What get_fileinfo makes of it.
LEMMA FileInfoIs ==
  ASSUME NEW name, NEW b, NEW x, Spells(name, b, x)
  PROVE  get_fileinfo(name) = Spelled(name, b, x)
<1> DEFINE left  == SubSeq(name, 1, 8)
           right == SubSeq(name, 9, 11)
           body  == SubSeq(left, 1, b)
           ext   == SubSeq(right, 1, x)
           t     == Spelled(name, b, x)
<1>1. /\ b \in 1..8 /\ x \in 0..3 /\ \A k \in 1..11 : name[k] \in Nat
      /\ (\A k \in 1..b : name[k] \in Plain) /\ (\A k \in 1..x : name[8 + k] \in Plain)
      /\ (\A k \in (b + 1)..8 : name[k] = SPACE) /\ \A k \in (x + 1)..3 : name[8 + k] = SPACE
  BY SpellsOut
<1>2. b \in Nat /\ x \in Nat /\ b <= 8 /\ x <= 3 /\ 1 <= b
  BY <1>1
<1>3. left \in Seq(Nat) /\ Len(left) = 8 /\ \A k \in 1..8 : left[k] = name[k]
  <2>1. \A k \in 1..8 : 0 + k = k /\ k \in 1..11
    OBVIOUS
  <2>2. \A k \in 1..8 : name[0 + k] \in Nat
    BY <1>1, <2>1, Zenon
  <2>3. 0 \in Nat /\ 8 \in Nat /\ 0 + 1 = 1 /\ 0 + 8 = 8
    OBVIOUS
  <2> DEFINE l == 0
             m == 8
  <2>a. l \in Nat /\ m \in Nat /\ \A k \in 1..m : name[l + k] \in Nat
    BY <2>2
  <2>4. /\ SubSeq(name, l + 1, l + m) \in Seq(Nat) /\ Len(SubSeq(name, l + 1, l + m)) = m
        /\ \A k \in 1..m : SubSeq(name, l + 1, l + m)[k] = name[l + k]
    <3> HIDE DEF l, m
    <3> QED BY <2>a, PartIs, Zenon
  <2> QED BY <2>1, <2>3, <2>4, Zenon
<1>4. right \in Seq(Nat) /\ Len(right) = 3 /\ \A k \in 1..3 : right[k] = name[8 + k]
  <2>1. \A k \in 1..3 : 8 + k \in 1..11
    OBVIOUS
  <2>2. \A k \in 1..3 : name[8 + k] \in Nat
    BY <1>1, <2>1, Zenon
  <2>3. 8 \in Nat /\ 3 \in Nat /\ 8 + 1 = 9 /\ 8 + 3 = 11
    OBVIOUS
  <2> DEFINE l == 8
             m == 3
  <2>a. l \in Nat /\ m \in Nat /\ \A k \in 1..m : name[l + k] \in Nat
    BY <2>2
  <2>4. /\ SubSeq(name, l + 1, l + m) \in Seq(Nat) /\ Len(SubSeq(name, l + 1, l + m)) = m
        /\ \A k \in 1..m : SubSeq(name, l + 1, l + m)[k] = name[l + k]
    <3> HIDE DEF l, m
    <3> QED BY <2>a, PartIs, Zenon
  <2> QED BY <2>3, <2>4, Zenon
<1> HIDE DEF left, right
<1>5. \A c \in Plain : c \in Nat /\ c # SPACE /\ c # DOT /\ c # 5
  BY PlainIs
<1>6. /\ body \in Seq(Nat) /\ Len(body) = b
      /\ \A k \in 1..b : body[k] = name[k] /\ body[k] # 5
      /\ UpToSpace(left) = body
  <2>1. \A k \in 1..b : k \in 1..8 /\ 0 + k = k
    BY <1>2
  <2>2. \A k \in 1..b : left[0 + k] \in Nat /\ left[0 + k] = name[k] /\ left[k] # SPACE
    BY <1>1, <1>3, <1>5, <2>1, Zenon
  <2>a. \A k \in 1..b : left[0 + k] \in Nat
    BY <2>2, Zenon
  <2>3. 0 \in Nat /\ 0 + 1 = 1 /\ 0 + b = b
    BY <1>2
  <2> DEFINE l == 0
  <2>4. /\ SubSeq(left, l + 1, l + b) \in Seq(Nat) /\ Len(SubSeq(left, l + 1, l + b)) = b
        /\ \A k \in 1..b : SubSeq(left, l + 1, l + b)[k] = left[l + k]
    <3>1. l \in Nat /\ \A k \in 1..b : left[l + k] \in Nat
      BY <2>a
    <3> HIDE DEF l
    <3> QED BY <1>2, <3>1, PartIs, Zenon
  <2>5. b \in 0..Len(left) /\ (b < Len(left) => b + 1 \in (b + 1)..8 /\ b + 1 \in 1..8)
    BY <1>2, <1>3
  <2>6. b < Len(left) => left[b + 1] = SPACE
    BY <1>1, <1>3, <2>5, Zenon
  <2>7. UpToSpace(left) = SubSeq(left, 1, b)
    BY <1>3, <2>2, <2>5, <2>6, UpToSpaceIs, Zenon
  <2>8. \A k \in 1..b : name[k] # 5
    BY <1>1, <1>5, Zenon
  <2> QED BY <2>2, <2>3, <2>4, <2>7, <2>8, Zenon
<1>7. /\ ext \in Seq(Nat) /\ Len(ext) = x /\ \A k \in 1..x : ext[k] = name[8 + k]
      /\ UpToSpace(right) = ext
  <2>1. \A k \in 1..x : k \in 1..3 /\ 0 + k = k
    BY <1>2
  <2>2. \A k \in 1..x : right[0 + k] \in Nat /\ right[0 + k] = name[8 + k] /\ right[k] # SPACE
    BY <1>1, <1>4, <1>5, <2>1, Zenon
  <2>a. \A k \in 1..x : right[0 + k] \in Nat
    BY <2>2, Zenon
  <2>3. 0 \in Nat /\ 0 + 1 = 1 /\ 0 + x = x
    BY <1>2
  <2> DEFINE l == 0
  <2>4. /\ SubSeq(right, l + 1, l + x) \in Seq(Nat) /\ Len(SubSeq(right, l + 1, l + x)) = x
        /\ \A k \in 1..x : SubSeq(right, l + 1, l + x)[k] = right[l + k]
    <3>1. l \in Nat /\ \A k \in 1..x : right[l + k] \in Nat
      BY <2>a
    <3> HIDE DEF l
    <3> QED BY <1>2, <3>1, PartIs, Zenon
  <2>5. x \in 0..Len(right) /\ (x < Len(right) => x + 1 \in (x + 1)..3 /\ x + 1 \in 1..3)
    BY <1>2, <1>4
  <2>6. x < Len(right) => right[x + 1] = SPACE
    BY <1>1, <1>4, <2>5, Zenon
  <2>7. UpToSpace(right) = SubSeq(right, 1, x)
    BY <1>4, <2>2, <2>5, <2>6, UpToSpaceIs, Zenon
  <2> QED BY <2>2, <2>3, <2>4, <2>7, Zenon
<1>8. name[9] = SPACE <=> x = 0
  <2>1. 8 + 1 = 9 /\ (x # 0 => 1 \in 1..x) /\ (x = 0 => 1 \in (x + 1)..3)
    BY <1>2
  <2> QED BY <1>1, <1>5, <2>1, Zenon
<1> HIDE DEF body, ext
<1>9. [k \in DOMAIN body |-> IF body[k] = 5 THEN 229 ELSE body[k]] = body
  <2>1. body \in [1..b -> Nat] /\ DOMAIN body = 1..b
    BY <1>6, LenProperties
  <2> QED BY <1>6, <2>1
<1>10. get_fileinfo(name) = body \o (IF x = 0 THEN <<>> ELSE <<DOT>> \o ext)
  BY <1>6, <1>7, <1>8, <1>9 DEF get_fileinfo, left, right
<1>11. /\ t \in Seq(Nat) /\ Len(t) = IF x = 0 THEN b ELSE b + 1 + x
       /\ \A k \in 1..Len(t) :
            t[k] = IF k <= b THEN name[k] ELSE IF k = b + 1 THEN DOT ELSE name[k - b + 7]
  BY SpelledIs
<1> HIDE DEF t
<1>12. CASE x = 0
  <2>1. get_fileinfo(name) = body
    BY <1>6, <1>10, <1>12, ConcatEmptySeq
  <2>2. Len(t) = b
    BY <1>11, <1>12, Zenon
  <2>3. \A k \in 1..b : k <= b
    BY <1>2
  <2>4. \A k \in 1..Len(body) : body[k] = t[k]
    BY <1>6, <1>11, <2>2, <2>3, Zenon
  <2>5. body = t
    BY <1>6, <1>11, <2>2, <2>4, SameSeq, Zenon
  <2> QED BY <2>1, <2>5 DEF t
<1>13. CASE x # 0
  <2> DEFINE dot == <<DOT>>
             tail == dot \o ext
             all == body \o tail
  <2>1. dot \in Seq(Nat) /\ Len(dot) = 1 /\ dot[1] = DOT
    BY DEF DOT
  <2> HIDE DEF dot
  <2>2. /\ tail \in Seq(Nat) /\ Len(tail) = Len(dot) + Len(ext)
        /\ \A k \in 1..(Len(dot) + Len(ext)) :
             tail[k] = IF k <= Len(dot) THEN dot[k] ELSE ext[k - Len(dot)]
    <3>1. dot \in Seq(Nat) /\ ext \in Seq(Nat)
      BY <1>7, <2>1
    <3> QED BY <3>1, ConcatProperties, Zenon
  <2> HIDE DEF tail
  <2>3. /\ all \in Seq(Nat) /\ Len(all) = Len(body) + Len(tail)
        /\ \A k \in 1..(Len(body) + Len(tail)) :
             all[k] = IF k <= Len(body) THEN body[k] ELSE tail[k - Len(body)]
    <3>1. body \in Seq(Nat) /\ tail \in Seq(Nat)
      BY <1>6, <2>2
    <3> QED BY <3>1, ConcatProperties, Zenon
  <2> HIDE DEF all
  <2>4. Len(tail) = 1 + x /\ \A k \in 1..(1 + x) : tail[k] = IF k <= 1 THEN dot[k] ELSE ext[k - 1]
    BY <1>7, <2>1, <2>2, Zenon
  <2>5. /\ Len(all) = b + (1 + x)
        /\ \A k \in 1..(b + (1 + x)) : all[k] = IF k <= b THEN body[k] ELSE tail[k - b]
    BY <1>6, <2>3, <2>4, Zenon
  <2>6. Len(t) = b + (1 + x)
    <3>1. b + 1 + x = b + (1 + x)
      BY <1>2
    <3> QED BY <1>11, <1>13, <3>1, Zenon
  <2>7. ASSUME NEW k \in 1..(b + (1 + x)) PROVE all[k] = t[k]
    <3>1. k \in Nat /\ 1 <= k /\ k <= b + (1 + x)
      BY <1>2
    <3>2. all[k] = IF k <= b THEN body[k] ELSE tail[k - b]
      BY <2>5, Zenon
    <3>3. t[k] = IF k <= b THEN name[k] ELSE IF k = b + 1 THEN DOT ELSE name[k - b + 7]
      BY <1>11, <2>6, Zenon
    <3>4. CASE k <= b
      <4>1. k \in 1..b
        BY <1>2, <3>1, <3>4
      <4> QED BY <1>6, <3>2, <3>3, <3>4, <4>1, Zenon
    <3>5. CASE k = b + 1
      <4>1. k - b = 1 /\ 1 \in 1..(1 + x) /\ ~(k <= b) /\ 1 <= 1
        BY <1>2, <3>1, <3>5
      <4>2. all[k] = DOT
        <5>1. all[k] = tail[1]
          BY <3>2, <4>1, Zenon
        <5>2. tail[1] = dot[1]
          BY <2>4, <4>1, Zenon
        <5> QED BY <2>1, <5>1, <5>2, Zenon
      <4> QED BY <3>3, <3>5, <4>1, <4>2, Zenon
    <3>6. CASE k > b + 1
      <4>1. /\ k - b \in 1..(1 + x) /\ ~(k - b <= 1) /\ (k - b) - 1 \in 1..x /\ ~(k <= b)
            /\ k # b + 1 /\ 8 + ((k - b) - 1) = k - b + 7
        BY <1>2, <3>1, <3>6
      <4>2. all[k] = ext[(k - b) - 1]
        BY <2>4, <3>2, <4>1, Zenon
      <4>3. ext[(k - b) - 1] = name[k - b + 7]
        BY <1>7, <4>1, Zenon
      <4> QED BY <3>3, <4>1, <4>2, <4>3, Zenon
    <3>7. k <= b \/ k = b + 1 \/ k > b + 1
      BY <1>2, <3>1
    <3> QED BY <3>4, <3>5, <3>6, <3>7, Zenon
  <2>8. all = t
    BY <1>11, <2>3, <2>5, <2>6, <2>7, SameSeq, Zenon
  <2> QED BY <1>10, <1>13, <2>8 DEF all, tail, dot, t
<1> QED BY <1>12, <1>13 DEF t

LEMMA PadToIs ==
  ASSUME NEW s \in Seq(Nat), NEW n \in Nat, Len(s) <= n
  PROVE  /\ PadTo(s, n) \in Seq(Nat) /\ Len(PadTo(s, n)) = n
         /\ \A k \in 1..n : PadTo(s, n)[k] = IF k <= Len(s) THEN s[k] ELSE SPACE
<1> DEFINE m == n - Len(s)
           fill == [k \in 1..m |-> SPACE]
           all == PadTo(s, n)
<1>1. Len(s) \in Nat
  BY LenProperties
<1>2. m \in Nat /\ Len(s) + m = n
  BY <1>1
<1> HIDE DEF m
<1>3. fill \in [1..m -> Nat]
  BY DEF SPACE
<1>4. fill \in Seq(Nat) /\ Len(fill) = m
  <2> HIDE DEF fill
  <2> QED BY <1>2, <1>3, FunSeq
<1>5. \A k \in 1..m : fill[k] = SPACE
  OBVIOUS
<1>6. all = s \o fill
  BY DEF PadTo, m
<1> HIDE DEF fill, all
<1>7. /\ all \in Seq(Nat) /\ Len(all) = Len(s) + Len(fill)
      /\ \A k \in 1..(Len(s) + Len(fill)) : all[k] = IF k <= Len(s) THEN s[k] ELSE fill[k - Len(s)]
  BY <1>4, <1>6, ConcatProperties, Zenon
<1>8. \A k \in 1..n : all[k] = IF k <= Len(s) THEN s[k] ELSE fill[k - Len(s)]
  BY <1>2, <1>4, <1>7, Zenon
<1>9. \A k \in 1..n : k <= Len(s) \/ k - Len(s) \in 1..m
  BY <1>1, <1>2
<1>10. \A k \in 1..n : all[k] = IF k <= Len(s) THEN s[k] ELSE SPACE
  BY <1>5, <1>8, <1>9, Zenon
<1>11. Len(all) = n
  BY <1>2, <1>4, <1>7, Zenon
<1> QED BY <1>7, <1>10, <1>11, Zenon DEF all

IsBody(s, name, b) == s \in Seq(Nat) /\ Len(s) = b /\ \A k \in 1..b : s[k] = name[k]
IsExtension(s, name, x) == s \in Seq(Nat) /\ Len(s) = x /\ \A k \in 1..x : s[k] = name[8 + k]

\* The two parts, padded, are the name.
LEMMA Rejoined ==
  ASSUME NEW name, NEW b, NEW x, Spells(name, b, x),
         NEW body, IsBody(body, name, b), NEW ext, IsExtension(ext, name, x)
  PROVE  PadTo(body, 8) \o PadTo(ext, 3) = name
<1> DEFINE left  == PadTo(body, 8)
           right == PadTo(ext, 3)
           all == left \o right
<1>1. /\ b \in 1..8 /\ x \in 0..3
      /\ (\A k \in (b + 1)..8 : name[k] = SPACE) /\ \A k \in (x + 1)..3 : name[8 + k] = SPACE
  BY SpellsOut
<1>2. b <= 8 /\ x <= 3 /\ 8 \in Nat /\ 3 \in Nat
  BY <1>1
<1>a. body \in Seq(Nat) /\ Len(body) = b /\ \A k \in 1..b : body[k] = name[k]
  BY DEF IsBody
<1>b. ext \in Seq(Nat) /\ Len(ext) = x /\ \A k \in 1..x : ext[k] = name[8 + k]
  BY DEF IsExtension
<1>3. left \in Seq(Nat) /\ Len(left) = 8 /\ \A k \in 1..8 : left[k] = name[k]
  <2>1. /\ left \in Seq(Nat) /\ Len(left) = 8
        /\ \A k \in 1..8 : left[k] = IF k <= b THEN body[k] ELSE SPACE
    BY <1>2, <1>a, PadToIs, Zenon
  <2>2. ASSUME NEW k \in 1..8 PROVE left[k] = name[k]
    <3>1. (k <= b /\ k \in 1..b) \/ (~(k <= b) /\ k \in (b + 1)..8)
      BY <1>1
    <3>2. left[k] = IF k <= b THEN body[k] ELSE SPACE
      BY <2>1, Zenon
    <3> QED BY <1>1, <1>a, <3>1, <3>2, Zenon
  <2> QED BY <2>1, <2>2
<1>4. right \in Seq(Nat) /\ Len(right) = 3 /\ \A k \in 1..3 : right[k] = name[8 + k]
  <2>1. /\ right \in Seq(Nat) /\ Len(right) = 3
        /\ \A k \in 1..3 : right[k] = IF k <= x THEN ext[k] ELSE SPACE
    BY <1>2, <1>b, PadToIs, Zenon
  <2>2. ASSUME NEW k \in 1..3 PROVE right[k] = name[8 + k]
    <3>1. (k <= x /\ k \in 1..x) \/ (~(k <= x) /\ k \in (x + 1)..3)
      BY <1>1
    <3>2. right[k] = IF k <= x THEN ext[k] ELSE SPACE
      BY <2>1, Zenon
    <3> QED BY <1>1, <1>b, <3>1, <3>2, Zenon
  <2> QED BY <2>1, <2>2
<1> HIDE DEF left, right
<1>5. /\ all \in Seq(Nat) /\ Len(all) = Len(left) + Len(right)
      /\ \A k \in 1..(Len(left) + Len(right)) :
           all[k] = IF k <= Len(left) THEN left[k] ELSE right[k - Len(left)]
  <2>1. left \in Seq(Nat) /\ right \in Seq(Nat)
    BY <1>3, <1>4, Zenon
  <2> QED BY ONLY <2>1, ConcatProperties, Zenon DEF all
<1> HIDE DEF all
<1>6. Len(all) = 11 /\ \A k \in 1..11 : all[k] = IF k <= 8 THEN left[k] ELSE right[k - 8]
  <2>1. 8 + 3 = 11
    OBVIOUS
  <2> QED BY <1>3, <1>4, <1>5, <2>1, Zenon
<1>7. \A k \in 1..11 : IF k <= 8 THEN k \in 1..8 ELSE k - 8 \in 1..3 /\ 8 + (k - 8) = k
  OBVIOUS
<1>8. \A k \in 1..11 : all[k] = name[k]
  BY <1>3, <1>4, <1>6, <1>7, Zenon
<1>9. name \in Seq(Nat) /\ Len(name) = 11
  BY DEF Spells
<1>10. all = name
  BY <1>5, <1>6, <1>8, <1>9, SameSeq, Zenon
<1> QED BY <1>10 DEF all, left, right

\* A plain sequence is not changed to capitals.
LEMMA Capitals ==
  ASSUME NEW s \in Seq(Nat), \A k \in 1..Len(s) : s[k] \in Plain
  PROVE  [k \in DOMAIN s |-> Upper(s[k])] = s
<1>1. s \in [1..Len(s) -> Nat] /\ DOMAIN s = 1..Len(s)
  BY LenProperties
<1>2. \A k \in 1..Len(s) : Upper(s[k]) = s[k]
  BY PlainIs
<1> QED BY <1>1, <1>2

\* From the text of a name make_dirfile makes the name.
LEMMA DirFileIs ==
  ASSUME NEW name, NEW b, NEW x, Spells(name, b, x)
  PROVE  make_dirfile(Spelled(name, b, x)) = name
<1> DEFINE t == Spelled(name, b, x)
           dots == {k \in DOMAIN t : t[k] = DOT}
           body == IF dots = {} THEN t ELSE SubSeq(t, 1, Min(dots) - 1)
           ext  == IF dots = {} THEN <<>> ELSE SubSeq(t, AfterDots(t, Min(dots)), Len(t))
           up(s) == [k \in DOMAIN s |-> Upper(s[k])]
<1>1. b \in 1..8 /\ x \in 0..3 /\ b \in Nat /\ x \in Nat
  BY SpellsOut
<1>2. /\ t \in Seq(Nat) /\ Len(t) = IF x = 0 THEN b ELSE b + 1 + x
      /\ \A k \in 1..Len(t) :
           /\ t[k] = IF k <= b THEN name[k] ELSE IF k = b + 1 THEN DOT ELSE name[k - b + 7]
           /\ t[k] # SPACE
           /\ t[k] = DOT <=> k = b + 1
           /\ k # b + 1 => t[k] \in Plain
  BY SpelledIs
<1>3. DOMAIN t = 1..Len(t)
  BY <1>2, LenProperties, Zenon
<1> HIDE DEF t
<1>4. /\ body \in Seq(Nat) /\ Len(body) = b /\ \A k \in 1..b : body[k] = name[k] /\ body[k] \in Plain
      /\ ext \in Seq(Nat) /\ Len(ext) = x
      /\ \A k \in 1..x : ext[k] = name[8 + k] /\ ext[k] \in Plain
  <2>1. CASE x = 0
    <3>1. Len(t) = b
      BY <1>2, <2>1, Zenon
    <3>2. \A k \in 1..b : k <= b /\ k # b + 1
      BY <1>1
    <3>3. dots = {}
      BY <1>2, <1>3, <3>1, <3>2, Zenon
    <3>4. body = t /\ ext = <<>>
      BY <3>3
    <3> HIDE DEF body, ext
    <3>5. <<>> \in Seq(Nat) /\ Len(<<>>) = 0 /\ 1..x = {}
      BY <2>1
    <3> QED BY <1>2, <2>1, <3>1, <3>2, <3>4, <3>5, Zenon
  <2>2. CASE x # 0
    <3>1. Len(t) = (b + 1) + x
      BY <1>2, <2>2, Zenon
    <3>2. b + 1 \in 1..((b + 1) + x) /\ b + 1 \in Nat /\ (b + 1) - 1 = b
      BY <1>1
    <3>3. dots = {b + 1}
      BY <1>2, <1>3, <3>1, <3>2, Zenon
    <3>4. Min(dots) = b + 1
      <4>1. b + 1 <= b + 1
        BY <1>1
      <4> HIDE DEF dots
      <4> QED BY <3>3, <4>1, Zenon DEF Min
    <3>a. AfterDots(t, Min(dots)) = (b + 1) + 1
      <4> DEFINE S == {j \in ((b + 1) + 1)..(Len(t) + 1) : j = Len(t) + 1 \/ t[j] # DOT}
      <4>1. (b + 1) + 1 \in 1..Len(t) /\ (b + 1) + 1 # b + 1
        BY <1>1, <2>2, <3>1
      <4>2. t[(b + 1) + 1] # DOT
        BY <1>2, <4>1, Zenon
      <4>3. (b + 1) + 1 \in S /\ \A j \in S : j \in Nat /\ (b + 1) + 1 <= j
        BY <1>1, <3>1, <4>1, <4>2
      <4> HIDE DEF S
      <4>4. Min(S) = (b + 1) + 1
        BY <1>1, <4>3 DEF Min
      <4>5. AfterDots(t, b + 1) = Min(S)
        BY Zenon DEF AfterDots, S
      <4> HIDE DEF dots
      <4> QED BY <3>4, <4>4, <4>5, Zenon
    <3>5. body = SubSeq(t, 0 + 1, 0 + b) /\ ext = SubSeq(t, (b + 1) + 1, (b + 1) + x)
      <4>1. dots # {}
        BY <3>3
      <4>2. 0 + 1 = 1 /\ 0 + b = b
        BY <1>1
      <4> HIDE DEF dots
      <4> QED BY <3>1, <3>2, <3>4, <3>a, <4>1, <4>2, Zenon
    <3> HIDE DEF body, ext
    <3>6. \A k \in 1..b : 0 + k = k /\ k \in 1..((b + 1) + x) /\ k <= b /\ k # b + 1
      BY <1>1
    <3>7. \A k \in 1..x : /\ (b + 1) + k \in 1..((b + 1) + x) /\ ~((b + 1) + k <= b) /\ (b + 1) + k # b + 1
                          /\ ((b + 1) + k) - b + 7 = 8 + k
      BY <1>1
    <3>8. \A k \in 1..b : t[0 + k] = name[k] /\ t[0 + k] \in Plain
      BY <1>2, <3>1, <3>6, Zenon
    <3>9. \A k \in 1..x : t[(b + 1) + k] = name[8 + k] /\ t[(b + 1) + k] \in Plain
      BY <1>2, <3>1, <3>7, Zenon
    <3>10. \A c \in Plain : c \in Nat
      BY PlainIs
    <3>11. \A k \in 1..b : t[0 + k] \in Nat
      BY <3>8, <3>10, Zenon
    <3>12. \A k \in 1..x : t[(b + 1) + k] \in Nat
      BY <3>9, <3>10, Zenon
    <3>13. body \in Seq(Nat) /\ Len(body) = b /\ \A k \in 1..b : body[k] = t[0 + k]
      <4>1. 0 \in Nat
        OBVIOUS
      <4>2. /\ SubSeq(t, 0 + 1, 0 + b) \in Seq(Nat) /\ Len(SubSeq(t, 0 + 1, 0 + b)) = b
            /\ \A k \in 1..b : SubSeq(t, 0 + 1, 0 + b)[k] = t[0 + k]
        BY <1>1, <3>11, <4>1, PartIs, Zenon
      <4> QED BY <3>5, <4>2, Zenon
    <3>14. ext \in Seq(Nat) /\ Len(ext) = x /\ \A k \in 1..x : ext[k] = t[(b + 1) + k]
      <4>1. /\ SubSeq(t, (b + 1) + 1, (b + 1) + x) \in Seq(Nat)
            /\ Len(SubSeq(t, (b + 1) + 1, (b + 1) + x)) = x
            /\ \A k \in 1..x : SubSeq(t, (b + 1) + 1, (b + 1) + x)[k] = t[(b + 1) + k]
        BY <1>1, <3>2, <3>12, PartIs, Zenon
      <4> QED BY <3>5, <4>1, Zenon
    <3> QED BY <3>8, <3>9, <3>13, <3>14, Zenon
  <2> QED BY <2>1, <2>2
<1>5. ~( \/ body = <<>> \/ Len(body) > 8 \/ Len(ext) > 3 \/ DOT \in ToSet(ext)
         \/ \E k \in DOMAIN t : t[k] # DOT /\ Rejected(t[k]))
  <2> HIDE DEF body, ext
  <2>1. body # <<>>
    BY <1>1, <1>4
  <2>2. ~(Len(body) > 8) /\ ~(Len(ext) > 3)
    BY <1>1, <1>4
  <2>3. DOT \notin ToSet(ext)
    <3>1. \A k \in 1..x : ext[k] # DOT
      BY <1>4, PlainIs
    <3>2. DOMAIN ext = 1..x
      BY <1>4, LenProperties, Zenon
    <3> QED BY <3>1, <3>2, Zenon DEF ToSet
  <2>4. \A k \in DOMAIN t : t[k] # DOT => ~Rejected(t[k])
    <3>1. \A c \in Plain : ~Rejected(c)
      BY PlainIs
    <3> QED BY <1>2, <1>3, <3>1, Zenon
  <2> QED BY <2>1, <2>2, <2>3, <2>4, Zenon
<1>6. make_dirfile(t) = PadTo(up(body), 8) \o PadTo(up(ext), 3)
  BY <1>5, Zenon DEF make_dirfile
<1> HIDE DEF body, ext
<1>7. up(body) = body /\ up(ext) = ext
  BY <1>4, Capitals
<1>8. PadTo(body, 8) \o PadTo(ext, 3) = name
  <2>1. IsBody(body, name, b)
    BY <1>4 DEF IsBody
  <2>2. IsExtension(ext, name, x)
    BY <1>4 DEF IsExtension
  <2> QED BY <2>1, <2>2, Rejoined
<1> QED BY <1>6, <1>7, <1>8 DEF t

\* The text of a name in a slot, and back.
LEMMA SlotIs ==
  ASSUME NEW t \in Seq(Nat), Len(t) \in 0..12, \A k \in 1..Len(t) : t[k] # SPACE
  PROVE  strxcpy(t) \in Seq(Nat) /\ Len(strxcpy(t)) = 12 /\ UpToSpace(strxcpy(t)) = t
<1> DEFINE all == PadTo(t, 12)
           n == Len(t)
<1>1. n \in Nat /\ n <= 12 /\ 12 \in Nat /\ n \in 0..12
  <2>1. n \in 0..12
    OBVIOUS
  <2> HIDE DEF n
  <2> QED BY <2>1
<1>2. /\ all \in Seq(Nat) /\ Len(all) = 12
      /\ \A k \in 1..12 : all[k] = IF k <= n THEN t[k] ELSE SPACE
  BY <1>1, PadToIs, Zenon
<1> HIDE DEF all, n
<1>3. SubSeq(all, 1, 12) = all
  <2>1. SubSeq(all, 1, Len(all)) = all
    BY <1>2
  <2> QED BY <1>2, <2>1, Zenon
<1>4. UpToSpace(all) = SubSeq(all, 1, n)
  <2>1. \A k \in 1..n : k \in 1..12 /\ k <= n
    BY <1>1
  <2>2. \A k \in 1..n : all[k] # SPACE
    BY <1>2, <2>1, Zenon DEF n
  <2>3. n < 12 => n + 1 \in 1..12 /\ ~(n + 1 <= n)
    BY <1>1
  <2>4. n < Len(all) => all[n + 1] = SPACE
    BY <1>2, <2>3, Zenon
  <2> QED BY <1>1, <1>2, <2>2, <2>4, UpToSpaceIs, Zenon
<1>5. SubSeq(all, 1, n) = t
  <2>1. \A k \in 1..n : 0 + k = k /\ k \in 1..12 /\ k <= n
    BY <1>1
  <2>2. \A k \in 1..n : all[0 + k] = t[k] /\ t[k] \in Nat
    <3>1. \A k \in 1..n : t[k] \in Nat
      BY ElementOfSeq, Zenon DEF n
    <3> QED BY <1>2, <2>1, <3>1, Zenon
  <2>3. \A k \in 1..n : all[0 + k] \in Nat
    BY <2>2, Zenon
  <2>4. 0 \in Nat /\ 0 + 1 = 1 /\ 0 + n = n
    BY <1>1
  <2>5. /\ SubSeq(all, 0 + 1, 0 + n) \in Seq(Nat) /\ Len(SubSeq(all, 0 + 1, 0 + n)) = n
        /\ \A k \in 1..n : SubSeq(all, 0 + 1, 0 + n)[k] = all[0 + k]
    BY <1>1, <2>3, <2>4, PartIs, Zenon
  <2>6. /\ SubSeq(all, 1, n) \in Seq(Nat) /\ Len(SubSeq(all, 1, n)) = n
        /\ \A k \in 1..n : SubSeq(all, 1, n)[k] = t[k]
    BY <2>2, <2>4, <2>5, Zenon
  <2> QED BY <2>6, SameSeq, Zenon DEF n
<1> QED BY <1>2, <1>3, <1>4, <1>5, Zenon DEF strxcpy, all

\* An image's name in a slot of the list, and the name that is opened for it.
LEMMA TextIs ==
  ASSUME NEW name, ShortName(name)
  PROVE  /\ make_dirfile(get_fileinfo(name)) = name /\ name # <<>>
         /\ Len(strxcpy(get_fileinfo(name))) = 12
         /\ UpToSpace(strxcpy(get_fileinfo(name))) = get_fileinfo(name)
<1>1. PICK b \in 1..8, x \in 0..3 : Spells(name, b, x)
  BY ShortNameSpells
<1>2. get_fileinfo(name) = Spelled(name, b, x)
  BY <1>1, FileInfoIs
<1> DEFINE t == get_fileinfo(name)
<1>3. /\ t \in Seq(Nat) /\ Len(t) \in 1..12 /\ \A k \in 1..Len(t) : t[k] # SPACE
  <2> DEFINE u == Spelled(name, b, x)
  <2>1. u \in Seq(Nat) /\ Len(u) \in 1..12 /\ \A k \in 1..Len(u) : u[k] # SPACE
    BY <1>1, SpelledIs
  <2> HIDE DEF u
  <2>2. t = u
    BY <1>2 DEF u
  <2> QED BY <2>1, <2>2, Zenon
<1>4. make_dirfile(t) = name
  BY <1>1, <1>2, DirFileIs
<1>5. name # <<>>
  <2>1. Len(name) = 11
    BY <1>1 DEF Spells
  <2>2. Len(<<>>) = 0
    OBVIOUS
  <2> QED BY <2>1, <2>2
<1> HIDE DEF t
<1>6. Len(t) \in 0..12
  BY <1>3
<1>7. Len(strxcpy(t)) = 12 /\ UpToSpace(strxcpy(t)) = t
  BY <1>3, <1>6, SlotIs, Zenon
<1> QED BY <1>4, <1>5, <1>7 DEF t

\* Nor is anything opened for a slot that is blank.
LEMMA BlankIs == Len(Blank) = 12 /\ UpToSpace(Blank) = <<>> /\ make_dirfile(<<>>) = <<>>
<1>1. Blank \in [1..12 -> Nat] /\ 12 \in Nat
  BY DEF Blank, SPACE
<1>2. Blank \in Seq(Nat) /\ Len(Blank) = 12
  BY <1>1, FunSeq
<1>3. Blank[0 + 1] = SPACE /\ 0 \in 0..12 /\ 1..0 = {}
  BY DEF Blank
<1>4. UpToSpace(Blank) = SubSeq(Blank, 1, 0)
  BY <1>2, <1>3, UpToSpaceIs
<1>5. SubSeq(Blank, 1, 0) = <<>>
  BY <1>2, SubSeqEmpty
<1>6. make_dirfile(<<>>) = <<>>
  BY DEF make_dirfile
<1> QED BY <1>2, <1>4, <1>5, <1>6

-----------------------------------------------------------------------------
(* Kinds of steps: what each action does to the walk through a directory,   *)
(* the list, the files and the cursor.                                      *)

walkVars   == <<fs, path, dir, task>>
listVars   == <<fsel_pagestart, fsel_redraw, fsel_hasnextpage, i, intact, slots>>
cursorVars == <<state, menu_x, menu_y, menu_selected>>
ListStates == {"FSEL", "WAITBREAK2"}

\* Nor is a highlight added, or the rest of the menu touched.
controlVars == <<inactivity, osdcmd, OSD_CMD>>
Quiet == inverted' \subseteq inverted /\ UNCHANGED controlVars

\* Nothing of them.
Idles ==
  /\ UNCHANGED <<walkVars, listVars, fileVars, cursorVars>>
  /\ \/ pc' = pc /\ back' = back
     \/ pc = "serve" /\ pc' \in {"look", "away"} /\ back' = "serve"
     \/ pc = "pulse" /\ pc' = back /\ back' = back
     \/ pc = "look" /\ pc' \in {"act", back} /\ back' = back
     \/ pc = "act" /\ pc' = back /\ back' = back

\* The cursor of a menu without a list.
Menus ==
  /\ UNCHANGED <<walkVars, listVars, fileVars, back>>
  /\ pc = "act" /\ pc' \in {back, "pulse"} /\ state \notin ListStates
  /\ state' \in {"MENU", "WAITBREAK", "ABOOT", "ABOOT2"}
  /\ menu_x' \in {menu_x} \cup 0..2 /\ menu_y' \in {menu_y} \cup 0..2
  /\ menu_selected' \in {menu_selected} \cup 0..8

\* menu_init.
ToMenu ==
  /\ state' = "MENU" /\ menu_x' = 1 /\ menu_y' = 1 /\ menu_selected' = 255
  /\ slots' \in {slots, Cleared} /\ UNCHANGED <<walkVars, fselVars>>
Resets ==
  /\ ToMenu /\ UNCHANGED fileVars
  /\ \/ pc = "away" /\ pc' = "look" /\ back' = "mount"
     \/ pc = "look" /\ pc' \in {"act", back} /\ back' = back
     \/ pc = "act" /\ pc' = back /\ back' = back
Chooses ==
  /\ ToMenu /\ UNCHANGED <<back, first, opened>>
  /\ state = "WAITBREAK2" /\ pc = "act" /\ pc' = "away"
  /\ ptrfile' = fsel_getselected
  /\ LET n == fsel_pagestart + menu_selected
     IN chosen' = IF intact /\ InList(menu_selected) /\ Listed(fs, n)
                  THEN <<fs, ItemAt(fs, n).name>> ELSE <<>>

\* The list opens, its cursor moves, a page is turned, the highlight follows.
Opens ==
  /\ UNCHANGED <<walkVars, fileVars, back, fsel_hasnextpage, i>>
  /\ pc = "act" /\ pc' = back /\ state = "WAITBREAK" /\ state' = "FSEL"
  /\ fsel_pagestart' = 0 /\ fsel_redraw' = 1 /\ intact' = TRUE /\ slots' = Cleared
  /\ menu_x' = 0 /\ menu_y' = 0 /\ menu_selected' = 0
Moves ==
  /\ UNCHANGED <<fs, back, state, menu_selected, fsel_hasnextpage, i, intact, slots, fileVars>>
  /\ pc = "act" /\ state = "FSEL" /\ fsel_redraw' = 0
  /\ menu_y' = Down(Up).y /\ fsel_pagestart' = Down(Up).start /\ menu_x' = Right(Left(menu_x))
  /\ IF fsel_redraw = 1 \/ Down(Up).page
     THEN pc' = "trace" /\ task' = "list" /\ path' = <<VECTOR06>> /\ dir' = RootDir(vol)
     ELSE pc' = "mark" /\ UNCHANGED <<path, dir, task>>
Marks ==
  /\ UNCHANGED <<walkVars, listVars, fileVars, back, menu_x, menu_y>>
  /\ pc = "mark" /\ pc' = back /\ state' \in {state, "WAITBREAK2"}
  /\ menu_selected' = (menu_y * 2 + menu_x) % 256

\* A card is mounted; a path is looked for.
Mounts ==
  /\ UNCHANGED <<back, listVars, fileVars, cursorVars>> /\ pc = "mount"
  /\ Quiet
  /\ \/ /\ fs' \in DOMAIN Volume /\ pc' = "trace" /\ task' = "dir" /\ path' = <<VECTOR06>>
        /\ dir' = RootDir(Volume[fs'])
     \/ fs' = "none" /\ pc' = "away" /\ UNCHANGED <<path, dir, task>>
Seeks ==
  /\ UNCHANGED <<fs, back, listVars, fileVars, cursorVars>>
  /\ Quiet
  /\ pc = "open" /\ pc' = "trace" /\ task' = "open"
  /\ make_dirfile(ptrfile) # <<>> /\ path' = <<VECTOR06, make_dirfile(ptrfile)>>
  /\ dir' = RootDir(vol)

\* The entry a directory object is at, and is it the one looked for?
Entry == EntryAt(disk, dir)
Here == IsValid(Entry) /\ Entry.name = Head(path)

\* Nothing is where a path should lead.
Misses ==
  \/ pc = "open" /\ make_dirfile(ptrfile) = <<>>
  \/ pc = "trace" /\ IsEnd(Entry)
  \/ pc = "trace" /\ Here /\ (Len(path) = 1 <=> "DIR" \in Entry.attr)
  \/ pc = "trace" /\ ~Here /\ NextOf(dir, TRUE).sect = 0
GivesUp ==
  /\ UNCHANGED <<walkVars, back, listVars, cursorVars, ptrfile, opened>>
  /\ Quiet
  /\ pc = "open" \/ (pc = "trace" /\ task = "open")
  /\ first' = 0 /\ pc' = "away"
  /\ \/ chosen' = <<>>
     \/ Misses /\ chosen # <<>> /\ chosen[1] = fs /\ chosen' = chosen
NoHome ==
  /\ UNCHANGED <<walkVars, back, fsel_pagestart, fsel_redraw, i, slots, fileVars, cursorVars>>
  /\ Quiet
  /\ pc = "trace"
  /\ \/ task = "dir" /\ pc' = "away" /\ UNCHANGED <<fsel_hasnextpage, intact>>
     \/ task = "list" /\ pc' = "mark" /\ fsel_hasnextpage' = 1 /\ intact' = FALSE

\* An entry is passed; a directory is entered; a path has led somewhere.
Passes ==
  /\ UNCHANGED <<fs, path, task, pc, back, listVars, fileVars, cursorVars>>
  /\ Quiet
  /\ pc = "trace" /\ ~IsEnd(Entry) /\ ~Here
  /\ \E ok \in BOOLEAN : dir' = NextOf(dir, ok)
  /\ dir'.sect # 0
Enters ==
  /\ UNCHANGED <<fs, task, pc, back, listVars, fileVars, cursorVars>>
  /\ Quiet
  /\ pc = "trace" /\ ~IsEnd(Entry) /\ Here /\ Len(path) > 1 /\ "DIR" \in Entry.attr
  /\ path' = Tail(path) /\ dir' = SubDir(vol, Entry.clust)
Finds ==
  /\ UNCHANGED <<fs, path, back, fsel_pagestart, fsel_redraw, intact, slots, first, ptrfile, chosen,
                 cursorVars>>
  /\ Quiet
  /\ pc = "trace" /\ ~IsEnd(Entry) /\ Here /\ Len(path) = 1
  /\ \/ /\ task = "open" /\ "DIR" \notin Entry.attr /\ pc' = "serve" /\ opened' = <<fs, Entry.name>>
        /\ UNCHANGED <<dir, task, fsel_hasnextpage, i>>
     \/ /\ task = "dir" /\ "DIR" \in Entry.attr /\ first = 0 /\ pc' = "read" /\ task' = "first"
        /\ dir' = SubDir(vol, Entry.clust) /\ UNCHANGED <<opened, fsel_hasnextpage, i>>
     \/ /\ task = "dir" /\ first # 0 /\ pc' = "open"
        /\ UNCHANGED <<dir, task, opened, fsel_hasnextpage, i>>
     \/ /\ task = "list" /\ "DIR" \in Entry.attr /\ pc' = "read" /\ dir' = SubDir(vol, Entry.clust)
        /\ task' = (IF fsel_pagestart # 0 THEN "skip" ELSE "show")
        /\ fsel_hasnextpage' = 1 /\ i' = 0 /\ UNCHANGED opened

\* An entry is read, or none.
readVars == <<pc, task, fileVars, screen, fsel_pagestart, fsel_hasnextpage, i>>
Reads ==
  /\ UNCHANGED <<fs, path, back, cursorVars, fsel_redraw>>
  /\ Quiet
  /\ pc = "read" /\ dir.sect # 0 /\ ~IsEnd(Entry)
  /\ \E ok \in BOOLEAN : /\ dir' = NextOf(dir, ok)
                         /\ intact' => intact /\ (ok \/ ~NeedsLink(vol, dir))
  /\ IF IsImage(Entry) THEN Found(Entry) ELSE UNCHANGED readVars
ReadsNone ==
  /\ UNCHANGED <<fs, path, dir, back, cursorVars, fsel_redraw>>
  /\ Quiet
  /\ pc = "read" /\ NoFile
  /\ intact' => intact /\ (dir.sect = 0 \/ IsEnd(Entry))

LEMMA MountKind == ASSUME Mount PROVE Mounts
<1> DEFINE Oks == IF slot = "none" THEN {FALSE} ELSE IF faults < MaxFaults THEN BOOLEAN ELSE {TRUE}
<1>1. UNCHANGED <<back, listVars, fileVars, cursorVars>> /\ Quiet /\ pc = "mount"
  BY DEF Mount, Quiet, controlVars, menuVars, screen, fselVars, listVars, cursorVars
<1>2. PICK ok \in Oks :
        IF ok /\ slot \in DOMAIN Volume
        THEN /\ fs' = slot
             /\ pc' = "trace" /\ task' = "dir" /\ path' = <<VECTOR06>>
             /\ dir' = RootDir(Volume[slot])
        ELSE fs' = "none" /\ pc' = "away" /\ UNCHANGED dirVars
  BY Zenon DEF Mount
<1>3. CASE ok /\ slot \in DOMAIN Volume
  BY <1>1, <1>2, <1>3, Zenon DEF Mounts
<1>4. CASE ~(ok /\ slot \in DOMAIN Volume)
  <2>1. fs' = "none" /\ pc' = "away" /\ UNCHANGED <<path, dir, task>>
    BY <1>2, <1>4 DEF dirVars
  <2> QED BY <1>1, <2>1, Zenon DEF Mounts
<1> QED BY <1>3, <1>4

LEMMA OpenFailsKind ==
  ASSUME NEW why, OpenFails(why), why = "name" => Misses, UNCHANGED <<back, fs>>,
         pc = "open" \/ (pc = "trace" /\ task = "open")
  PROVE  GivesUp
<1>1. /\ UNCHANGED <<walkVars, back, listVars, cursorVars, ptrfile, opened>>
      /\ Quiet /\ first' = 0 /\ pc' = "away"
  BY DEF OpenFails, Quiet, controlVars, dirVars, menuVars, screen, fselVars, listVars, cursorVars, walkVars
<1>2. chosen' = <<>> \/ (why = "name" /\ chosen # <<>> /\ chosen[1] = fs /\ chosen' = chosen)
  BY DEF OpenFails
<1> QED BY <1>1, <1>2, Zenon DEF GivesUp

LEMMA OpenKind == ASSUME f_open PROVE Seeks \/ GivesUp
<1>1. CASE make_dirfile(ptrfile) = <<>>
  <2>1. OpenFails("name") /\ pc = "open" /\ UNCHANGED <<back, fs>>
    BY <1>1 DEF f_open
  <2>2. Misses
    BY <1>1, <2>1 DEF Misses
  <2> QED BY <2>1, <2>2, OpenFailsKind
<1>2. CASE make_dirfile(ptrfile) # <<>>
  <2>1. Trace("open", <<VECTOR06, make_dirfile(ptrfile)>>) /\ UNCHANGED <<fileVars, menuVars, back, fs>>
        /\ pc = "open"
    BY <1>2 DEF f_open
  <2>2. UNCHANGED <<listVars, cursorVars>> /\ Quiet
    BY <2>1 DEF Quiet, controlVars, menuVars, screen, fselVars, listVars, cursorVars
  <2> QED BY <1>2, <2>1, <2>2 DEF Seeks, Trace
<1> QED BY <1>1, <1>2

LEMMA TraceFailsKind ==
  ASSUME NEW why, TraceFails(why), why = "name" => Misses, UNCHANGED <<back, fs>>,
         pc = "trace", task \in {"dir", "open", "list"}
  PROVE  GivesUp \/ NoHome
<1>1. CASE task = "open"
  <2>1. OpenFails(why)
    BY <1>1 DEF TraceFails
  <2> QED BY <1>1, <2>1, OpenFailsKind
<1>2. CASE task = "dir"
  BY <1>2 DEF TraceFails, NoHome, Quiet, controlVars, walkVars, cursorVars, dirVars, menuVars, screen, fselVars
<1>3. CASE task = "list"
  BY <1>3 DEF TraceFails, NoHome, Quiet, controlVars, walkVars, cursorVars, dirVars, screen
<1> QED BY <1>1, <1>2, <1>3

LEMMA TraceEndsKind ==
  ASSUME TraceEnds(Entry), UNCHANGED <<back, fs>>, pc = "trace", task \in {"dir", "open", "list"},
         ~IsEnd(Entry), Here, Len(path) = 1
  PROVE  GivesUp \/ NoHome \/ Finds
<1>1. CASE task = "open" /\ "DIR" \in Entry.attr
  <2>1. OpenFails("name")
    BY <1>1, Zenon DEF TraceEnds
  <2>2. Misses
    BY <1>1 DEF Misses
  <2> QED BY <1>1, <2>1, <2>2, OpenFailsKind
<1>2. CASE task = "open" /\ "DIR" \notin Entry.attr
  BY <1>2 DEF TraceEnds, Finds, Quiet, controlVars, cursorVars, menuVars, dirVars, screen, fselVars
<1>3. CASE task # "open" /\ "DIR" \notin Entry.attr
  <2>1. TraceFails("name")
    BY <1>3, Zenon DEF TraceEnds
  <2> QED BY <1>3, <2>1 DEF TraceFails, NoHome, Quiet, controlVars, walkVars, cursorVars, dirVars, menuVars, screen, fselVars
<1>4. CASE task = "dir" /\ "DIR" \in Entry.attr /\ first = 0
  BY <1>4 DEF TraceEnds, Finds, Quiet, controlVars, cursorVars, menuVars, fileVars, screen, fselVars
<1>5. CASE task = "dir" /\ "DIR" \in Entry.attr /\ first # 0
  BY <1>5 DEF TraceEnds, Finds, Quiet, controlVars, cursorVars, menuVars, fileVars, dirVars, screen, fselVars
<1>6. CASE task = "list" /\ "DIR" \in Entry.attr
  BY <1>6 DEF TraceEnds, Finds, Quiet, controlVars, cursorVars, fileVars, screen
<1> QED BY <1>1, <1>2, <1>3, <1>4, <1>5, <1>6, Zenon

LEMMA TraceKind ==
  ASSUME TraceTurn, task \in {"dir", "open", "list"}, Len(path) \in Nat \ {0}
  PROVE  GivesUp \/ NoHome \/ Passes \/ Enters \/ Finds
<1>1. pc = "trace" /\ UNCHANGED <<back, fs>>
  BY DEF TraceTurn
<1>2. PICK ok \in Answers :
        IF ~Reaches(dir, ok)
        THEN TraceFails("card") /\ Blame(ok) /\ UNCHANGED winsect
        ELSE /\ winsect' = IF IsEnd(Entry) \/ Here THEN dir.sect ELSE Window(dir, ok)
             /\ Blame(ok \/ IsEnd(Entry) \/ Here \/ ~NeedsLink(vol, dir))
             /\ CASE IsEnd(Entry) -> TraceFails("name")
                  [] ~IsEnd(Entry) /\ Here /\ Len(path) = 1 -> TraceEnds(Entry)
                  [] ~IsEnd(Entry) /\ Here /\ Len(path) > 1 ->
                       IF "DIR" \notin Entry.attr THEN TraceFails("name")
                       ELSE /\ path' = Tail(path) /\ dir' = SubDir(vol, Entry.clust)
                            /\ UNCHANGED <<pc, task, fileVars, menuVars>>
                  [] OTHER ->
                       IF NextOf(dir, ok).sect = 0 THEN TraceFails(IF ok THEN "name" ELSE "card")
                       ELSE dir' = NextOf(dir, ok) /\ UNCHANGED <<pc, path, task, fileVars, menuVars>>
  BY Zenon DEF TraceTurn, Entry, Here
<1>3. ok \in BOOLEAN
  BY DEF Answers
<1>5. CASE ~Reaches(dir, ok)
  <2>1. TraceFails("card")
    BY <1>2, <1>5, Zenon
  <2> QED BY <1>1, <2>1, TraceFailsKind
<1>6. CASE Reaches(dir, ok) /\ IsEnd(Entry)
  <2>1. TraceFails("name")
    BY <1>2, <1>6, Zenon
  <2>2. Misses
    BY <1>1, <1>6 DEF Misses
  <2> QED BY <1>1, <2>1, <2>2, TraceFailsKind
<1>0. (Len(path) = 1 \/ Len(path) > 1) /\ ~(Len(path) = 1 /\ Len(path) > 1)
  <2>1. \A l \in Nat \ {0} : (l = 1 \/ l > 1) /\ ~(l = 1 /\ l > 1)
    OBVIOUS
  <2> QED BY <2>1, Zenon
<1>7. CASE Reaches(dir, ok) /\ ~IsEnd(Entry) /\ Here /\ Len(path) = 1
  <2>1. ~(Len(path) > 1)
    BY <1>0, <1>7, Zenon
  <2>2. TraceEnds(Entry)
    BY <1>2, <1>7, <2>1, Zenon
  <2> QED BY <1>1, <1>7, <2>2, TraceEndsKind
<1>8. CASE Reaches(dir, ok) /\ ~IsEnd(Entry) /\ Here /\ Len(path) > 1
  <2>1. Len(path) # 1
    BY <1>0, <1>8, Zenon
  <2>2. IF "DIR" \notin Entry.attr THEN TraceFails("name")
        ELSE /\ path' = Tail(path) /\ dir' = SubDir(vol, Entry.clust)
             /\ UNCHANGED <<pc, task, fileVars, menuVars>>
    BY <1>2, <1>8, <2>1, Zenon
  <2>3. CASE "DIR" \notin Entry.attr
    <3>1. Misses
      BY <1>1, <1>8, <2>1, <2>3 DEF Misses
    <3> QED BY <1>1, <2>2, <2>3, <3>1, TraceFailsKind
  <2>4. CASE "DIR" \in Entry.attr
    <3>1. path' = Tail(path) /\ dir' = SubDir(vol, Entry.clust) /\ UNCHANGED <<pc, task, fileVars, menuVars>>
      BY <2>2, <2>4, Zenon
    <3>2. UNCHANGED <<listVars, cursorVars>> /\ Quiet
      BY <3>1 DEF Quiet, controlVars, menuVars, screen, fselVars, listVars, cursorVars
    <3> QED BY <1>1, <1>8, <2>4, <3>1, <3>2 DEF Enters
  <2> QED BY <2>3, <2>4
<1>9. CASE Reaches(dir, ok) /\ ~IsEnd(Entry) /\ ~Here
  <2>1. IF NextOf(dir, ok).sect = 0 THEN TraceFails(IF ok THEN "name" ELSE "card")
        ELSE dir' = NextOf(dir, ok) /\ UNCHANGED <<pc, path, task, fileVars, menuVars>>
    BY <1>2, <1>9, Zenon
  <2>2. CASE NextOf(dir, ok).sect = 0 /\ ok
    <3>1. ok = TRUE
      BY <1>3, <2>2
    <3>2. Misses
      BY <1>1, <1>9, <2>2, <3>1 DEF Misses
    <3>3. TraceFails("name")
      BY <2>1, <2>2, Zenon
    <3> QED BY <1>1, <3>2, <3>3, TraceFailsKind
  <2>3. CASE NextOf(dir, ok).sect = 0 /\ ~ok
    <3>1. TraceFails("card")
      BY <2>1, <2>3, Zenon
    <3> QED BY <1>1, <3>1, TraceFailsKind
  <2>4. CASE NextOf(dir, ok).sect # 0
    <3>1. dir' = NextOf(dir, ok) /\ UNCHANGED <<pc, path, task, fileVars, menuVars>>
      BY <2>1, <2>4, Zenon
    <3>2. UNCHANGED <<listVars, cursorVars>> /\ Quiet
      BY <3>1 DEF Quiet, controlVars, menuVars, screen, fselVars, listVars, cursorVars
    <3>3. dir'.sect # 0
      BY <2>4, <3>1, Zenon
    <3> QED BY <1>1, <1>3, <1>9, <3>1, <3>2, <3>3, Zenon DEF Passes
  <2> QED BY <2>2, <2>3, <2>4
<1> QED BY <1>5, <1>6, <1>7, <1>8, <1>9, <1>0, Zenon

LEMMA FoundQuiet ==
  ASSUME NEW e, task \in {"first", "skip", "show"}, Found(e) \/ NoFile
  PROVE  inverted' \subseteq inverted
<1>1. CASE task = "first"
  BY <1>1 DEF Found, NoFile, screen
<1>2. CASE task = "skip"
  BY <1>2 DEF Found, NoFile, screen
<1>3. CASE task = "show"
  BY <1>3 DEF Found, NoFile, screen
<1> QED BY <1>1, <1>2, <1>3

LEMMA ReadKind ==
  ASSUME ReadTurn, task \in {"first", "skip", "show"} PROVE Reads \/ ReadsNone
<1>1. UNCHANGED <<fs, path, back, cursorVars, fsel_redraw, controlVars>> /\ pc = "read"
  BY DEF ReadTurn, cursorVars, controlVars
<1>0. inverted' \subseteq inverted => Quiet
  BY <1>1, Zenon DEF Quiet
<1>2. PICK ok \in Answers :
        IF dir.sect = 0 THEN NoFile /\ UNCHANGED <<dir, winsect, faults, intact>>
        ELSE IF ~Reaches(dir, ok)
        THEN NoFile /\ Blame(ok) /\ intact' = FALSE /\ UNCHANGED <<dir, winsect>>
        ELSE /\ Blame(ok \/ ~(NeedsLink(vol, dir) /\ ~IsEnd(Entry)))
             /\ intact' = (intact /\ (ok \/ ~(NeedsLink(vol, dir) /\ ~IsEnd(Entry))))
             /\ IF IsEnd(Entry) THEN NoFile /\ UNCHANGED dir /\ winsect' = dir.sect
                ELSE /\ dir' = NextOf(dir, ok) /\ winsect' = Window(dir, ok)
                     /\ IF IsImage(Entry) THEN Found(Entry)
                        ELSE UNCHANGED <<pc, task, fileVars, screen, fsel_pagestart,
                                         fsel_hasnextpage, i>>
  BY Zenon DEF ReadTurn, Entry
<1>3. ok \in BOOLEAN
  BY DEF Answers
<1>4. CASE dir.sect = 0
  <2>1. NoFile /\ UNCHANGED <<dir, intact>>
    BY <1>2, <1>4, Zenon
  <2> QED BY <1>0, <1>1, <1>4, <2>1, FoundQuiet, Zenon DEF ReadsNone
<1>5. CASE dir.sect # 0 /\ ~Reaches(dir, ok)
  <2>1. NoFile /\ intact' = FALSE /\ UNCHANGED dir
    BY <1>2, <1>5, Zenon
  <2> QED BY <1>0, <1>1, <2>1, FoundQuiet, Zenon DEF ReadsNone
<1>6. CASE dir.sect # 0 /\ Reaches(dir, ok) /\ IsEnd(Entry)
  <2>1. NoFile /\ (intact' => intact) /\ UNCHANGED dir
    BY <1>2, <1>6, Zenon
  <2> QED BY <1>0, <1>1, <1>6, <2>1, FoundQuiet, Zenon DEF ReadsNone
<1>7. CASE dir.sect # 0 /\ Reaches(dir, ok) /\ ~IsEnd(Entry)
  <2>1. /\ intact' => intact /\ (ok \/ ~NeedsLink(vol, dir))
        /\ dir' = NextOf(dir, ok)
        /\ IF IsImage(Entry) THEN Found(Entry)
           ELSE UNCHANGED <<pc, task, fileVars, screen, fsel_pagestart, fsel_hasnextpage, i>>
    BY <1>2, <1>7, Zenon
  <2>2. IF IsImage(Entry) THEN Found(Entry) ELSE UNCHANGED readVars
    BY <2>1 DEF readVars, screen
  <2>3. CASE IsImage(Entry)
    <3>1. Found(Entry)
      BY <2>1, <2>3, Zenon
    <3>2. Quiet
      BY <1>0, <3>1, FoundQuiet
    <3> QED BY <1>1, <1>3, <1>7, <2>1, <2>2, <3>2, Zenon DEF Reads
  <2>4. CASE ~IsImage(Entry)
    <3>1. UNCHANGED inverted
      BY <2>2, <2>4 DEF readVars, screen
    <3> QED BY <1>0, <1>1, <1>3, <1>7, <2>1, <2>2, <3>1 DEF Reads
  <2> QED BY <2>3, <2>4
<1> QED BY <1>4, <1>5, <1>6, <1>7, Zenon

LEMMA IdleKind ==
  ASSUME Poll \/ EndPulse \/ Touch \/ Swap \/ UNCHANGED allVars
  PROVE  Idles
<1>1. CASE Poll
  BY <1>1 DEF Poll, Idles, walkVars, listVars, cursorVars, dirVars, menuVars, screen, fselVars
<1>2. CASE EndPulse
  BY <1>2 DEF EndPulse, Idles, walkVars, listVars, cursorVars, dirVars, screen, fselVars
<1>3. CASE Touch
  BY <1>3 DEF Touch, Idles, walkVars, listVars, cursorVars, dirVars, menuVars, screen, fselVars
<1>4. CASE Swap
  BY <1>4 DEF Swap, Idles, walkVars, listVars, cursorVars, dirVars, menuVars, screen, fselVars
<1>5. CASE UNCHANGED allVars
  BY <1>5 DEF allVars, Idles, walkVars, listVars, cursorVars, dirVars, menuVars, screen, fselVars
<1> QED BY <1>1, <1>2, <1>3, <1>4, <1>5

LEMMA ToMenuKind ==
  ASSUME menu_init, UNCHANGED <<fs, dirVars, fselVars>>
  PROVE  ToMenu
  BY DEF menu_init, ToMenu, osd_cls, walkVars, dirVars, fselVars, screen

LEMMA AwayKind == ASSUME Away PROVE Resets
<1>1. ToMenu
  BY ToMenuKind DEF Away
<1> QED BY <1>1 DEF Away, Resets

LEMMA LookKind == ASSUME Look PROVE Idles \/ Resets
<1>1. /\ pc = "look" /\ pc' \in {"act", back} /\ back' = back
      /\ UNCHANGED <<fs, dirVars, fselVars, fileVars>>
  BY DEF Look
<1>2. menu_init \/ UNCHANGED <<state, screen, menu_x, menu_y, menu_selected>>
  BY Zenon DEF Look
<1>3. CASE menu_init
  BY <1>1, <1>3, ToMenuKind DEF Resets
<1>4. CASE UNCHANGED <<state, screen, menu_x, menu_y, menu_selected>>
  BY <1>1, <1>4 DEF Idles, walkVars, listVars, cursorVars, dirVars, screen, fselVars
<1> QED BY <1>2, <1>3, <1>4

LEMMA MarkKind == ASSUME Mark PROVE Marks
  BY DEF Mark, Marks, walkVars, listVars, dirVars, fselVars

\* What a turn of menu_dispatch does.
Answered == Menus \/ Opens \/ Chooses \/ Resets \/ Moves \/ Idles
LEMMA StayKind ==
  ASSUME Stay, UNCHANGED <<state, dirVars, fileVars, fselVars, back, fs>>, pc = "act"
  PROVE  Idles
  BY DEF Stay, Idles, walkVars, listVars, cursorVars, dirVars, screen, fselVars

LEMMA WaitBreakKind ==
  ASSUME InWaitBreak, UNCHANGED <<back, fs>>, pc = "act" PROVE Answered
<1>1. state = "WAITBREAK" /\ UNCHANGED <<dirVars, fileVars>>
  BY DEF InWaitBreak
<1>2. CASE Pressed("FIRE")
  BY <1>1, <1>2, StayKind DEF InWaitBreak, Answered
<1>3. CASE ~Pressed("FIRE") /\ Item[menu_selected] = "DISK"
  <2>1. OpenList
    BY <1>3 DEF InWaitBreak, switch_state
  <2>2. Opens
    BY <1>1, <2>1 DEF Opens, OpenList, osd_cls, walkVars, dirVars
  <2> QED BY <2>2 DEF Answered
<1>4. CASE ~Pressed("FIRE") /\ Item[menu_selected] # "DISK"
  <2>1. switch_state
    BY <1>4 DEF InWaitBreak
  <2>2. state' \in {"ABOOT", "MENU"} /\ UNCHANGED <<fselVars, screen, menu_x, menu_y, menu_selected>>
    BY <1>4, <2>1 DEF switch_state
  <2>3. pc' \in {back, "pulse"}
    <3>1. CASE Item[menu_selected] = "HOLD"
      BY <1>4, <2>1, <3>1 DEF switch_state
    <3>2. CASE Item[menu_selected] \in {"RESET", "RESTART"}
      BY <1>4, <2>1, <3>2 DEF switch_state
    <3>3. CASE Item[menu_selected] \notin {"HOLD", "RESET", "RESTART"}
      BY <1>4, <2>1, <3>3, Zenon DEF switch_state
    <3> QED BY <3>1, <3>2, <3>3
  <2>4. Menus
    BY <1>1, <2>2, <2>3 DEF Menus, ListStates, walkVars, listVars, dirVars, screen, fselVars
  <2> QED BY <2>4 DEF Answered
<1> QED BY <1>2, <1>3, <1>4

LEMMA ActKind == ASSUME Act PROVE Answered
<1>1. pc = "act" /\ UNCHANGED <<back, fs>>
  BY DEF Act
<1>2. CASE InMenu
  <2>1. state = "MENU" /\ state' \in {"MENU", "WAITBREAK"} /\ pc' = back
        /\ UNCHANGED <<fselVars, screen, dirVars, fileVars>>
        /\ menu_x' \in 0..2 /\ menu_y' \in 0..2
        /\ menu_selected' \in {menu_selected, menu_x' + menu_y' * 3}
    BY <1>2 DEF InMenu
  <2>3. \A x \in 0..2, y \in 0..2 : x + y * 3 \in 0..8
    OBVIOUS
  <2>4. menu_selected' \in {menu_selected} \cup 0..8
    BY <2>1, <2>3
  <2>2. Menus
    BY <1>1, <2>1, <2>4 DEF Menus, ListStates, walkVars, listVars, dirVars, screen, fselVars
  <2> QED BY <2>2 DEF Answered
<1>3. CASE InWaitBreak
  BY <1>1, <1>3, WaitBreakKind
<1>4. CASE InWaitBreak2
  <2>1. state = "WAITBREAK2" /\ UNCHANGED <<dirVars, fselVars>>
    BY <1>4 DEF InWaitBreak2
  <2>2. CASE Pressed("FIRE")
    BY <1>1, <1>4, <2>1, <2>2, StayKind DEF InWaitBreak2, Answered
  <2>3. CASE ~Pressed("FIRE")
    <3>1. menu_init
      BY <1>4, <2>3 DEF InWaitBreak2
    <3>2. ToMenu
      BY <1>1, <2>1, <3>1, ToMenuKind
    <3>3. Chooses
      BY <1>1, <1>4, <2>3, <3>2 DEF InWaitBreak2, Chooses
    <3> QED BY <3>3 DEF Answered
  <2> QED BY <2>2, <2>3
<1>5. CASE InAbout
  <2>1. UNCHANGED <<dirVars, fileVars, fselVars>>
    BY <1>5 DEF InAbout
  <2>2. CASE state = "ABOOT" /\ Stay /\ state' \in {"ABOOT", "ABOOT2"}
    BY <1>1, <2>1, <2>2 DEF Answered, Menus, Stay, ListStates, walkVars, listVars, dirVars, screen, fselVars
  <2>3. CASE state = "ABOOT2" /\ menu_init /\ pc' = back
    <3>1. ToMenu
      BY <1>1, <2>1, <2>3, ToMenuKind
    <3> QED BY <1>1, <2>1, <2>3, <3>1 DEF Answered, Resets
  <2>4. CASE Stay /\ UNCHANGED state
    BY <1>1, <2>1, <2>4, StayKind DEF Answered
  <2> QED BY <1>5, <2>2, <2>3, <2>4 DEF InAbout
<1>6. CASE InFsel
  BY <1>1, <1>6 DEF InFsel, Trace, Moves, Answered, dirVars, screen
<1> QED BY <1>2, <1>3, <1>4, <1>5, <1>6 DEF Act

Walks == \/ Mounts \/ Seeks \/ GivesUp \/ NoHome \/ Passes \/ Enters \/ Finds \/ Reads \/ ReadsNone
Kinds == Walks \/ Resets \/ Marks \/ Menus \/ Opens \/ Chooses \/ Moves \/ Idles
LEMMA WalkKind ==
  ASSUME Mount \/ TraceTurn \/ f_open \/ ReadTurn,
         pc = "trace" => task \in {"dir", "open", "list"} /\ Len(path) \in Nat \ {0},
         pc = "read" => task \in {"first", "skip", "show"}
  PROVE  Walks
<1>1. CASE Mount
  BY <1>1, MountKind, Zenon DEF Walks
<1>2. CASE TraceTurn
  <2>1. pc = "trace"
    BY <1>2 DEF TraceTurn
  <2> QED BY <1>2, <2>1, TraceKind, Zenon DEF Walks
<1>3. CASE f_open
  BY <1>3, OpenKind, Zenon DEF Walks
<1>4. CASE ReadTurn
  <2>1. pc = "read"
    BY <1>4 DEF ReadTurn
  <2> QED BY <1>4, <2>1, ReadKind, Zenon DEF Walks
<1> QED BY <1>1, <1>2, <1>3, <1>4

LEMMA StepKinds ==
  ASSUME [MenuNext]_allVars,
         pc = "trace" => task \in {"dir", "open", "list"} /\ Len(path) \in Nat \ {0},
         pc = "read" => task \in {"first", "skip", "show"}
  PROVE  Kinds
<1>1. CASE Mount \/ TraceTurn \/ f_open \/ ReadTurn
  BY <1>1, WalkKind DEF Kinds
<1>2. CASE Away
  BY <1>2, AwayKind, Zenon DEF Kinds
<1>3. CASE Look
  BY <1>3, LookKind, Zenon DEF Kinds
<1>4. CASE Act
  BY <1>4, ActKind, Zenon DEF Kinds, Answered
<1>5. CASE Mark
  BY <1>5, MarkKind, Zenon DEF Kinds
<1>6. CASE Poll \/ EndPulse \/ Touch \/ Swap \/ UNCHANGED allVars
  BY <1>6, IdleKind, Zenon DEF Kinds
<1> QED BY <1>1, <1>2, <1>3, <1>4, <1>5, <1>6, Zenon DEF MenuNext, Firmware

-----------------------------------------------------------------------------
(* Where the firmware is, and the ranges of the menu's variables.           *)

\* An image is being looked for or mounted: menu_dispatch is not in a list then.
Loading ==
  \/ pc \in {"mount", "open"}
  \/ pc = "trace" /\ task # "list"
  \/ pc = "read" /\ task = "first"

\* Where the firmware is, and what that says of the card and the menu.
Placed ==
  /\ TaskInPlace /\ first \in {0, 1}
  /\ Loading => back = "mount"
  /\ back = "serve" \/ pc \in {"trace", "read", "open", "serve"} => fs \in DOMAIN Volume
  /\ state \in ListStates => back = "serve"
  /\ back = "mount" /\ pc \in {"look", "act"} => state = "MENU"
  /\ DrawsList \/ state = "WAITBREAK2" => fsel_redraw = 0
  /\ state = "FSEL" /\ fsel_redraw = 1 => menu_y = 0 /\ fsel_pagestart = 0
  /\ back = "serve" \/ pc \in {"open", "serve"} \/ (pc = "trace" /\ task = "open") => first = 1
  /\ pc = "read" /\ task = "first" => first = 0

LEMMA PlacedInit == ASSUME MenuInit PROVE Placed
  BY DEF MenuInit, Placed, TaskInPlace, DrawsList, Loading, ListStates

LEMMA PlacedWalks == ASSUME Placed, Walks PROVE Placed'
<1> USE DEF Placed, TaskInPlace, DrawsList, Loading, ListStates, fileVars, listVars, cursorVars, walkVars
<1>1. CASE Mounts
  BY <1>1 DEF Mounts
<1>2. CASE Seeks
  BY <1>2 DEF Seeks
<1>3. CASE GivesUp
  BY <1>3 DEF GivesUp
<1>4. CASE NoHome
  BY <1>4 DEF NoHome
<1>5. CASE Passes
  BY <1>5 DEF Passes
<1>6. CASE Enters
  BY <1>6 DEF Enters
<1>7. CASE Finds
  BY <1>7 DEF Finds
<1>8. CASE Reads
  <2>1. CASE ~IsImage(Entry)
    BY <1>8, <2>1 DEF Reads, readVars
  <2>2. CASE IsImage(Entry)
    <3>1. CASE task = "first"
      BY <1>8, <2>2, <3>1 DEF Reads, Found
    <3>2. CASE task = "skip"
      BY <1>8, <2>2, <3>2 DEF Reads, Found
    <3>3. CASE task = "show"
      BY <1>8, <2>2, <3>3 DEF Reads, Found
    <3> QED BY <1>8, <3>1, <3>2, <3>3 DEF Reads
  <2> QED BY <2>1, <2>2
<1>9. CASE ReadsNone
  <2>1. CASE task = "first"
    BY <1>9, <2>1 DEF ReadsNone, NoFile
  <2>2. CASE task = "skip"
    BY <1>9, <2>2 DEF ReadsNone, NoFile
  <2>3. CASE task = "show"
    BY <1>9, <2>3 DEF ReadsNone, NoFile
  <2> QED BY <1>9, <2>1, <2>2, <2>3 DEF ReadsNone
<1> QED BY <1>1, <1>2, <1>3, <1>4, <1>5, <1>6, <1>7, <1>8, <1>9, Zenon DEF Walks

LEMMA PlacedKept == ASSUME Placed, Kinds PROVE Placed'
<1> USE DEF Placed, TaskInPlace, DrawsList, Loading, ListStates, fileVars, listVars, cursorVars, walkVars,
            fselVars
<1>1. CASE Walks
  BY <1>1, PlacedWalks
<1>2. CASE Resets
  BY <1>2 DEF Resets, ToMenu
<1>3. CASE Marks
  BY <1>3 DEF Marks
<1>4. CASE Menus
  BY <1>4 DEF Menus
<1>5. CASE Opens
  BY <1>5 DEF Opens
<1>6. CASE Chooses
  BY <1>6 DEF Chooses, ToMenu
<1>7. CASE Moves
  BY <1>7 DEF Moves
<1>8. CASE Idles
  BY <1>8 DEF Idles
<1> QED BY <1>1, <1>2, <1>3, <1>4, <1>5, <1>6, <1>7, <1>8, Zenon DEF Kinds

\* Indices, rows and pages.
TopRow == Max({2, FSEL_NLINES - 1})
Typed ==
  /\ menu_x \in {0, 1, 2, 255} /\ menu_y \in 0..TopRow
  /\ menu_selected \in 0..255 /\ fsel_pagestart \in 0..(UINT8 - 1) /\ i \in 0..(UINT8 - 1)
  /\ state \in {"MENU", "WAITBREAK", "ABOOT", "ABOOT2", "FSEL", "WAITBREAK2"}
  /\ fsel_redraw \in {0, 1} /\ fsel_hasnextpage \in {0, 1}
  /\ pc = "read" /\ task = "show" => i < FSEL_PAGESIZE

LEMMA Sizes ==
  /\ FSEL_NLINES \in 2..6 /\ FSEL_PAGESIZE = 2 * FSEL_NLINES /\ FSEL_PAGESIZE \in 4..12
  /\ UINT8 \in Nat /\ UINT8 >= 16
<1>1. FSEL_NLINES \in 2..6 /\ UINT8 \in Nat \ {0} /\ UINT8 % 16 = 0
  BY MenuAssumption
<1>2. UINT8 >= 16
  BY <1>1
<1> QED BY <1>1, <1>2 DEF FSEL_PAGESIZE

LEMMA Rows ==
  /\ TopRow \in Nat
  /\ \A y \in 0..2 \cup 0..(FSEL_NLINES - 1) : y \in 0..TopRow
<1> DEFINE m == IF FSEL_NLINES - 1 < 2 THEN 2 ELSE FSEL_NLINES - 1
<1>1. FSEL_NLINES \in 2..6
  BY Sizes
<1>2. m \in {2, FSEL_NLINES - 1} /\ m \in Nat /\ \A y \in {2, FSEL_NLINES - 1} : y =< m
  BY <1>1
<1>3. Max({2, FSEL_NLINES - 1}) \in {2, FSEL_NLINES - 1}
      /\ \A y \in {2, FSEL_NLINES - 1} : y =< Max({2, FSEL_NLINES - 1})
  BY <1>2, Zenon DEF Max
<1>4. \A k \in {2, FSEL_NLINES - 1} :
        (\A y \in {2, FSEL_NLINES - 1} : y =< k)
          => k \in Nat /\ \A y \in 0..2 \cup 0..(FSEL_NLINES - 1) : y \in 0..k
  BY <1>1
<1> QED BY <1>3, <1>4, Zenon DEF TopRow

LEMMA TypedInit == ASSUME MenuInit PROVE Typed
  BY Rows, Sizes DEF MenuInit, Typed

\* What the turn of a loop does to the counters.
Counted ==
  \/ UNCHANGED <<pc, task, fsel_pagestart, fsel_hasnextpage, i>>
  \/ task = "first" /\ pc' = "open" /\ UNCHANGED <<task, fsel_pagestart, fsel_hasnextpage, i>>
  \/ /\ task = "skip" /\ pc' = pc /\ (i' \in {0, i} \/ (i' = i + 1 /\ i' < fsel_pagestart))
     /\ task' \in {"skip", "show"} /\ (task' = "show" => i' = 0)
     /\ fsel_pagestart' \in {0, fsel_pagestart} /\ fsel_hasnextpage' = fsel_hasnextpage
  \/ /\ task = "show" /\ task' = task /\ i' = i + 1 /\ pc' = (IF i' < FSEL_PAGESIZE THEN "read" ELSE "mark")
     /\ fsel_pagestart' = fsel_pagestart /\ fsel_hasnextpage' \in {0, fsel_hasnextpage}

LEMMA CountedKind ==
  ASSUME task \in {"first", "skip", "show"}, Reads \/ ReadsNone PROVE Counted
<1>1. UNCHANGED readVars \/ (\E e : Found(e)) \/ NoFile
  BY Zenon DEF Reads, ReadsNone
<1>2. CASE UNCHANGED readVars
  BY <1>2 DEF Counted, readVars
<1>3. ASSUME NEW e, Found(e) PROVE Counted
  <2>1. CASE task = "first"
    BY <1>3, <2>1 DEF Found, Counted
  <2>2. CASE task = "skip"
    BY <1>3, <2>2 DEF Found, Counted
  <2>3. CASE task = "show"
    BY <1>3, <2>3 DEF Found, Counted
  <2> QED BY <2>1, <2>2, <2>3
<1>4. CASE NoFile
  <2>1. CASE task = "first"
    BY <1>4, <2>1 DEF NoFile, Counted
  <2>2. CASE task = "skip"
    BY <1>4, <2>2 DEF NoFile, Counted
  <2>3. CASE task = "show"
    BY <1>4, <2>3 DEF NoFile, Counted
  <2> QED BY <2>1, <2>2, <2>3
<1> QED BY <1>1, <1>2, <1>3, <1>4

LEMMA TypedReads ==
  ASSUME Placed, Typed, Reads \/ ReadsNone PROVE Typed'
<1>1. task \in {"first", "skip", "show"} /\ UNCHANGED <<cursorVars, fsel_redraw>> /\ pc = "read"
  BY DEF Placed, TaskInPlace, Reads, ReadsNone
<1>2. Counted
  BY <1>1, CountedKind
<1> QED BY <1>1, <1>2, Sizes DEF Counted, Typed, cursorVars

LEMMA TypedWalks ==
  ASSUME Placed, Typed, Walks PROVE Typed'
<1>1. CASE Mounts \/ Seeks \/ GivesUp \/ Passes \/ Enters
  <2>1. UNCHANGED <<listVars, cursorVars>> /\ (pc' # "read" \/ UNCHANGED <<pc, task>>)
    <3>1. CASE Mounts
      BY <3>1 DEF Mounts
    <3>2. CASE Seeks
      BY <3>2 DEF Seeks
    <3>3. CASE GivesUp
      BY <3>3 DEF GivesUp
    <3>4. CASE Passes
      BY <3>4 DEF Passes
    <3>5. CASE Enters
      BY <3>5 DEF Enters
    <3> QED BY <1>1, <3>1, <3>2, <3>3, <3>4, <3>5
  <2> QED BY <2>1 DEF Typed, listVars, cursorVars
<1>2. CASE NoHome
  BY <1>2 DEF NoHome, Typed, cursorVars
<1>3. CASE Finds
  BY <1>3, Sizes DEF Finds, Typed, cursorVars
<1>4. CASE Reads \/ ReadsNone
  BY <1>4, TypedReads
<1> QED BY <1>1, <1>2, <1>3, <1>4, Zenon DEF Walks

\* Up and down, a line or a page.
LEMMA MovesOn ==
  ASSUME Typed, Moves
  PROVE  /\ menu_y' \in 0..TopRow /\ fsel_pagestart' \in 0..(UINT8 - 1)
         /\ menu_x' \in {0, 1, 2, 255}
<1> DEFINE M == TopRow
<1>1. M \in Nat /\ \A y \in 0..(FSEL_NLINES - 1) : y \in 0..M
  BY Rows
<1>2. /\ menu_y \in 0..M /\ fsel_pagestart \in 0..(UINT8 - 1) /\ menu_x \in {0, 1, 2, 255}
  BY DEF Typed
<1> HIDE DEF M
<1>3. FSEL_NLINES \in 2..6 /\ FSEL_PAGESIZE \in Nat /\ UINT8 \in Nat /\ UINT8 >= 16
  BY Sizes
<1>4. \A a \in Int : a % UINT8 \in 0..(UINT8 - 1)
  BY <1>3
<1>0. Up \in [y : 0..M, start : 0..(UINT8 - 1), page : BOOLEAN]
  <2>1. 0 \in 0..M /\ FSEL_NLINES - 1 \in 0..M /\ 0 \in 0..(UINT8 - 1)
    BY <1>1, <1>3
  <2>2. fsel_pagestart - (FSEL_PAGESIZE - 1) \in Int
    BY <1>2, <1>3
  <2>3. \A y \in 0..M : y > 0 => y - 1 \in 0..M
    BY <1>1
  <2> QED BY <1>2, <1>4, <2>1, <2>2, <2>3 DEF Up
<1>6. \A up \in [y : 0..M, start : 0..(UINT8 - 1), page : BOOLEAN] :
         Down(up).y \in 0..M /\ Down(up).start \in 0..(UINT8 - 1)
  <2> SUFFICES ASSUME NEW up \in [y : 0..M, start : 0..(UINT8 - 1), page : BOOLEAN]
               PROVE  Down(up).y \in 0..M /\ Down(up).start \in 0..(UINT8 - 1)
    OBVIOUS
  <2>1. 0 \in 0..M /\ (up.y < FSEL_NLINES - 1 => up.y + 1 \in 0..M)
        /\ up.start + FSEL_PAGESIZE - 1 \in Int
    BY <1>1, <1>3
  <2>2. CASE ~Pressed("DN") \/ (~(up.y < FSEL_NLINES - 1) /\ fsel_hasnextpage # 1)
    BY <2>2 DEF Down
  <2>3. CASE Pressed("DN") /\ up.y < FSEL_NLINES - 1
    BY <2>1, <2>3 DEF Down
  <2>4. CASE Pressed("DN") /\ ~(up.y < FSEL_NLINES - 1) /\ fsel_hasnextpage = 1
    BY <1>4, <2>1, <2>4, Zenon DEF Down
  <2> QED BY <2>2, <2>3, <2>4
<1>7. Right(Left(menu_x)) \in {0, 1, 2, 255}
  BY <1>2 DEF Right, Left
<1> QED BY <1>0, <1>6, <1>7 DEF Moves, M

LEMMA TypedKept ==
  ASSUME Placed, Typed, Kinds PROVE Typed'
<1>1. CASE Walks
  BY <1>1, TypedWalks
<1>2. CASE Resets \/ Chooses
  BY <1>2, Rows DEF Resets, Chooses, ToMenu, Typed, fselVars, walkVars, Placed, TaskInPlace
<1>3. CASE Marks
  <2>1. \A y \in Nat, x \in {0, 1, 2, 255} : (y * 2 + x) % 256 \in 0..255
    OBVIOUS
  <2>2. menu_selected' \in 0..255
    BY <1>3, <2>1, Rows DEF Marks, Typed
  <2> QED BY <1>3, <2>2, Rows DEF Marks, Typed, listVars, walkVars, Placed, TaskInPlace
<1>4. CASE Menus
  <2>1. menu_x' \in {0, 1, 2, 255} /\ menu_y' \in 0..TopRow /\ menu_selected' \in 0..255
    BY <1>4, Rows DEF Menus, Typed
  <2>2. state' \in {"MENU", "WAITBREAK", "ABOOT", "ABOOT2"}
    BY <1>4 DEF Menus
  <2> QED BY <1>4, <2>1, <2>2 DEF Menus, Typed, listVars, walkVars, Placed, TaskInPlace
<1>5. CASE Opens
  BY <1>5, Rows, Sizes DEF Opens, Typed, walkVars, Placed, TaskInPlace
<1>6. CASE Moves
  BY <1>6, MovesOn DEF Moves, Typed
<1>7. CASE Idles
  BY <1>7 DEF Idles, Typed, listVars, walkVars, cursorVars, Placed, TaskInPlace
<1> QED BY <1>1, <1>2, <1>3, <1>4, <1>5, <1>6, <1>7, Zenon DEF Kinds

\* The latches: what the last write to OSD_CMD left, the timer, the highlights.
Latched ==
  /\ osdcmd \subseteq {"hold"} /\ (pc # "pulse" => OSD_CMD = osdcmd)
  /\ inactivity \in 0..INACTIVITY /\ inverted \subseteq Slots

LEMMA TitleIn == INACTIVITY \in Nat /\ DOMAIN Title \subseteq Slots
<1>1. INACTIVITY \in Nat /\ DOMAIN Title \subseteq {14, 15}
  BY MenuAssumption
<1> QED BY <1>1 DEF Slots

LEMMA LatchedInit == ASSUME MenuInit PROVE Latched
  BY TitleIn DEF MenuInit, Latched

LEMMA WalksQuiet == ASSUME Walks PROVE Quiet /\ pc # "pulse"
<1>1. CASE Mounts \/ Seeks \/ GivesUp
  BY <1>1 DEF Mounts, Seeks, GivesUp
<1>2. CASE NoHome
  BY <1>2 DEF NoHome
<1>3. CASE Passes \/ Enters
  BY <1>3 DEF Passes, Enters
<1>4. CASE Finds
  BY <1>4 DEF Finds
<1>5. CASE Reads
  <2>1. Quiet /\ pc = "read"
    BY <1>5, Zenon DEF Reads
  <2> QED BY <2>1
<1>6. CASE ReadsNone
  <2>1. Quiet /\ pc = "read"
    BY <1>6, Zenon DEF ReadsNone
  <2> QED BY <2>1
<1> QED BY <1>1, <1>2, <1>3, <1>4, <1>5, <1>6 DEF Walks

\* Kept by the menu's own handlers, whatever the timer is set to.
LatchedMenu ==
  /\ osdcmd \subseteq {"hold"} /\ (pc # "pulse" => OSD_CMD = osdcmd) /\ inverted \subseteq Slots

LEMMA LatchedInitMenu == ASSUME Latched, menu_init PROVE LatchedMenu'
  BY TitleIn DEF menu_init, Latched, LatchedMenu, osd_cls, screen

LEMMA LatchedAct == ASSUME Latched, Act PROVE LatchedMenu'
<1>1. pc = "act" /\ OSD_CMD = osdcmd /\ LatchedMenu
  BY DEF Act, Latched, LatchedMenu
<1>2. CASE InMenu
  BY <1>1, <1>2 DEF InMenu, LatchedMenu, screen
<1>3. CASE InWaitBreak
  <2>1. CASE Pressed("FIRE")
    BY <1>1, <1>3, <2>1 DEF InWaitBreak, Stay, LatchedMenu, screen
  <2>2. CASE ~Pressed("FIRE") /\ Item[menu_selected] = "DISK"
    BY <1>1, <1>3, <2>2, TitleIn DEF InWaitBreak, switch_state, OpenList, osd_cls, LatchedMenu
  <2>3. CASE ~Pressed("FIRE") /\ Item[menu_selected] = "HOLD"
    BY <1>1, <1>3, <2>3 DEF InWaitBreak, switch_state, LatchedMenu, screen
  <2>4. CASE ~Pressed("FIRE") /\ Item[menu_selected] \in {"RESET", "RESTART"}
    BY <1>1, <1>3, <2>4 DEF InWaitBreak, switch_state, LatchedMenu, screen
  <2>5. CASE ~Pressed("FIRE") /\ Item[menu_selected] \notin {"DISK", "HOLD", "RESET", "RESTART"}
    <3>1. UNCHANGED <<osdcmd, OSD_CMD>> /\ UNCHANGED screen
      BY <1>3, <2>5, Zenon DEF InWaitBreak, switch_state
    <3> QED BY <1>1, <3>1 DEF LatchedMenu, screen
  <2> QED BY <2>1, <2>2, <2>3, <2>4, <2>5
<1>4. CASE InWaitBreak2
  BY <1>1, <1>4, LatchedInitMenu DEF InWaitBreak2, Stay, LatchedMenu, screen
<1>5. CASE InAbout
  BY <1>1, <1>5, LatchedInitMenu DEF InAbout, Stay, LatchedMenu, screen
<1>6. CASE InFsel
  BY <1>1, <1>6 DEF InFsel, LatchedMenu, screen
<1> QED BY <1>2, <1>3, <1>4, <1>5, <1>6 DEF Act

LEMMA LatchedKept ==
  ASSUME Latched, Typed, [MenuNext]_allVars,
         pc = "trace" => task \in {"dir", "open", "list"} /\ Len(path) \in Nat \ {0},
         pc = "read" => task \in {"first", "skip", "show"}
  PROVE  Latched'
<1>1. CASE Mount \/ TraceTurn \/ f_open \/ ReadTurn
  <2>1. Quiet /\ pc # "pulse"
    BY <1>1, WalkKind, WalksQuiet
  <2> QED BY <2>1 DEF Latched, Quiet, controlVars
<1>2. CASE Away
  BY <1>2, LatchedInitMenu DEF Away, Latched, LatchedMenu
<1>3. CASE Look
  <2>1. inactivity' \in 0..INACTIVITY
    BY <1>3, TitleIn DEF Look, Latched
  <2>2. CASE menu_init
    BY <1>3, <2>1, <2>2, LatchedInitMenu DEF Latched, LatchedMenu
  <2>3. CASE UNCHANGED <<screen, osdcmd, OSD_CMD>>
    BY <1>3, <2>1, <2>3 DEF Look, Latched, screen
  <2> QED BY <1>3, <2>2, <2>3 DEF Look
<1>4. CASE Act
  BY <1>4, LatchedAct, TitleIn DEF Act, Latched, LatchedMenu
<1>5. CASE Mark
  <2>1. \A y \in Nat, x \in {0, 1, 2, 255} : ((y * 2 + x) % 256) % 16 \in 0..15
    OBVIOUS
  <2>3. ((menu_y * 2 + menu_x) % 256) % 16 \in Slots
    BY <2>1, Rows DEF Typed, Slots
  <2>2. inverted' \subseteq inverted \cup {((menu_y * 2 + menu_x) % 256) % 16}
    BY <1>5, Zenon DEF Mark, MoveHighlight, fsel_index2offs
  <2> QED BY <1>5, <2>2, <2>3 DEF Mark, Latched
<1>6. CASE Poll \/ Touch \/ Swap \/ UNCHANGED allVars
  BY <1>6 DEF Poll, Touch, Swap, allVars, menuVars, screen, Latched
<1>7. CASE EndPulse
  BY <1>7 DEF EndPulse, Latched, screen
<1> QED BY <1>1, <1>2, <1>3, <1>4, <1>5, <1>6, <1>7, Zenon DEF MenuNext, Firmware

-----------------------------------------------------------------------------
(* The walk: what has been passed of the root directory, or of VECTOR06.    *)

IsNamed(e, name) == IsValid(e) /\ e.name = name

RootSeen(card, d) ==
  /\ d.index \in 0..(Volume[card].n_rootdir - 1) /\ d = RootPlace(card, d.index)
  /\ \A q \in 0..(d.index - 1) :
       RootEntry(card, q).name[1] # 0 /\ ~IsNamed(RootEntry(card, q), VECTOR06)
HomeSeen(card, d) ==
  /\ d.index \in 2..(HomeSize(card) - 1) /\ d = HomePlace(card, d.index)
  /\ \A q \in 2..(d.index - 1) : HomeEntry(card, q).name[1] # 0
Unnamed(card, d, name) == \A q \in 2..(d.index - 1) : ~IsNamed(HomeEntry(card, q), name)

LEMMA RootBegins ==
  ASSUME NEW card \in DOMAIN Volume PROVE RootSeen(card, RootDir(Volume[card]))
<1> DEFINE d == RootDir(Volume[card])
<1>1. /\ Volume[card].n_rootdir \in Nat \ {0} /\ Volume[card].dirbase \in Nat
      /\ ENTRIES \in Nat \ {0} /\ ENTRIES > 2
  BY CardIs
<1>2. 0 \div ENTRIES = 0
  BY <1>1
<1>3. d.index = 0 /\ d = RootPlace(card, 0)
  BY <1>1, <1>2 DEF RootDir, RootPlace
<1>4. 0 \in 0..(Volume[card].n_rootdir - 1) /\ 0..(0 - 1) = {}
  BY <1>1
<1> HIDE DEF d
<1> QED BY <1>3, <1>4 DEF RootSeen, d

\* What the root directory's next entry is.
LEMMA RootGoesOn ==
  ASSUME NEW card \in DOMAIN Volume, NEW d, RootSeen(card, d), NEW link,
         NEW e, e = EntryAt(Disk[card], d), ~IsEnd(e), ~IsNamed(e, VECTOR06),
         NEW n, n = next_dir_entry(Volume[card], d, link), n.sect # 0
  PROVE  RootSeen(card, n)
<1> DEFINE p == d.index
<1>1. p \in 0..(Volume[card].n_rootdir - 1) /\ d = RootPlace(card, p) /\ Volume[card].n_rootdir \in Nat
  BY CardIs DEF RootSeen
<1>2. IF p + 1 < Volume[card].n_rootdir THEN n = RootPlace(card, p + 1) ELSE n.sect = 0
  BY <1>1, RootNext
<1>3. p + 1 < Volume[card].n_rootdir /\ n = RootPlace(card, p + 1)
  BY <1>2, Zenon
<1>4. n.index = p + 1 /\ e = RootEntry(card, p)
  BY <1>1, <1>3, EntryIs
<1>5. \A q \in 0..(p - 1) : RootEntry(card, q).name[1] # 0 /\ ~IsNamed(RootEntry(card, q), VECTOR06)
  BY DEF RootSeen
<1>6. RootEntry(card, p).name[1] # 0 /\ ~IsNamed(RootEntry(card, p), VECTOR06)
  BY <1>4 DEF IsEnd
<1> HIDE DEF p
<1>7. p + 1 \in 0..(Volume[card].n_rootdir - 1) /\ \A q \in 0..((p + 1) - 1) : q = p \/ q \in 0..(p - 1)
  BY <1>1, <1>3
<1> QED BY <1>3, <1>4, <1>5, <1>6, <1>7, Zenon DEF RootSeen

\* Where there is VECTOR06, the root leads to it.
LEMMA RootHasHome ==
  ASSUME NEW card \in DOMAIN Volume, Home[card] # <<>>, NEW d, RootSeen(card, d), NEW link,
         NEW e, e = EntryAt(Disk[card], d)
  PROVE  /\ ~IsEnd(e) /\ (IsNamed(e, VECTOR06) => "DIR" \in e.attr)
         /\ ~IsNamed(e, VECTOR06) => next_dir_entry(Volume[card], d, link).sect # 0
<1> DEFINE n == Volume[card].n_rootdir
           k == d.index
           homes == {p \in RootUsed(card) : IsValid(RootEntry(card, p)) /\ RootEntry(card, p).name = VECTOR06}
<1>1. PICK p \in homes : homes = {p} /\ "DIR" \in RootEntry(card, p).attr
  BY CardIs, Zenon DEF HasHome
<1>2. k \in 0..(n - 1) /\ d = RootPlace(card, k) /\ n \in Nat /\ e = RootEntry(card, k)
  BY CardIs, EntryIs DEF RootSeen
<1>3. p \in 0..(n - 1) /\ IsNamed(RootEntry(card, p), VECTOR06)
      /\ \A q \in 0..p : RootEntry(card, q).name[1] # 0
  BY DEF RootUsed, IsNamed
<1>4. \A q \in 0..(k - 1) : ~IsNamed(RootEntry(card, q), VECTOR06)
  BY DEF RootSeen
<1>5. k <= p
  <2>1. ~(p \in 0..(k - 1))
    BY <1>3, <1>4
  <2> HIDE DEF k, n
  <2> QED BY <1>2, <1>3, <2>1
<1>6. k \in 0..p
  <2> HIDE DEF k, n
  <2> QED BY <1>2, <1>3, <1>5
<1>7. ~IsEnd(e)
  BY <1>2, <1>3, <1>6, Zenon DEF IsEnd
<1>8. ASSUME IsNamed(e, VECTOR06) PROVE "DIR" \in e.attr
  <2>1. k \in RootUsed(card)
    <3>1. \A q \in 0..k : q \in 0..p
      <4> HIDE DEF k, n
      <4> QED BY <1>2, <1>3, <1>5
    <3> QED BY <1>2, <1>3, <3>1, Zenon DEF RootUsed
  <2>2. k \in homes
    BY <1>2, <1>8, <2>1, Zenon DEF IsNamed
  <2>3. k = p
    BY <1>1, <2>2, Zenon
  <2> QED BY <1>1, <1>2, <2>3, Zenon
<1>9. ASSUME ~IsNamed(e, VECTOR06) PROVE next_dir_entry(Volume[card], d, link).sect # 0
  <2>1. k # p
    BY <1>2, <1>3, <1>9, Zenon
  <2>2. k + 1 < n /\ k + 1 \in 0..(n - 1)
    <3> HIDE DEF k, n
    <3> QED BY <1>2, <1>3, <1>5, <2>1
  <2>3. next_dir_entry(Volume[card], d, link) = RootPlace(card, k + 1)
    BY <1>2, <2>2, RootNext, Zenon
  <2> QED BY <2>2, <2>3, SectorIs, Zenon
<1> QED BY <1>7, <1>8, <1>9

LEMMA RootLeads ==
  ASSUME NEW card \in DOMAIN Volume, NEW d, RootSeen(card, d),
         NEW e, e = EntryAt(Disk[card], d), ~IsEnd(e), IsNamed(e, VECTOR06), "DIR" \in e.attr,
         NEW s, s = SubDir(Volume[card], e.clust)
  PROVE  HomeSeen(card, s) /\ s.index = 2 /\ s = HomePlace(card, 2)
<1> DEFINE n == Volume[card].n_rootdir
           k == d.index
           homes == {p \in RootUsed(card) : IsValid(RootEntry(card, p)) /\ RootEntry(card, p).name = VECTOR06}
<1>1. k \in 0..(n - 1) /\ d = RootPlace(card, k) /\ n \in Nat /\ e = RootEntry(card, k)
  BY CardIs, EntryIs DEF RootSeen
<1>2. k \in homes
  <2>1. \A q \in 0..(k - 1) : RootEntry(card, q).name[1] # 0
    BY DEF RootSeen
  <2>2. RootEntry(card, k).name[1] # 0
    BY <1>1 DEF IsEnd
  <2>3. \A q \in 0..k : q = k \/ q \in 0..(k - 1)
    <3> HIDE DEF k, n
    <3> QED BY <1>1
  <2>4. k \in RootUsed(card)
    BY <1>1, <2>1, <2>2, <2>3, Zenon DEF RootUsed
  <2> QED BY <1>1, <2>4, Zenon DEF IsNamed
<1>3. Home[card] # <<>> /\ e.clust = Home[card][1]
  <2>1. CASE Home[card] = <<>>
    <3>1. "DIR" \notin RootEntry(card, k).attr
      BY <1>2, <2>1, CardIs, Zenon DEF HasHome
    <3> QED BY <1>1, <3>1, Zenon
  <2>2. CASE Home[card] # <<>>
    <3>1. PICK p \in homes : homes = {p} /\ RootEntry(card, p).clust = Home[card][1]
      BY <2>2, CardIs, Zenon DEF HasHome
    <3>2. k = p
      BY <1>2, <3>1, Zenon
    <3> QED BY <1>1, <2>2, <3>1, <3>2, Zenon
  <2> QED BY <2>1, <2>2
<1>4. s = HomePlace(card, 2) /\ 2 < HomeSize(card) /\ HomeSize(card) \in Nat
  BY <1>3, HomeStarts
<1>5. s.index = 2
  BY <1>4, EntryIs
<1>6. 2 \in 2..(HomeSize(card) - 1) /\ 2..(2 - 1) = {}
  BY <1>4
<1> QED BY <1>4, <1>5, <1>6, Zenon DEF HomeSeen

\* One entry on in VECTOR06, or behind it.
LEMMA HomeGoesOn ==
  ASSUME NEW card \in DOMAIN Volume, NEW d, HomeSeen(card, d), NEW ok,
         NEW link, link = IF ok /\ NeedsLink(Volume[card], d) THEN Link[card][d.clust] ELSE 1,
         NEW e, e = EntryAt(Disk[card], d), ~IsEnd(e),
         NEW n, n = next_dir_entry(Volume[card], d, link)
  PROVE  /\ n.sect # 0 => HomeSeen(card, n) /\ n.index = d.index + 1
         /\ (ok \/ ~NeedsLink(Volume[card], d)) /\ n.sect = 0 => d.index = HomeSize(card) - 1
         /\ d.index \in Nat
<1> DEFINE p == d.index
<1>1. p \in 2..(HomeSize(card) - 1) /\ d = HomePlace(card, p) /\ HomeSize(card) \in Nat
      /\ e = HomeEntry(card, p)
  BY HomeSizeNat, EntryIs DEF HomeSeen
<1>2. p \in 0..(HomeSize(card) - 1) /\ p \in Nat
  <2> HIDE DEF p
  <2> QED BY <1>1
<1>3. CASE NeedsLink(Volume[card], d) /\ ~ok
  <2>1. link = 1
    BY <1>3, Zenon
  <2>2. n.sect = 0
    BY <1>1, <1>3, <2>1, HomeBroken, Zenon
  <2> QED BY <1>2, <1>3, <2>2, Zenon
<1>4. CASE ok \/ ~NeedsLink(Volume[card], d)
  <2>1. NeedsLink(Volume[card], HomePlace(card, p)) => link = Link[card][HomePlace(card, p).clust]
    BY <1>1, <1>4, Zenon
  <2>2. IF p + 1 < HomeSize(card) THEN n = HomePlace(card, p + 1) ELSE n.sect = 0
    BY <1>1, <1>2, <2>1, HomeNext, Zenon
  <2>3. CASE p + 1 < HomeSize(card)
    <3>1. n = HomePlace(card, p + 1) /\ n.index = p + 1
      BY <2>2, <2>3, EntryIs, Zenon
    <3>2. p + 1 \in 2..(HomeSize(card) - 1) /\ p + 1 \in 0..(HomeSize(card) - 1)
          /\ \A q \in 2..((p + 1) - 1) : q = p \/ q \in 2..(p - 1)
      <4> HIDE DEF p
      <4> QED BY <1>1, <1>2, <2>3
    <3>3. n.sect # 0
      BY <3>1, <3>2, SectorIs, Zenon
    <3>4. HomeEntry(card, p).name[1] # 0
      BY <1>1 DEF IsEnd
    <3>5. \A q \in 2..(p - 1) : HomeEntry(card, q).name[1] # 0
      BY DEF HomeSeen
    <3>6. HomeSeen(card, n)
      BY <3>1, <3>2, <3>4, <3>5, Zenon DEF HomeSeen
    <3> QED BY <1>2, <3>1, <3>3, <3>6, Zenon
  <2>4. CASE ~(p + 1 < HomeSize(card))
    <3>1. n.sect = 0
      BY <2>2, <2>4, Zenon
    <3>2. p = HomeSize(card) - 1
      <4> HIDE DEF p
      <4> QED BY <1>1, <1>2, <2>4
    <3> QED BY <1>2, <3>1, <3>2, Zenon
  <2> QED BY <2>3, <2>4
<1> QED BY <1>3, <1>4

\* What is left of a path.
LEMMA Paths ==
  ASSUME NEW a, NEW b
  PROVE  /\ Len(<<a, b>>) = 2 /\ Head(<<a, b>>) = a /\ Tail(<<a, b>>) = <<b>>
         /\ Len(<<a>>) = 1 /\ Head(<<a>>) = a
  OBVIOUS

\* A path is traced through the root directory, then through VECTOR06.
AtRoot ==
  RootSeen(fs, dir) /\ path = IF task = "open" THEN <<VECTOR06, make_dirfile(ptrfile)>> ELSE <<VECTOR06>>
AtHome ==
  /\ task = "open" /\ path = <<make_dirfile(ptrfile)>>
  /\ HomeSeen(fs, dir) /\ Unnamed(fs, dir, make_dirfile(ptrfile))
Traced ==
  pc = "trace" => (task = "open" => make_dirfile(ptrfile) # <<>>) /\ (AtRoot \/ AtHome)

LEMMA PathLeft ==
  ASSUME Traced, pc = "trace"
  PROVE  /\ Len(path) \in Nat \ {0}
         /\ AtRoot => Head(path) = VECTOR06
         /\ AtHome => Head(path) = make_dirfile(ptrfile) /\ Len(path) = 1
         /\ AtRoot /\ task = "open" => Len(path) = 2 /\ Tail(path) = <<make_dirfile(ptrfile)>>
         /\ AtRoot /\ task # "open" => Len(path) = 1
<1>1. AtRoot /\ task = "open" =>
        /\ Len(path) = 2 /\ Head(path) = VECTOR06 /\ Tail(path) = <<make_dirfile(ptrfile)>>
  BY Paths, Zenon DEF AtRoot
<1>2. AtRoot /\ task # "open" => Len(path) = 1 /\ Head(path) = VECTOR06
  BY Paths, Zenon DEF AtRoot
<1>3. AtHome => Len(path) = 1 /\ Head(path) = make_dirfile(ptrfile)
  BY Paths, Zenon DEF AtHome
<1>4. 1 \in Nat \ {0} /\ 2 \in Nat \ {0}
  OBVIOUS
<1>5. AtRoot \/ AtHome
  BY DEF Traced
<1> QED BY <1>1, <1>2, <1>3, <1>4, <1>5, Zenon

LEMMA TracePasses ==
  ASSUME Placed, Traced, Passes PROVE Traced'
<1>1. /\ pc = "trace" /\ fs \in DOMAIN Volume /\ UNCHANGED <<fs, path, task, pc, ptrfile>>
      /\ ~IsEnd(Entry) /\ ~Here /\ dir'.sect # 0
  BY DEF Passes, Placed, fileVars
<1>2. PICK ok \in BOOLEAN : dir' = NextOf(dir, ok)
  BY DEF Passes
<1>3. dir' = next_dir_entry(Volume[fs], dir, LinkOf(dir, ok)) /\ Entry = EntryAt(Disk[fs], dir)
  BY <1>2 DEF NextOf, vol, Entry, disk
<1>4. CASE AtRoot
  <2>1. ~IsNamed(Entry, VECTOR06)
    BY <1>1, <1>4, PathLeft, Zenon DEF Here, IsNamed
  <2>2. RootSeen(fs, dir')
    BY <1>1, <1>3, <1>4, <2>1, RootGoesOn, Zenon DEF AtRoot
  <2>3. AtRoot'
    BY <1>1, <1>4, <2>2 DEF AtRoot
  <2> QED BY <1>1, <2>3 DEF Traced
<1>5. CASE AtHome
  <2>1. ~IsNamed(Entry, make_dirfile(ptrfile))
    BY <1>1, <1>5, PathLeft, Zenon DEF Here, IsNamed
  <2>2. LinkOf(dir, ok) = IF ok /\ NeedsLink(Volume[fs], dir) THEN Link[fs][dir.clust] ELSE 1
    BY DEF LinkOf, vol
  <2>3. HomeSeen(fs, dir)
    BY <1>5 DEF AtHome
  <2>4. HomeSeen(fs, dir') /\ dir'.index = dir.index + 1 /\ dir.index \in Nat
    <3>1. /\ dir'.sect # 0 => HomeSeen(fs, dir') /\ dir'.index = dir.index + 1
          /\ (ok \/ ~NeedsLink(Volume[fs], dir)) /\ dir'.sect = 0 => dir.index = HomeSize(fs) - 1
          /\ dir.index \in Nat
      <4>1. fs \in DOMAIN Volume /\ ~IsEnd(Entry)
        BY <1>1
      <4>2. dir' = next_dir_entry(Volume[fs], dir, LinkOf(dir, ok)) /\ Entry = EntryAt(Disk[fs], dir)
        BY <1>3
      <4> QED BY <4>1, <4>2, <2>2, <2>3, HomeGoesOn
    <3>2. dir'.sect # 0
      BY <1>1
    <3> QED BY <3>1, <3>2
  <2>5. Entry = HomeEntry(fs, dir.index)
    BY <1>1, <1>3, <2>3, EntryIs, Zenon DEF HomeSeen
  <2>6. \A q \in 2..(dir'.index - 1) : q = dir.index \/ q \in 2..(dir.index - 1)
    <3>1. \A m \in Nat : \A q \in 2..((m + 1) - 1) : q = m \/ q \in 2..(m - 1)
      OBVIOUS
    <3> QED BY <2>4, <3>1, Zenon
  <2>7. Unnamed(fs, dir', make_dirfile(ptrfile))
    BY <1>5, <2>1, <2>5, <2>6, Zenon DEF Unnamed, AtHome
  <2>8. AtHome'
    BY <1>1, <1>5, <2>4, <2>7 DEF AtHome
  <2> QED BY <1>1, <2>8 DEF Traced
<1> QED BY <1>1, <1>4, <1>5 DEF Traced

LEMMA TraceEnters ==
  ASSUME Placed, Traced, Enters PROVE Traced'
<1>1. /\ pc = "trace" /\ fs \in DOMAIN Volume /\ UNCHANGED <<fs, task, pc, ptrfile>>
      /\ ~IsEnd(Entry) /\ Here /\ Len(path) > 1 /\ "DIR" \in Entry.attr
      /\ path' = Tail(path) /\ dir' = SubDir(Volume[fs], Entry.clust)
  BY DEF Enters, Placed, fileVars, vol
<1>2. AtRoot /\ task = "open" /\ make_dirfile(ptrfile) # <<>>
  <2>1. Len(path) # 1
    <3>1. \A l \in Nat \ {0} : l > 1 => l # 1
      OBVIOUS
    <3> QED BY <1>1, <3>1, PathLeft, Zenon
  <2> QED BY <1>1, <2>1, PathLeft, Zenon DEF Traced, AtHome
<1>3. path' = <<make_dirfile(ptrfile)>> /\ IsNamed(Entry, VECTOR06)
  BY <1>1, <1>2, PathLeft, Zenon DEF Here, IsNamed
<1>4. HomeSeen(fs, dir') /\ dir'.index = 2
  <2>1. RootSeen(fs, dir) /\ Entry = EntryAt(Disk[fs], dir)
    BY <1>2 DEF AtRoot, Entry, disk
  <2> QED BY <1>1, <1>3, <2>1, RootLeads, Zenon
<1>5. Unnamed(fs, dir', make_dirfile(ptrfile))
  <2>1. 2..(2 - 1) = {}
    OBVIOUS
  <2> QED BY <1>4, <2>1, Zenon DEF Unnamed
<1>6. AtHome'
  BY <1>1, <1>2, <1>3, <1>4, <1>5 DEF AtHome
<1> QED BY <1>1, <1>2, <1>6 DEF Traced

LEMMA TraceBegins ==
  ASSUME fs' \in DOMAIN Volume, dir' = RootDir(Volume[fs']),
         \/ task' \in {"dir", "list"} /\ path' = <<VECTOR06>>
         \/ task' = "open" /\ path' = <<VECTOR06, make_dirfile(ptrfile')>> /\ make_dirfile(ptrfile') # <<>>
  PROVE  Traced'
<1>1. RootSeen(fs', dir')
  BY RootBegins
<1>2. AtRoot'
  BY <1>1 DEF AtRoot
<1> QED BY <1>2 DEF Traced

LEMMA TracedKept ==
  ASSUME Placed, Traced, Kinds PROVE Traced'
<1>0. back \in {"serve", "mount"}
  BY DEF Placed, TaskInPlace
<1>1. CASE Mounts
  <2>1. CASE pc' = "away"
    BY <2>1 DEF Traced
  <2>2. CASE fs' \in DOMAIN Volume /\ task' = "dir" /\ path' = <<VECTOR06>> /\ dir' = RootDir(Volume[fs'])
    BY <2>2, TraceBegins
  <2> QED BY <1>1, <2>1, <2>2 DEF Mounts
<1>2. CASE Seeks
  <2>1. fs \in DOMAIN Volume /\ fs' = fs /\ ptrfile' = ptrfile /\ dir' = RootDir(Volume[fs])
        /\ task' = "open" /\ path' = <<VECTOR06, make_dirfile(ptrfile)>> /\ make_dirfile(ptrfile) # <<>>
    BY <1>2 DEF Seeks, Placed, fileVars, vol
  <2> QED BY <2>1, TraceBegins
<1>3. CASE Passes
  BY <1>3, TracePasses
<1>4. CASE Enters
  BY <1>4, TraceEnters
<1>5. CASE Moves
  <2>1. CASE pc' = "mark"
    BY <2>1 DEF Traced
  <2>2. CASE pc' # "mark"
    <3>1. fs \in DOMAIN Volume /\ fs' = fs /\ dir' = RootDir(Volume[fs])
          /\ task' = "list" /\ path' = <<VECTOR06>>
      BY <1>5, <2>2 DEF Moves, Placed, ListStates, vol
    <3> QED BY <3>1, TraceBegins
  <2> QED BY <2>1, <2>2
<1>6. CASE GivesUp \/ NoHome \/ Finds
  <2>1. pc' # "trace"
    BY <1>6 DEF GivesUp, NoHome, Finds
  <2> QED BY <2>1 DEF Traced
<1>7. CASE Reads \/ ReadsNone
  <2>1. pc = "read"
    BY <1>7, Zenon DEF Reads, ReadsNone
  <2>2. Counted
    BY <1>7, <2>1, CountedKind DEF Placed, TaskInPlace
  <2>3. pc' # "trace"
    BY <2>1, <2>2 DEF Counted
  <2> QED BY <2>3 DEF Traced
<1>8. CASE Resets \/ Chooses \/ Marks \/ Menus \/ Opens
  <2>1. pc' # "trace"
    BY <1>0, <1>8 DEF Resets, Chooses, Marks, Menus, Opens
  <2> QED BY <2>1 DEF Traced
<1>9. CASE Idles
  <2>1. CASE pc' = "trace"
    <3>1. UNCHANGED <<pc, fs, path, dir, task, ptrfile>>
      BY <1>0, <1>9, <2>1 DEF Idles, walkVars, fileVars
    <3> QED BY <3>1 DEF Traced, AtRoot, AtHome
  <2>2. CASE pc' # "trace"
    BY <2>2 DEF Traced
  <2> QED BY <2>1, <2>2
<1> QED BY <1>1, <1>2, <1>3, <1>4, <1>5, <1>6, <1>7, <1>8, <1>9, Zenon DEF Kinds, Walks

\* VECTOR06 is read to its last entry, if the card answers.
PastEnd ==
  /\ dir.sect = 0 /\ Home[fs] # <<>>
  /\ intact => \A q \in 2..(HomeSize(fs) - 1) : HomeEntry(fs, q).name[1] # 0
ReadOn == pc = "read" => HomeSeen(fs, dir) \/ PastEnd

LEMMA HasEntries ==
  ASSUME NEW card \in DOMAIN Volume, NEW d, HomeSeen(card, d) PROVE Home[card] # <<>>
<1>1. d.index \in 2..(HomeSize(card) - 1) /\ HomeSize(card) \in Nat
  BY HomeSizeNat DEF HomeSeen
<1>2. HomeSize(card) # 0
  BY <1>1
<1> QED BY <1>2, HomeSizeNat

LEMMA ReadFinds ==
  ASSUME Placed, Traced, Finds, pc' = "read" PROVE HomeSeen(fs', dir') /\ dir'.index = 2
<1>1. /\ pc = "trace" /\ fs \in DOMAIN Volume /\ fs' = fs /\ task \in {"dir", "list"}
      /\ ~IsEnd(Entry) /\ Here /\ "DIR" \in Entry.attr
      /\ dir' = SubDir(Volume[fs], Entry.clust)
  BY DEF Finds, Placed, vol
<1>2. AtRoot
  BY <1>1 DEF Traced, AtHome
<1>3. IsNamed(Entry, VECTOR06)
  BY <1>1, <1>2, PathLeft, Zenon DEF Here, IsNamed
<1>4. RootSeen(fs, dir) /\ Entry = EntryAt(Disk[fs], dir)
  BY <1>2 DEF AtRoot, Entry, disk
<1> QED BY <1>1, <1>3, <1>4, RootLeads, Zenon

LEMMA ReadOnReads ==
  ASSUME Placed, ReadOn, Reads PROVE ReadOn'
<1>1. /\ pc = "read" /\ fs \in DOMAIN Volume /\ fs' = fs /\ dir.sect # 0 /\ ~IsEnd(Entry)
  <2>1. pc = "read" /\ fs' = fs /\ dir.sect # 0 /\ ~IsEnd(Entry)
    BY Zenon DEF Reads
  <2> QED BY <2>1 DEF Placed
<1>2. PICK ok \in BOOLEAN : dir' = NextOf(dir, ok) /\ (intact' => intact /\ (ok \/ ~NeedsLink(vol, dir)))
  BY Zenon DEF Reads
<1>3. dir' = next_dir_entry(Volume[fs], dir, LinkOf(dir, ok)) /\ Entry = EntryAt(Disk[fs], dir)
      /\ (intact' => ok \/ ~NeedsLink(Volume[fs], dir))
      /\ LinkOf(dir, ok) = IF ok /\ NeedsLink(Volume[fs], dir) THEN Link[fs][dir.clust] ELSE 1
  BY <1>2 DEF NextOf, LinkOf, vol, Entry, disk
<1>4. HomeSeen(fs, dir)
  BY <1>1 DEF ReadOn, PastEnd
<1>5. /\ dir'.sect # 0 => HomeSeen(fs, dir')
      /\ (ok \/ ~NeedsLink(Volume[fs], dir)) /\ dir'.sect = 0 => dir.index = HomeSize(fs) - 1
  BY <1>1, <1>3, <1>4, HomeGoesOn, Zenon
<1>6. CASE dir'.sect # 0
  BY <1>1, <1>5, <1>6 DEF ReadOn
<1>7. CASE dir'.sect = 0
  <2>1. ASSUME intact' PROVE \A q \in 2..(HomeSize(fs) - 1) : HomeEntry(fs, q).name[1] # 0
    <3>1. dir.index = HomeSize(fs) - 1
      BY <1>3, <1>5, <1>7, <2>1, Zenon
    <3>2. HomeEntry(fs, dir.index).name[1] # 0
      BY <1>1, <1>3, <1>4, EntryIs DEF HomeSeen, IsEnd
    <3>3. \A q \in 2..(dir.index - 1) : HomeEntry(fs, q).name[1] # 0
      BY <1>4 DEF HomeSeen
    <3>4. \A q \in 2..dir.index : q = dir.index \/ q \in 2..(dir.index - 1)
      <4>1. \A m \in Int : \A q \in 2..m : q = m \/ q \in 2..(m - 1)
        OBVIOUS
      <4>2. dir.index \in Int
        BY <1>4, HomeSizeNat DEF HomeSeen
      <4> QED BY <4>1, <4>2, Zenon
    <3> QED BY <3>1, <3>2, <3>3, <3>4, Zenon
  <2>2. Home[fs] # <<>>
    BY <1>1, <1>4, HasEntries, Zenon
  <2>3. PastEnd'
    BY <1>1, <1>7, <2>1, <2>2 DEF PastEnd
  <2> QED BY <2>3 DEF ReadOn
<1> QED BY <1>6, <1>7

LEMMA ReadOnKept ==
  ASSUME Placed, Traced, ReadOn, Kinds PROVE ReadOn'
<1>0. back \in {"serve", "mount"}
  BY DEF Placed, TaskInPlace
<1>1. CASE Mounts \/ Seeks \/ GivesUp \/ NoHome \/ Passes \/ Enters
  <2>1. pc' # "read"
    BY <1>1 DEF Mounts, Seeks, GivesUp, NoHome, Passes, Enters
  <2> QED BY <2>1 DEF ReadOn
<1>2. CASE Finds
  BY <1>2, ReadFinds DEF ReadOn
<1>3. CASE Reads
  BY <1>3, ReadOnReads
<1>4. CASE ReadsNone
  <2>1. pc = "read" /\ UNCHANGED <<fs, dir>> /\ (intact' => intact)
    BY <1>4, Zenon DEF ReadsNone
  <2> QED BY <2>1 DEF ReadOn, PastEnd
<1>5. CASE Resets \/ Chooses \/ Marks \/ Menus \/ Opens \/ Moves
  <2>1. pc' # "read"
    BY <1>0, <1>5 DEF Resets, Chooses, Marks, Menus, Opens, Moves
  <2> QED BY <2>1 DEF ReadOn
<1>6. CASE Idles
  <2>1. CASE pc' = "read"
    <3>1. UNCHANGED <<pc, fs, dir, intact>>
      BY <1>0, <1>6, <2>1 DEF Idles, walkVars, listVars
    <3> QED BY <3>1 DEF ReadOn, PastEnd
  <2>2. CASE pc' # "read"
    BY <2>2 DEF ReadOn
  <2> QED BY <2>1, <2>2
<1> QED BY <1>1, <1>2, <1>3, <1>4, <1>5, <1>6, Zenon DEF Kinds, Walks

-----------------------------------------------------------------------------
(* What the slots hold, and the name that is opened.                        *)

SlotsHold ==
  /\ slots = [s \in Slots |-> slots[s]]
  /\ \A s \in Slots : \/ slots[s] = Blank
                      \/ s \in DOMAIN Title /\ slots[s] = Title[s]
                      \/ \E it \in Items : slots[s] = strxcpy(get_fileinfo(it.name))
NameHeld ==
  \/ ptrfile = <<>>
  \/ \E it \in Items : ptrfile = get_fileinfo(it.name)
  \/ \E s \in DOMAIN Title : ptrfile = UpToSpace(Title[s])

LEMMA ItemIs ==
  ASSUME NEW it \in Items
  PROVE  /\ it.card \in DOMAIN Volume /\ ShortName(it.name)
         /\ \E p \in Images(it.card) : it = ItemOf(it.card, p)
<1>1. Items = UNION {{ItemOf(c, p) : p \in Images(c)} : c \in DOMAIN Volume}
  BY DEF Items, ItemOf
<1>2. PICK c \in DOMAIN Volume : \E p \in Images(c) : it = ItemOf(c, p)
  BY <1>1, Zenon
<1>3. PICK p \in Images(c) : it = ItemOf(c, p)
  BY <1>2
<1>4. it.card = c /\ it.name = HomeEntry(c, p).name
  BY <1>3 DEF ItemOf
<1>5. ShortName(HomeEntry(c, p).name)
  BY CardIs, Zenon DEF NamesDiffer
<1> QED BY <1>2, <1>3, <1>4, <1>5, Zenon

\* An image that is read is an item.
LEMMA ImageRead ==
  ASSUME Placed, ReadOn, Reads, IsImage(Entry)
  PROVE  /\ fs \in DOMAIN Volume /\ HomeSeen(fs, dir) /\ dir.index \in Images(fs)
         /\ ItemOf(fs, dir.index) \in Items /\ ItemOf(fs, dir.index).name = Entry.name
<1>1. pc = "read" /\ dir.sect # 0 /\ ~IsEnd(Entry)
  BY Zenon DEF Reads
<1>2. fs \in DOMAIN Volume /\ HomeSeen(fs, dir)
  BY <1>1 DEF Placed, ReadOn, PastEnd
<1>3. Entry = HomeEntry(fs, dir.index)
  BY <1>2, EntryIs DEF HomeSeen, Entry, disk
<1>4. dir.index \in 2..(HomeSize(fs) - 1) /\ \A q \in 2..(dir.index - 1) : HomeEntry(fs, q).name[1] # 0
  BY <1>2 DEF HomeSeen
<1>5. HomeEntry(fs, dir.index).name[1] # 0
  BY <1>1, <1>3 DEF IsEnd
<1>6. \A q \in 2..dir.index : q = dir.index \/ q \in 2..(dir.index - 1)
  <2>1. \A m \in Int : \A q \in 2..m : q = m \/ q \in 2..(m - 1)
    OBVIOUS
  <2>2. dir.index \in Int
    BY <1>2, <1>4, HomeSizeNat
  <2> QED BY <2>1, <2>2, Zenon
<1>7. dir.index \in HomeUsed(fs)
  BY <1>4, <1>5, <1>6, Zenon DEF HomeUsed
<1>8. dir.index \in Images(fs)
  BY <1>3, <1>7, Zenon DEF Images
<1>9. ItemOf(fs, dir.index).name = Entry.name
  BY <1>3 DEF ItemOf
<1> QED BY <1>2, <1>8, <1>9, ListedIs, Zenon

\* How the slots and the name come to change.
LEMMA Changes ==
  ASSUME Placed, Kinds
  PROVE  /\ \/ UNCHANGED slots \/ slots' = Cleared
            \/ \E k : slots' = [slots EXCEPT ![k] = Blank]
            \/ Reads /\ IsImage(Entry)
               /\ \E k : slots' = [slots EXCEPT ![k] = strxcpy(get_fileinfo(Entry.name))]
         /\ \/ UNCHANGED ptrfile \/ Chooses
            \/ Reads /\ IsImage(Entry) /\ ptrfile' = get_fileinfo(Entry.name)
<1>1. CASE Mounts \/ Seeks \/ GivesUp
  BY <1>1 DEF Mounts, Seeks, GivesUp, listVars, fileVars
<1>2. CASE NoHome \/ Finds
  BY <1>2 DEF NoHome, Finds, fileVars
<1>3. CASE Passes \/ Enters
  BY <1>3 DEF Passes, Enters, listVars, fileVars
<1>4. CASE Reads /\ IsImage(Entry)
  <2>1. Found(Entry) /\ pc = "read"
    BY <1>4, Zenon DEF Reads
  <2>2. CASE task = "first"
    BY <1>4, <2>1, <2>2 DEF Found, screen
  <2>3. CASE task = "skip"
    BY <1>4, <2>1, <2>3 DEF Found, screen, fileVars
  <2>4. CASE task = "show"
    BY <1>4, <2>1, <2>4 DEF Found, fileVars
  <2> QED BY <2>1, <2>2, <2>3, <2>4 DEF Placed, TaskInPlace
<1>5. CASE Reads /\ ~IsImage(Entry)
  <2>1. UNCHANGED readVars
    BY <1>5, Zenon DEF Reads
  <2> QED BY <2>1 DEF readVars, screen, fileVars
<1>6. CASE ReadsNone
  <2>1. NoFile /\ pc = "read"
    BY <1>6, Zenon DEF ReadsNone
  <2>2. CASE task = "first"
    BY <2>1, <2>2 DEF NoFile, screen
  <2>3. CASE task = "skip"
    BY <2>1, <2>3 DEF NoFile, screen, fileVars
  <2>4. CASE task = "show"
    BY <2>1, <2>4 DEF NoFile, fileVars
  <2> QED BY <2>1, <2>2, <2>3, <2>4 DEF Placed, TaskInPlace
<1>7. CASE Resets \/ Chooses
  BY <1>7 DEF Resets, Chooses, ToMenu, fileVars
<1>8. CASE Marks \/ Menus \/ Idles
  BY <1>8 DEF Marks, Menus, Idles, listVars, fileVars
<1>9. CASE Opens \/ Moves
  BY <1>9 DEF Opens, Moves, fileVars
<1> QED BY <1>1, <1>2, <1>3, <1>4, <1>5, <1>6, <1>7, <1>8, <1>9, Zenon DEF Kinds, Walks

LEMMA SlotsKept ==
  ASSUME Placed, ReadOn, SlotsHold, Kinds PROVE SlotsHold'
<1> DEFINE Holds(f) ==
      /\ f = [s \in Slots |-> f[s]]
      /\ \A s \in Slots : \/ f[s] = Blank
                          \/ s \in DOMAIN Title /\ f[s] = Title[s]
                          \/ \E it \in Items : f[s] = strxcpy(get_fileinfo(it.name))
<1>1. ASSUME NEW f, NEW k, NEW v, f = [slots EXCEPT ![k] = v],
             v = Blank \/ \E it \in Items : v = strxcpy(get_fileinfo(it.name))
      PROVE  Holds(f)
  <2>1. DOMAIN slots = Slots
    BY DEF SlotsHold
  <2>2. f = [s \in Slots |-> f[s]] /\ \A s \in Slots : f[s] = v \/ f[s] = slots[s]
    BY <1>1, <2>1
  <2> QED BY <1>1, <2>2, Zenon DEF SlotsHold
<1>2. Holds(Cleared)
  <2>1. Cleared = [s \in Slots |-> Cleared[s]] /\ \A s \in Slots : Cleared[s] = Blank \/ (s \in DOMAIN Title /\ Cleared[s] = Title[s])
    BY DEF Cleared
  <2> QED BY <2>1, Zenon
<1>3. Holds(slots)
  BY DEF SlotsHold
<1>4. Holds(slots')
  <2> HIDE DEF Holds
  <2>1. CASE Reads /\ IsImage(Entry) /\ \E k : slots' = [slots EXCEPT ![k] = strxcpy(get_fileinfo(Entry.name))]
    <3>1. \E it \in Items : strxcpy(get_fileinfo(Entry.name)) = strxcpy(get_fileinfo(it.name))
      BY <2>1, ImageRead, Zenon
    <3>2. PICK k : slots' = [slots EXCEPT ![k] = strxcpy(get_fileinfo(Entry.name))]
      BY <2>1, Zenon
    <3> QED BY <1>1, <3>1, <3>2, Zenon
  <2>2. CASE \E k : slots' = [slots EXCEPT ![k] = Blank]
    BY <1>1, <2>2, Zenon
  <2>3. CASE UNCHANGED slots
    BY <1>3, <2>3
  <2>4. CASE slots' = Cleared
    BY <1>2, <2>4
  <2> QED BY <2>1, <2>2, <2>3, <2>4, Changes, Zenon
<1> QED BY <1>4 DEF SlotsHold

LEMMA NameKept ==
  ASSUME Placed, Typed, ReadOn, SlotsHold, NameHeld, Kinds PROVE NameHeld'
<1>1. CASE UNCHANGED ptrfile
  BY <1>1 DEF NameHeld
<1>2. CASE Chooses
  <2> DEFINE s == menu_selected % 16
  <2>1. ptrfile' = UpToSpace(slots[s])
    BY <1>2, Zenon DEF Chooses, fsel_getselected, fsel_index2offs
  <2>2. s \in Slots
    BY DEF Typed, Slots
  <2> HIDE DEF s
  <2>3. CASE slots[s] = Blank
    BY <2>1, <2>3, BlankIs, Zenon DEF NameHeld
  <2>4. CASE s \in DOMAIN Title /\ slots[s] = Title[s]
    BY <2>1, <2>4, Zenon DEF NameHeld
  <2>5. ASSUME NEW it \in Items, slots[s] = strxcpy(get_fileinfo(it.name)) PROVE NameHeld'
    <3>1. ptrfile' = get_fileinfo(it.name)
      BY <2>1, <2>5, ItemIs, TextIs, Zenon
    <3> QED BY <3>1, Zenon DEF NameHeld
  <2> QED BY <2>2, <2>3, <2>4, <2>5, Zenon DEF SlotsHold
<1>3. CASE Reads /\ IsImage(Entry) /\ ptrfile' = get_fileinfo(Entry.name)
  <2>1. \E it \in Items : ptrfile' = get_fileinfo(it.name)
    BY <1>3, ImageRead, Zenon
  <2> QED BY <2>1, Zenon DEF NameHeld
<1> QED BY <1>1, <1>2, <1>3, Changes, Zenon

LEMMA SlotWidths ==
  ASSUME SlotsHold PROVE \A s \in Slots : Len(slots[s]) = 12
<1>1. \A s \in DOMAIN Title : Len(Title[s]) = 12
  BY MenuAssumption
<1>2. \A it \in Items : Len(strxcpy(get_fileinfo(it.name))) = 12
  BY ItemIs, TextIs
<1> QED BY <1>1, <1>2, BlankIs, Zenon DEF SlotsHold

-----------------------------------------------------------------------------
(* The list is a page of the directory, and what holds while it is drawn.   *)

\* The entries passed, and the images among them.
Seen == IF dir.sect = 0 THEN HomeSize(fs) ELSE dir.index
Passed == ImagesBefore(fs, Seen)

\* What belongs in the slot of item n; and the first n slots have it.
TextOf(card, n) ==
  IF Listed(card, n) THEN strxcpy(get_fileinfo(ItemAt(card, n).name)) ELSE Blank
SlotsShown(n) == \A s \in 0..(n - 1) : slots[s] = TextOf(fs, fsel_pagestart + s)

\* An entry read.
LEMMA PassedOn ==
  ASSUME Placed, ReadOn, Reads, intact'
  PROVE  /\ fs \in DOMAIN Volume /\ fs' = fs /\ intact /\ Passed \in Nat /\ pc = "read"
         /\ Passed' = IF IsImage(Entry) THEN Passed + 1 ELSE Passed
         /\ Passed' \in Nat /\ Passed' <= Count(fs)
         /\ IsImage(Entry) => Passed < Count(fs) /\ TextOf(fs, Passed) = strxcpy(get_fileinfo(Entry.name))
<1>1. /\ pc = "read" /\ fs \in DOMAIN Volume /\ fs' = fs /\ dir.sect # 0 /\ ~IsEnd(Entry)
  <2>1. pc = "read" /\ fs' = fs /\ dir.sect # 0 /\ ~IsEnd(Entry)
    BY Zenon DEF Reads
  <2> QED BY <2>1 DEF Placed
<1>2. PICK ok \in BOOLEAN : dir' = NextOf(dir, ok) /\ (intact' => intact /\ (ok \/ ~NeedsLink(vol, dir)))
  BY Zenon DEF Reads
<1>3. /\ dir' = next_dir_entry(Volume[fs], dir, LinkOf(dir, ok)) /\ Entry = EntryAt(Disk[fs], dir)
      /\ intact /\ (ok \/ ~NeedsLink(Volume[fs], dir))
      /\ LinkOf(dir, ok) = IF ok /\ NeedsLink(Volume[fs], dir) THEN Link[fs][dir.clust] ELSE 1
  BY <1>2 DEF NextOf, LinkOf, vol, Entry, disk
<1>4. HomeSeen(fs, dir)
  BY <1>1 DEF ReadOn, PastEnd
<1>5. /\ dir'.sect # 0 => HomeSeen(fs, dir') /\ dir'.index = dir.index + 1
      /\ dir'.sect = 0 => dir.index = HomeSize(fs) - 1
      /\ dir.index \in Nat
  BY <1>1, <1>3, <1>4, HomeGoesOn
<1>6. Seen = dir.index /\ Seen' = dir.index + 1 /\ Seen \in Nat
  <2>1. HomeSize(fs) \in Nat
    BY <1>1, HomeSizeNat
  <2>2. CASE dir'.sect = 0
    <3>1. Seen' = HomeSize(fs)
      BY <1>1, <2>2 DEF Seen
    <3> QED BY <1>1, <1>5, <2>1, <2>2, <3>1 DEF Seen
  <2>3. CASE dir'.sect # 0
    <3>1. Seen' = dir'.index
      BY <2>3 DEF Seen
    <3> QED BY <1>1, <1>5, <2>3, <3>1 DEF Seen
  <2> QED BY <2>2, <2>3
<1>7. Passed = ImagesBefore(fs, dir.index) /\ Passed' = ImagesBefore(fs, dir.index + 1)
  BY <1>1, <1>6 DEF Passed
<1>8. IsImage(Entry) <=> dir.index \in Images(fs)
  <2>1. CASE IsImage(Entry)
    BY <2>1, ImageRead
  <2>2. CASE ~IsImage(Entry)
    <3>1. dir = HomePlace(fs, dir.index)
      BY <1>4, Zenon DEF HomeSeen
    <3>2. EntryAt(Disk[fs], HomePlace(fs, dir.index)) = HomeEntry(fs, dir.index)
      BY <1>1, EntryIs, Zenon
    <3>3. Entry = HomeEntry(fs, dir.index)
      BY <1>3, <3>1, <3>2, Zenon
    <3> QED BY <2>2, <3>3, Zenon DEF Images
  <2> QED BY <2>1, <2>2
<1>9. Passed' = IF IsImage(Entry) THEN Passed + 1 ELSE Passed
  BY <1>1, <1>5, <1>7, <1>8, BeforeIs
<1>10. Passed \in Nat /\ Passed' \in Nat /\ Passed' <= Count(fs)
  <2>1. \A p : ImagesBefore(fs, p) \in Nat /\ ImagesBefore(fs, p) <= Count(fs)
    BY <1>1, BeforeFinite
  <2> QED BY <1>7, <2>1
<1>11. ASSUME IsImage(Entry)
       PROVE  Passed < Count(fs) /\ TextOf(fs, Passed) = strxcpy(get_fileinfo(Entry.name))
  <2>1. dir.index \in Images(fs) /\ ItemOf(fs, dir.index).name = Entry.name
    BY <1>11, ImageRead, Zenon
  <2>2. Passed < Count(fs)
    BY <1>1, <1>7, <2>1, Numbered
  <2>3. Listed(fs, Passed) /\ ItemAt(fs, Passed) = ItemOf(fs, dir.index)
    BY <1>1, <1>7, <2>1, ListedIs, Zenon
  <2> QED BY <2>1, <2>2, <2>3, Zenon DEF TextOf
<1> QED BY <1>1, <1>3, <1>9, <1>10, <1>11, Zenon

\* There is no further image.
LEMMA PassedAll ==
  ASSUME Placed, ReadOn, ReadsNone, intact'
  PROVE  /\ fs \in DOMAIN Volume /\ fs' = fs /\ intact /\ Passed = Count(fs) /\ Passed' = Passed
         /\ pc = "read" /\ Passed \in Nat
<1>1. /\ pc = "read" /\ fs \in DOMAIN Volume /\ UNCHANGED <<fs, dir>> /\ intact
      /\ (dir.sect = 0 \/ IsEnd(Entry))
  <2>1. pc = "read" /\ UNCHANGED <<fs, dir>> /\ intact /\ (dir.sect = 0 \/ IsEnd(Entry))
    BY Zenon DEF ReadsNone
  <2> QED BY <2>1 DEF Placed
<1>2. Passed' = Passed
  BY <1>1 DEF Passed, Seen
<1>3. Seen \in Nat /\ \A q \in Images(fs) : q < Seen
  <2>1. CASE dir.sect = 0
    <3>1. Seen = HomeSize(fs) /\ HomeSize(fs) \in Nat
      BY <1>1, <2>1, HomeSizeNat DEF Seen
    <3> QED BY <1>1, <3>1, ImagesFinite
  <2>2. CASE dir.sect # 0
    <3>1. HomeSeen(fs, dir) /\ Entry = HomeEntry(fs, dir.index) /\ Seen = dir.index
      BY <1>1, <2>2, EntryIs DEF ReadOn, PastEnd, HomeSeen, Entry, disk, Seen
    <3>2. Seen \in 2..(HomeSize(fs) - 1) /\ HomeSize(fs) \in Nat
      BY <1>1, <3>1, HomeSizeNat DEF HomeSeen
    <3>3. HomeEntry(fs, Seen).name[1] = 0
      BY <1>1, <2>2, <3>1 DEF IsEnd
    <3>4. \A q \in Images(fs) : q \in Nat /\ Seen \notin 2..q
      BY <1>1, <3>3, ImagesFinite, Zenon DEF Images, HomeUsed
    <3> QED BY <3>2, <3>4
  <2> QED BY <2>1, <2>2
<1>4. Passed = Count(fs)
  BY <1>1, <1>3, BeforeIs, Zenon DEF Passed
<1> QED BY <1>1, <1>2, <1>4, ImagesFinite

\* None is listed from there on.
LEMMA NoneFrom ==
  ASSUME NEW card \in DOMAIN Volume, NEW n \in Nat, n >= Count(card) PROVE TextOf(card, n) = Blank
<1>1. Count(card) \in Nat
  BY ImagesFinite
<1>2. ~Listed(card, n)
  BY <1>1, ListedIs
<1> QED BY <1>2 DEF TextOf

\* The slots drawn are right, and the next image to be found belongs in the next one.
NextKnown ==
  \/ Passed = fsel_pagestart + i /\ fsel_hasnextpage = 1
  \/ Passed = Count(fs) /\ Passed < fsel_pagestart + i /\ fsel_hasnextpage = 0
DrawnSoFar ==
  pc = "read" /\ intact =>
    /\ task = "skip" => i = Passed /\ i < fsel_pagestart /\ fsel_hasnextpage = 1
    /\ task = "show" => SlotsShown(i) /\ NextKnown

\* A page that is not the first has an image; pages begin FSEL_PAGESIZE - 1 images
\* apart, but in a directory that makes the byte that counts them wrap.
Started ==
  intact /\ state \in ListStates =>
    /\ fsel_pagestart = 0 \/ fsel_pagestart < Count(fs)
    /\ fsel_pagestart % (FSEL_PAGESIZE - 1) = 0 \/ Count(fs) >= UINT8

\* The list that is up is its page.
PageIs ==
  /\ fsel_pagestart = 0 \/ fsel_pagestart < Count(fs)
  /\ SlotsShown(FSEL_PAGESIZE)
  /\ fsel_hasnextpage = 1 <=> fsel_pagestart + FSEL_PAGESIZE <= Count(fs)
Paged ==
  intact /\ state \in ListStates /\ fsel_redraw = 0 /\ pc \notin {"trace", "read"} => PageIs

\* One slot more.
LEMMA OneShown ==
  ASSUME Typed, Typed', NEW v, i \in 0..(FSEL_PAGESIZE - 1), SlotsHold, SlotsShown(i),
         slots' = [slots EXCEPT ![fsel_index2offs(i)] = v], v = TextOf(fs, fsel_pagestart + i),
         i' = i + 1, UNCHANGED <<fs, fsel_pagestart>>
  PROVE  SlotsShown(i)'
<1>1. FSEL_PAGESIZE \in 4..12
  BY Sizes
<1>2. fsel_index2offs(i) = i /\ i \in Slots /\ i \in 0..11
  BY <1>1 DEF fsel_index2offs, Slots
<1>3. slots'[i] = v /\ \A s \in 0..(i - 1) : slots'[s] = slots[s]
  <2>1. DOMAIN slots = Slots
    BY DEF SlotsHold
  <2>2. \A s \in 0..(i - 1) : s \in Slots /\ s # i
    BY <1>2 DEF Slots
  <2> QED BY <1>2, <2>1, <2>2
<1>4. \A s \in 0..(i - 1) : slots[s] = TextOf(fs, fsel_pagestart + s)
  BY DEF SlotsShown
<1>5. \A s \in 0..((i + 1) - 1) : s = i \/ s \in 0..(i - 1)
  BY <1>2
<1>6. \A s \in 0..((i + 1) - 1) : slots'[s] = TextOf(fs, fsel_pagestart + s)
  BY <1>3, <1>4, <1>5, Zenon
<1>7. \A s \in 0..(i' - 1) : slots'[s] = TextOf(fs', fsel_pagestart' + s)
  BY <1>6
<1> QED BY <1>7 DEF SlotsShown

\* What Reads and ReadsNone do to a page that is being drawn.
Draws(v) ==
  /\ task = "show" /\ i' = i + 1 /\ pc' = (IF i' < FSEL_PAGESIZE THEN "read" ELSE "mark")
  /\ slots' = [slots EXCEPT ![fsel_index2offs(i)] = v] /\ UNCHANGED <<fs, task, fsel_pagestart>>

LEMMA DrawnOne ==
  ASSUME Typed, Typed', SlotsHold, pc = "read", intact, DrawnSoFar, NextKnown',
         NEW v, Draws(v), v = TextOf(fs, fsel_pagestart + i), Passed' \in Nat, Passed' <= Count(fs),
         Count(fs) \in Nat, Started
  PROVE  DrawnSoFar' /\ (state \in ListStates /\ pc' = "mark" => PageIs')
<1>1. /\ task' = "show" /\ UNCHANGED <<fs, fsel_pagestart>> /\ i' = i + 1 /\ SlotsShown(i)
  BY DEF Draws, DrawnSoFar
<1>2. i \in 0..(FSEL_PAGESIZE - 1)
  BY Sizes DEF Typed, Draws
<1>3. SlotsShown(i)'
  BY <1>1, <1>2, OneShown, Zenon DEF Draws
<1>4. DrawnSoFar'
  BY <1>1, <1>3 DEF DrawnSoFar
<1>5. ASSUME state \in ListStates, pc' = "mark" PROVE PageIs'
  <2>1. i' = FSEL_PAGESIZE /\ FSEL_PAGESIZE \in Nat
    BY <1>1, <1>2, <1>5, Sizes DEF Draws
  <2>2. SlotsShown(FSEL_PAGESIZE)'
    BY <1>3, <2>1 DEF SlotsShown
  <2>3. fsel_pagestart \in Nat /\ fsel_pagestart' = fsel_pagestart /\ fs' = fs
    BY <1>1, Sizes DEF Typed
  <2>4. fsel_hasnextpage' = 1 <=> fsel_pagestart + FSEL_PAGESIZE <= Count(fs)
    BY <2>1, <2>3 DEF NextKnown
  <2>5. fsel_pagestart = 0 \/ fsel_pagestart < Count(fs)
    BY <1>5 DEF Started
  <2> QED BY <2>2, <2>3, <2>4, <2>5 DEF PageIs
<1> QED BY <1>4, <1>5

LEMMA DrawnReads ==
  ASSUME Placed, Typed, Typed', ReadOn, SlotsHold, DrawnSoFar, Started, Reads, intact'
  PROVE  DrawnSoFar' /\ (task = "show" /\ pc' = "mark" => PageIs')
<1>1. /\ fs \in DOMAIN Volume /\ fs' = fs /\ intact /\ Passed \in Nat /\ pc = "read"
      /\ Passed' = IF IsImage(Entry) THEN Passed + 1 ELSE Passed
      /\ Passed' \in Nat /\ Passed' <= Count(fs)
  BY PassedOn
<1>2. task \in {"first", "skip", "show"} /\ (task # "first" => state = "FSEL")
  BY <1>1, SMT DEF Placed, TaskInPlace, DrawsList
<1>3. CASE ~IsImage(Entry)
  <2>1. UNCHANGED readVars
    BY <1>3 DEF Reads
  <2>2. UNCHANGED <<pc, task, slots, fsel_pagestart, fsel_hasnextpage, i, fs>> /\ Passed' = Passed
    BY <1>1, <1>3, <2>1, SMT DEF readVars, screen
  <2> QED BY <1>1, <2>2, SMT DEF DrawnSoFar, SlotsShown, NextKnown
<1>4. ASSUME IsImage(Entry)
      PROVE  /\ Found(Entry) /\ Passed' = Passed + 1 /\ Passed < Count(fs)
             /\ TextOf(fs, Passed) = strxcpy(get_fileinfo(Entry.name))
  BY <1>1, <1>4, PassedOn DEF Reads
<1>5. CASE IsImage(Entry) /\ task = "first"
  <2>1. task' = "first"
    BY <1>4, <1>5, SMT DEF Found
  <2> QED BY <1>5, <2>1, SMT DEF DrawnSoFar
<1>6. CASE IsImage(Entry) /\ task = "skip"
  <2>1. /\ IF i + 1 < fsel_pagestart THEN i' = i + 1 /\ task' = "skip" ELSE i' = 0 /\ task' = "show"
        /\ UNCHANGED <<pc, fsel_pagestart, fsel_hasnextpage>>
    BY <1>4, <1>6, SMT DEF Found
  <2>2. i = Passed /\ i < fsel_pagestart /\ fsel_hasnextpage = 1 /\ fsel_pagestart \in Nat
    BY <1>1, <1>6, Sizes, SMT DEF DrawnSoFar, Typed
  <2>3. CASE i + 1 < fsel_pagestart
    BY <1>1, <1>4, <1>6, <2>1, <2>2, <2>3, SMT DEF DrawnSoFar
  <2>4. CASE ~(i + 1 < fsel_pagestart)
    <3>1. task' = "show" /\ i' = 0 /\ Passed' = fsel_pagestart' + i' /\ fsel_hasnextpage' = 1
      BY <1>1, <1>4, <1>6, <2>1, <2>2, <2>4, SMT
    <3>2. SlotsShown(i)'
      BY <3>1, SMT DEF SlotsShown
    <3> QED BY <1>6, <3>1, <3>2, SMT DEF DrawnSoFar, NextKnown
  <2> QED BY <2>3, <2>4
<1>7. CASE IsImage(Entry) /\ task = "show"
  <2> DEFINE v == strxcpy(get_fileinfo(Entry.name))
  <2>1. Draws(v) /\ fsel_hasnextpage' = fsel_hasnextpage
    BY <1>1, <1>4, <1>7, SMT DEF Found, Draws
  <2>2. Passed = fsel_pagestart + i /\ fsel_hasnextpage = 1
    <3>1. NextKnown /\ Count(fs) \in Nat
      BY <1>1, <1>7, ImagesFinite, SMT DEF DrawnSoFar
    <3> QED BY <1>1, <1>4, <1>7, <3>1, SMT DEF NextKnown
  <2>3. NextKnown'
    <3>1. i \in Nat /\ fsel_pagestart \in Nat
      BY Sizes, SMT DEF Typed
    <3> QED BY <1>4, <1>7, <2>1, <2>2, <3>1, SMT DEF NextKnown, Draws
  <2>4. v = TextOf(fs, fsel_pagestart + i)
    BY <1>4, <1>7, <2>2
  <2>5. Count(fs) \in Nat /\ state \in ListStates
    BY <1>1, <1>2, <1>7, ImagesFinite, SMT DEF ListStates
  <2> HIDE DEF v
  <2> QED BY <1>1, <2>1, <2>3, <2>4, <2>5, DrawnOne
<1> QED BY <1>2, <1>3, <1>5, <1>6, <1>7, SMT

LEMMA DrawnEnds ==
  ASSUME Placed, Typed, Typed', ReadOn, SlotsHold, DrawnSoFar, Started, ReadsNone, intact'
  PROVE  DrawnSoFar' /\ (task = "show" /\ pc' = "mark" => PageIs')
<1>1. /\ fs \in DOMAIN Volume /\ fs' = fs /\ intact /\ Passed = Count(fs) /\ Passed' = Passed
      /\ pc = "read" /\ Passed \in Nat
  BY PassedAll, Zenon
<1>2. task \in {"first", "skip", "show"} /\ (task # "first" => state = "FSEL")
  BY <1>1 DEF Placed, TaskInPlace, DrawsList
<1>3. NoFile
  BY Zenon DEF ReadsNone
<1>4. CASE task = "first"
  BY <1>3, <1>4 DEF NoFile, DrawnSoFar
<1>5. CASE task = "skip"
  <2>1. fsel_pagestart = 0 \/ fsel_pagestart < Count(fs)
    BY <1>1, <1>2, <1>5 DEF Started, ListStates
  <2>2. Passed < fsel_pagestart /\ fsel_pagestart \in Nat
    BY <1>1, <1>5, Sizes DEF DrawnSoFar, Typed
  <2> QED BY <1>1, <2>1, <2>2
<1>6. CASE task = "show"
  <2>1. Draws(Blank) /\ fsel_hasnextpage' = 0
    BY <1>1, <1>3, <1>6 DEF NoFile, Draws
  <2>2. fsel_pagestart \in Nat /\ i \in Nat /\ NextKnown
    BY <1>1, <1>6, Sizes DEF Typed, DrawnSoFar
  <2>3. Passed <= fsel_pagestart + i
    BY <1>1, <2>2 DEF NextKnown
  <2>4. NextKnown'
    BY <1>1, <2>1, <2>2, <2>3 DEF NextKnown, Draws
  <2>5. Blank = TextOf(fs, fsel_pagestart + i)
    <3>1. fsel_pagestart + i \in Nat /\ fsel_pagestart + i >= Count(fs)
      BY <1>1, <2>2, <2>3
    <3> QED BY <1>1, <3>1, NoneFrom
  <2>6. Count(fs) \in Nat /\ state \in ListStates /\ Passed' \in Nat /\ Passed' <= Count(fs)
    BY <1>1, <1>2, <1>6 DEF ListStates
  <2> QED BY <1>1, <2>1, <2>4, <2>5, <2>6, DrawnOne, Zenon
<1> QED BY <1>2, <1>4, <1>5, <1>6

\* Pages back and forth, in a byte.
LEMMA Remainders ==
  ASSUME NEW S \in Nat \ {0}, NEW a \in Nat, a % S = 0
  PROVE  (a + S) % S = 0 /\ (a >= S => (a - S) % S = 0)
<1> DEFINE q == a \div S
<1>1. q \in Nat /\ a = q * S + 0
  BY DivMod
<1> HIDE DEF q
<1>2. ((q + 1) * S + 0) % S = 0
  BY <1>1, DivIs
<1>3. (q + 1) * S + 0 = a + S
  BY <1>1
<1>4. ASSUME a >= S PROVE (a - S) % S = 0
  <2>1. q \in Nat /\ q # 0
    BY <1>1, <1>4
  <2>2. ((q - 1) * S + 0) % S = 0
    BY <2>1, DivIs
  <2>3. (q - 1) * S + 0 = a - S
    BY <1>1
  <2> QED BY <2>2, <2>3
<1> QED BY <1>2, <1>3, <1>4

\* A page that the list has, or that its byte makes of it.
Begins(n, count) ==
  /\ n = 0 \/ n < count
  /\ n % (FSEL_PAGESIZE - 1) = 0 \/ count >= UINT8

LEMMA PageUp ==
  ASSUME NEW n \in 0..(UINT8 - 1), NEW count \in Nat, Begins(n, count), n # 0
  PROVE  Begins((n - (FSEL_PAGESIZE - 1)) % UINT8, count)
<1> DEFINE S == FSEL_PAGESIZE - 1
           m == (n - S) % UINT8
<1>1. S \in 3..11 /\ UINT8 \in Nat /\ UINT8 >= 16
  BY Sizes
<1>2. m \in 0..(UINT8 - 1) /\ (n >= S => m = n - S)
  <2> HIDE DEF S
  <2> QED BY <1>1
<1>3. CASE count >= UINT8
  BY <1>1, <1>2, <1>3 DEF Begins
<1>4. CASE ~(count >= UINT8)
  <2>1. n % S = 0 /\ n < count
    BY <1>4 DEF Begins
  <2> HIDE DEF S
  <2>2. n >= S
    <3>1. n = (n \div S) * S + (n % S) /\ n \div S \in Nat
      BY <1>1, DivMod
    <3>2. n \div S >= 1
      <4>1. n \div S # 0
        BY <1>1, <2>1, <3>1
      <4> QED BY <3>1, <4>1
    <3> QED BY <1>1, <2>1, <3>1, <3>2, MulGe
  <2>3. m = n - S /\ (n - S) % S = 0
    BY <1>1, <1>2, <2>1, <2>2, Remainders
  <2>4. m < count
    BY <1>1, <2>1, <2>2, <2>3
  <2> QED BY <2>3, <2>4 DEF Begins, S
<1> QED BY <1>3, <1>4

LEMMA PageDown ==
  ASSUME NEW n \in 0..(UINT8 - 1), NEW count \in Nat, n % (FSEL_PAGESIZE - 1) = 0 \/ count >= UINT8,
         n + FSEL_PAGESIZE <= count
  PROVE  Begins((n + FSEL_PAGESIZE - 1) % UINT8, count)
<1> DEFINE S == FSEL_PAGESIZE - 1
           m == (n + FSEL_PAGESIZE - 1) % UINT8
<1>1. S \in 3..11 /\ UINT8 \in Nat /\ UINT8 >= 16 /\ n + FSEL_PAGESIZE - 1 = n + S /\ FSEL_PAGESIZE \in Nat
  BY Sizes
<1>2. m \in 0..(UINT8 - 1) /\ m <= n + S /\ (n + S < UINT8 => m = n + S) /\ n + S < count
  <2>1. n + S < count
    BY <1>1
  <2> HIDE DEF S
  <2> QED BY <1>1, <2>1
<1>3. CASE count >= UINT8
  BY <1>1, <1>2, <1>3 DEF Begins
<1>4. CASE ~(count >= UINT8)
  <2>1. n % S = 0
    BY <1>4
  <2> HIDE DEF S
  <2>2. m = n + S /\ (n + S) % S = 0
    BY <1>1, <1>2, <1>4, <2>1, Remainders
  <2> QED BY <1>2, <2>2 DEF Begins, S
<1> QED BY <1>3, <1>4

\* Up and down again.
LEMMA PageBack ==
  ASSUME NEW n \in 0..(UINT8 - 1)
  PROVE  (((n - (FSEL_PAGESIZE - 1)) % UINT8) + FSEL_PAGESIZE - 1) % UINT8 = n
<1> DEFINE S == FSEL_PAGESIZE - 1
           m == (n - S) % UINT8
<1>1. S \in 3..11 /\ UINT8 \in Nat /\ UINT8 >= 16 /\ FSEL_PAGESIZE = S + 1
  BY Sizes
<1>2. m \in 0..(UINT8 - 1) /\ (n >= S => m = n - S) /\ (n < S => m = n - S + UINT8)
  <2> HIDE DEF S
  <2> QED BY <1>1
<1>3. (m + S) % UINT8 = n
  <2> HIDE DEF S, m
  <2>1. m + S = n \/ m + S = n + UINT8
    BY <1>1, <1>2
  <2>2. n % UINT8 = n /\ (n + UINT8) % UINT8 = n
    BY <1>1
  <2> QED BY <2>1, <2>2
<1>4. m + FSEL_PAGESIZE - 1 = m + S
  <2> HIDE DEF m
  <2> QED BY <1>1, <1>2
<1> QED BY <1>3, <1>4

LEMMA StartedMoves ==
  ASSUME Placed, Typed, Started, Paged, Moves, intact PROVE Started'
<1> DEFINE n == fsel_pagestart
           count == Count(fs)
<1>1. /\ state = "FSEL" /\ pc = "act" /\ UNCHANGED <<fs, state>> /\ fsel_pagestart' = Down(Up).start
      /\ fs \in DOMAIN Volume
  BY DEF Moves, Placed, ListStates
<1>2. Begins(n, count) /\ n \in 0..(UINT8 - 1) /\ menu_y \in 0..TopRow /\ TopRow \in Nat
      /\ fsel_redraw \in {0, 1} /\ fsel_hasnextpage \in {0, 1} /\ count \in Nat
      /\ FSEL_NLINES \in 2..6 /\ FSEL_PAGESIZE \in 4..12
  BY <1>1, Rows, Sizes, ImagesFinite DEF Started, Begins, ListStates, Typed
<1>3. CASE fsel_redraw = 1
  <2>1. menu_y = 0 /\ n = 0
    BY <1>1, <1>3 DEF Placed
  <2>2. Up = [y |-> 0, start |-> 0, page |-> FALSE]
    BY <2>1 DEF Up
  <2>3. Down(Up).start = 0
    BY <1>2, <2>2 DEF Down
  <2> QED BY <1>1, <1>2, <2>1, <2>3 DEF Started, Begins
<1>4. CASE fsel_redraw = 0
  <2>1. fsel_hasnextpage = 1 <=> n + FSEL_PAGESIZE <= count
    BY <1>1, <1>4 DEF Paged, PageIs, ListStates
  <2>2. CASE Up.start = n
    <3>1. Down(Up).start \in {n, (n + FSEL_PAGESIZE - 1) % UINT8}
          /\ (Down(Up).start # n => fsel_hasnextpage = 1)
      BY <2>2 DEF Down
    <3>2. fsel_hasnextpage = 1 => Begins((n + FSEL_PAGESIZE - 1) % UINT8, count)
      <4> HIDE DEF n, count
      <4> QED BY <1>2, <2>1, PageDown DEF Begins
    <3>3. Begins(Down(Up).start, count)
      BY <1>2, <3>1, <3>2
    <3> QED BY <1>1, <3>3 DEF Started, Begins
  <2>3. CASE Up.start # n
    <3>1. n # 0 /\ Up.start = (n - (FSEL_PAGESIZE - 1)) % UINT8
      BY <1>2, <2>3 DEF Up
    <3>2. Down(Up).start \in {Up.start, (Up.start + FSEL_PAGESIZE - 1) % UINT8}
      BY DEF Down
    <3>3. Begins(Up.start, count) /\ (Up.start + FSEL_PAGESIZE - 1) % UINT8 = n
      <4> HIDE DEF n, count
      <4> QED BY <1>2, <3>1, PageUp, PageBack
    <3>4. Begins(Down(Up).start, count)
      BY <1>2, <3>2, <3>3
    <3> QED BY <1>1, <3>4 DEF Started, Begins
  <2> QED BY <2>2, <2>3
<1> QED BY <1>2, <1>3, <1>4

\* In these steps no list is up, or none is touched.
LEMMA NoListUp ==
  ASSUME Placed, Loading PROVE state \notin ListStates
  BY DEF Placed, TaskInPlace

LEMMA StartedWalks ==
  ASSUME Placed, Typed, Started, Walks PROVE Started'
<1>1. CASE Mounts
  <2>1. state' \notin ListStates
    BY <1>1, NoListUp DEF Mounts, Loading, cursorVars
  <2> QED BY <2>1 DEF Started
<1>2. CASE Seeks \/ GivesUp \/ NoHome \/ Passes \/ Enters \/ Finds
  <2>1. UNCHANGED <<fs, fsel_pagestart, state>> /\ (intact' => intact)
    <3>1. CASE Seeks \/ GivesUp
      BY <3>1 DEF Seeks, GivesUp, walkVars, listVars, cursorVars
    <3>2. CASE NoHome
      BY <3>2 DEF NoHome, walkVars, cursorVars
    <3>3. CASE Passes \/ Enters
      BY <3>3 DEF Passes, Enters, listVars, cursorVars
    <3>4. CASE Finds
      BY <3>4 DEF Finds, cursorVars
    <3> QED BY <1>2, <3>1, <3>2, <3>3, <3>4
  <2> QED BY <2>1 DEF Started
<1>3. CASE Reads \/ ReadsNone
  <2>1. pc = "read" /\ UNCHANGED <<fs, cursorVars>> /\ (intact' => intact)
    <3>1. CASE Reads
      BY <3>1, Zenon DEF Reads
    <3>2. CASE ReadsNone
      BY <3>2, Zenon DEF ReadsNone
    <3> QED BY <1>3, <3>1, <3>2
  <2>2. Counted
    BY <1>3, <2>1, CountedKind DEF Placed, TaskInPlace
  <2>3. fsel_pagestart' \in {0, fsel_pagestart}
    BY <2>2 DEF Counted
  <2>4. 0 % (FSEL_PAGESIZE - 1) = 0
    BY Sizes
  <2> QED BY <2>1, <2>3, <2>4 DEF Started, cursorVars
<1> QED BY <1>1, <1>2, <1>3, Zenon DEF Walks

LEMMA StartedKept ==
  ASSUME Placed, Typed, Started, Paged, Kinds PROVE Started'
<1>1. CASE Walks
  BY <1>1, StartedWalks
<1>2. CASE Resets \/ Chooses \/ Menus
  <2>1. state' \notin ListStates
    BY <1>2 DEF Resets, Chooses, ToMenu, Menus, ListStates
  <2> QED BY <2>1 DEF Started
<1>3. CASE Opens
  <2>1. 0 % (FSEL_PAGESIZE - 1) = 0 /\ fsel_pagestart' = 0
    BY <1>3, Sizes DEF Opens
  <2> QED BY <2>1 DEF Started
<1>4. CASE Marks
  <2>1. UNCHANGED <<fs, fsel_pagestart, intact>> /\ state \in ListStates
    BY <1>4 DEF Marks, walkVars, listVars, Placed, TaskInPlace, DrawsList, ListStates
  <2> QED BY <2>1 DEF Started
<1>5. CASE Moves
  <2>1. CASE intact
    BY <1>5, <2>1, StartedMoves
  <2>2. CASE ~intact
    BY <1>5, <2>2 DEF Moves, Started
  <2> QED BY <2>1, <2>2
<1>6. CASE Idles
  BY <1>6 DEF Idles, walkVars, listVars, cursorVars, Started
<1> QED BY <1>1, <1>2, <1>3, <1>4, <1>5, <1>6, Zenon DEF Kinds

LEMMA DrawnKept ==
  ASSUME Placed, Typed, Typed', Traced, ReadOn, SlotsHold, DrawnSoFar, Started, Kinds
  PROVE  DrawnSoFar'
<1>0. back \in {"serve", "mount"}
  BY DEF Placed, TaskInPlace
<1>1. CASE Mounts \/ Seeks \/ GivesUp \/ NoHome \/ Passes \/ Enters
  <2>1. pc' # "read"
    BY <1>1 DEF Mounts, Seeks, GivesUp, NoHome, Passes, Enters
  <2> QED BY <2>1 DEF DrawnSoFar
<1>2. CASE Finds
  <2>1. CASE pc' = "read"
    <3>1. HomeSeen(fs', dir') /\ dir'.index = 2 /\ fs \in DOMAIN Volume /\ fs' = fs
      BY <1>2, <2>1, ReadFinds DEF Finds, Placed
    <3>2. Passed' = 0
      <4>1. HomePlace(fs, 2).sect # 0 /\ dir' = HomePlace(fs, 2)
        <5>1. dir' = HomePlace(fs, 2) /\ 2 \in 2..(HomeSize(fs) - 1) /\ HomeSize(fs) \in Nat
          BY <3>1, HomeSizeNat DEF HomeSeen
        <5> QED BY <3>1, <5>1, SectorIs
      <4>2. Seen' = 2
        BY <3>1, <4>1 DEF Seen
      <4> QED BY <3>1, <4>2, BeforeIs DEF Passed
    <3>3. \/ task' = "first"
          \/ /\ fsel_hasnextpage' = 1 /\ i' = 0 /\ fsel_pagestart' = fsel_pagestart
             /\ task' = (IF fsel_pagestart # 0 THEN "skip" ELSE "show")
      BY <1>2, <2>1 DEF Finds
    <3>4. fsel_pagestart \in Nat
      BY Sizes DEF Typed
    <3> QED BY <3>2, <3>3, <3>4 DEF DrawnSoFar, SlotsShown, NextKnown
  <2>2. CASE pc' # "read"
    BY <2>2 DEF DrawnSoFar
  <2> QED BY <2>1, <2>2
<1>3. CASE Reads \/ ReadsNone
  <2>1. CASE intact'
    BY <1>3, <2>1, DrawnReads, DrawnEnds
  <2>2. CASE ~intact'
    BY <2>2 DEF DrawnSoFar
  <2> QED BY <2>1, <2>2
<1>4. CASE Resets \/ Chooses \/ Marks \/ Menus \/ Opens \/ Moves
  <2>1. pc' # "read"
    BY <1>0, <1>4 DEF Resets, Chooses, Marks, Menus, Opens, Moves
  <2> QED BY <2>1 DEF DrawnSoFar
<1>5. CASE Idles
  <2>1. CASE pc' = "read"
    <3>1. UNCHANGED <<pc, walkVars, listVars>>
      BY <1>0, <1>5, <2>1 DEF Idles
    <3> QED BY <3>1 DEF walkVars, listVars, DrawnSoFar, SlotsShown, NextKnown, Passed, Seen
  <2>2. CASE pc' # "read"
    BY <2>2 DEF DrawnSoFar
  <2> QED BY <2>1, <2>2
<1> QED BY <1>1, <1>2, <1>3, <1>4, <1>5, Zenon DEF Kinds, Walks

LEMMA PagedKept ==
  ASSUME Placed, Typed, Typed', ReadOn, SlotsHold, DrawnSoFar, Started, Paged, Kinds
  PROVE  Paged'
<1>0. back \in {"serve", "mount"}
  BY DEF Placed, TaskInPlace
<1>1. CASE Mounts \/ Seeks \/ GivesUp
  <2>1. state' \notin ListStates
    <3>1. Loading /\ UNCHANGED cursorVars
      BY <1>1 DEF Mounts, Seeks, GivesUp, Loading
    <3> QED BY <3>1, NoListUp DEF cursorVars
  <2> QED BY <2>1 DEF Paged
<1>2. CASE NoHome
  <2>1. CASE task = "dir"
    <3>1. Loading /\ UNCHANGED cursorVars
      BY <1>2, <2>1 DEF NoHome, Loading
    <3> QED BY <3>1, NoListUp DEF cursorVars, Paged
  <2>2. CASE task # "dir"
    BY <1>2, <2>2 DEF NoHome, Paged
  <2> QED BY <2>1, <2>2
<1>3. CASE Passes \/ Enters
  <2>1. pc' = "trace"
    BY <1>3 DEF Passes, Enters
  <2> QED BY <2>1 DEF Paged
<1>4. CASE Finds
  <2>1. CASE task \in {"open", "dir"}
    <3>1. Loading /\ UNCHANGED cursorVars
      BY <1>4, <2>1 DEF Finds, Loading
    <3> QED BY <3>1, NoListUp DEF cursorVars, Paged
  <2>2. CASE task \notin {"open", "dir"}
    BY <1>4, <2>2 DEF Finds, Paged
  <2> QED BY <2>1, <2>2
<1>5. CASE Reads \/ ReadsNone
  <2>1. pc = "read" /\ UNCHANGED cursorVars
    <3>1. CASE Reads
      BY <3>1, Zenon DEF Reads
    <3>2. CASE ReadsNone
      BY <3>2, Zenon DEF ReadsNone
    <3> QED BY <1>5, <3>1, <3>2
  <2>2. Counted /\ task \in {"first", "skip", "show"}
    BY <1>5, <2>1, CountedKind DEF Placed, TaskInPlace
  <2>3. CASE task = "first"
    <3>1. Loading
      BY <2>1, <2>3 DEF Loading
    <3> QED BY <2>1, <3>1, NoListUp DEF cursorVars, Paged
  <2>4. CASE task = "skip"
    <3>1. pc' = "read"
      BY <2>1, <2>2, <2>4 DEF Counted
    <3> QED BY <3>1 DEF Paged
  <2>5. CASE task = "show"
    <3>1. pc' \in {"read", "mark"}
      BY <2>1, <2>2, <2>5 DEF Counted
    <3>2. ASSUME intact', pc' = "mark" PROVE PageIs'
      BY <1>5, <2>5, <3>2, DrawnReads, DrawnEnds
    <3> QED BY <3>1, <3>2 DEF Paged
  <2> QED BY <2>2, <2>3, <2>4, <2>5
<1>6. CASE Resets \/ Chooses \/ Menus
  <2>1. state' \notin ListStates
    BY <1>6 DEF Resets, Chooses, ToMenu, Menus, ListStates
  <2> QED BY <2>1 DEF Paged
<1>7. CASE Opens
  BY <1>7 DEF Opens, Paged
<1>8. CASE Marks
  <2>1. UNCHANGED <<fs, listVars>> /\ state \in ListStates /\ pc = "mark"
    BY <1>8 DEF Marks, walkVars, Placed, TaskInPlace, DrawsList, ListStates
  <2> QED BY <2>1 DEF listVars, Paged, PageIs, SlotsShown
<1>9. CASE Moves
  <2>1. CASE fsel_redraw = 1 \/ Down(Up).page
    BY <1>9, <2>1 DEF Moves, Paged
  <2>2. CASE ~(fsel_redraw = 1 \/ Down(Up).page)
    <3>1. UNCHANGED <<fs, intact, slots, fsel_hasnextpage, state>> /\ state = "FSEL" /\ pc = "act"
          /\ fsel_redraw = 0 /\ fsel_pagestart' = Down(Up).start
      BY <1>9, <2>2 DEF Moves, Typed
    <3>2. Down(Up).start = fsel_pagestart
      <4>1. ~Up.page /\ Down(Up).start = Up.start
        BY <2>2 DEF Down
      <4> QED BY <4>1 DEF Up
    <3> QED BY <3>1, <3>2 DEF Paged, PageIs, SlotsShown, ListStates
  <2> QED BY <2>1, <2>2
<1>10. CASE Idles
  <2>1. UNCHANGED <<fs, listVars, state>> /\ (pc' \notin {"trace", "read"} => pc \notin {"trace", "read"})
    BY <1>10 DEF Idles, walkVars, cursorVars
  <2> QED BY <2>1 DEF listVars, Paged, PageIs, SlotsShown
<1> QED BY <1>1, <1>2, <1>3, <1>4, <1>5, <1>6, <1>7, <1>8, <1>9, <1>10, Zenon DEF Kinds, Walks

-----------------------------------------------------------------------------
(* What is served is a file of VECTOR06, and what FIRE chose is opened.      *)

\* f_open has succeeded, and the menu may be up.
Serving == (back = "serve" /\ pc # "away") \/ pc = "serve"
IsOpen(card, name) ==
  /\ name # <<>> /\ opened = <<card, name>>
  /\ \E p \in HomeUsed(card) : IsNamed(HomeEntry(card, p), name) /\ "DIR" \notin HomeEntry(card, p).attr
OpenedIsThere == Serving => IsOpen(fs, make_dirfile(ptrfile))

LEMMA OpenedNow ==
  ASSUME Placed, Traced, Finds, task = "open" PROVE OpenedIsThere'
<1>1. /\ pc = "trace" /\ fs \in DOMAIN Volume /\ UNCHANGED <<fs, ptrfile>> /\ ~IsEnd(Entry) /\ Here
      /\ Len(path) = 1 /\ "DIR" \notin Entry.attr /\ opened' = <<fs, Entry.name>>
  BY DEF Finds, Placed
<1>2. AtHome /\ make_dirfile(ptrfile) # <<>>
  <2>1. 1 # 2
    OBVIOUS
  <2>2. ~AtRoot
    BY <1>1, <2>1, PathLeft, Zenon
  <2> QED BY <1>1, <2>2 DEF Traced
<1>3. IsNamed(Entry, make_dirfile(ptrfile))
  BY <1>1, <1>2, PathLeft, Zenon DEF Here, IsNamed
<1>4. HomeSeen(fs, dir) /\ Entry = HomeEntry(fs, dir.index)
  BY <1>1, <1>2, EntryIs DEF AtHome, HomeSeen, Entry, disk
<1>5. dir.index \in HomeUsed(fs)
  <2>1. dir.index \in 2..(HomeSize(fs) - 1) /\ \A q \in 2..(dir.index - 1) : HomeEntry(fs, q).name[1] # 0
    BY <1>4 DEF HomeSeen
  <2>2. HomeEntry(fs, dir.index).name[1] # 0
    BY <1>1, <1>4 DEF IsEnd
  <2>3. \A q \in 2..dir.index : q = dir.index \/ q \in 2..(dir.index - 1)
    <3>1. \A m \in Int : \A q \in 2..m : q = m \/ q \in 2..(m - 1)
      OBVIOUS
    <3>2. dir.index \in Int
      BY <1>1, <2>1, HomeSizeNat
    <3> QED BY <3>1, <3>2, Zenon
  <2> QED BY <2>1, <2>2, <2>3, Zenon DEF HomeUsed
<1>6. opened' = <<fs, make_dirfile(ptrfile)>>
  BY <1>1, <1>3 DEF IsNamed
<1>7. \E p \in HomeUsed(fs) :
        IsNamed(HomeEntry(fs, p), make_dirfile(ptrfile)) /\ "DIR" \notin HomeEntry(fs, p).attr
  BY <1>1, <1>3, <1>4, <1>5, Zenon
<1> QED BY <1>1, <1>2, <1>6, <1>7 DEF OpenedIsThere, IsOpen

\* Only the first image of a directory is kept to be opened.
LEMMA Unfiled ==
  ASSUME Reads \/ ReadsNone, task \in {"skip", "show"} PROVE UNCHANGED fileVars
<1>1. CASE Reads /\ IsImage(Entry)
  <2>1. Found(Entry)
    BY <1>1, Zenon DEF Reads
  <2>2. CASE task = "skip"
    BY <2>1, <2>2 DEF Found
  <2>3. CASE task = "show"
    BY <2>1, <2>3 DEF Found
  <2> QED BY <2>2, <2>3
<1>2. CASE Reads /\ ~IsImage(Entry)
  <2>1. UNCHANGED readVars
    BY <1>2, Zenon DEF Reads
  <2> QED BY <2>1 DEF readVars
<1>3. CASE ReadsNone
  <2>1. NoFile
    BY <1>3, Zenon DEF ReadsNone
  <2>2. CASE task = "skip"
    BY <2>1, <2>2 DEF NoFile
  <2>3. CASE task = "show"
    BY <2>1, <2>3 DEF NoFile
  <2> QED BY <2>2, <2>3
<1> QED BY <1>1, <1>2, <1>3

\* Otherwise a file stays open, or none is open.
StaysOpen == Serving' => Serving /\ UNCHANGED <<fs, opened, ptrfile>>

LEMMA OpenedWalks ==
  ASSUME Placed, Walks, ~(Finds /\ task = "open") PROVE StaysOpen
<1>0. back \in {"serve", "mount"} /\ (Loading => back = "mount")
  BY DEF Placed, TaskInPlace
<1>1. CASE Mounts \/ Seeks \/ GivesUp
  <2>1. Loading /\ back' = back /\ pc' # "serve"
    BY <1>1 DEF Mounts, Seeks, GivesUp, Loading
  <2> QED BY <1>0, <2>1 DEF StaysOpen, Serving
<1>2. CASE NoHome
  BY <1>2 DEF NoHome, StaysOpen, Serving, walkVars, fileVars
<1>3. CASE Passes \/ Enters
  BY <1>3 DEF Passes, Enters, StaysOpen, Serving, fileVars
<1>4. CASE Finds
  <2>1. CASE task = "list"
    BY <1>4, <2>1 DEF Finds, StaysOpen, Serving
  <2>2. CASE task = "dir"
    <3>1. Loading /\ back' = back /\ pc' # "serve"
      BY <1>4, <2>2 DEF Finds, Loading
    <3> QED BY <1>0, <3>1 DEF StaysOpen, Serving
  <2> QED BY <1>4, <2>1, <2>2 DEF Finds
<1>5. CASE Reads \/ ReadsNone
  <2>1. pc = "read" /\ UNCHANGED <<fs, back>>
    <3>1. CASE Reads
      BY <3>1, Zenon DEF Reads
    <3>2. CASE ReadsNone
      BY <3>2, Zenon DEF ReadsNone
    <3> QED BY <1>5, <3>1, <3>2
  <2>2. Counted /\ task \in {"first", "skip", "show"}
    BY <1>5, <2>1, CountedKind DEF Placed, TaskInPlace
  <2>3. pc' # "serve"
    BY <2>1, <2>2 DEF Counted
  <2>4. CASE task = "first"
    BY <1>0, <2>1, <2>3, <2>4 DEF Loading, StaysOpen, Serving
  <2>5. CASE task # "first"
    <3>1. UNCHANGED fileVars
      BY <1>5, <2>1, <2>2, <2>5, Unfiled
    <3> QED BY <2>1, <2>3, <3>1 DEF StaysOpen, Serving, fileVars
  <2> QED BY <2>4, <2>5
<1> QED BY <1>1, <1>2, <1>3, <1>4, <1>5, Zenon DEF Walks

LEMMA OpenedKept ==
  ASSUME Placed, Traced, OpenedIsThere, Kinds PROVE OpenedIsThere'
<1>0. back \in {"serve", "mount"}
  BY DEF Placed, TaskInPlace
<1>1. CASE Finds /\ task = "open"
  BY <1>1, OpenedNow
<1>2. CASE StaysOpen
  BY <1>2 DEF StaysOpen, OpenedIsThere, IsOpen
<1>3. CASE Walks /\ ~(Finds /\ task = "open")
  BY <1>2, <1>3, OpenedWalks
<1>4. CASE Resets
  <2>1. StaysOpen
    BY <1>0, <1>4 DEF Resets, ToMenu, StaysOpen, Serving, walkVars, fileVars
  <2> QED BY <1>2, <2>1
<1>5. CASE Chooses
  BY <1>5 DEF Chooses, OpenedIsThere, Serving
<1>6. CASE Marks \/ Menus \/ Opens \/ Moves
  <2>1. StaysOpen
    BY <1>0, <1>6 DEF Marks, Menus, Opens, Moves, StaysOpen, Serving, walkVars, fileVars
  <2> QED BY <1>2, <2>1
<1>7. CASE Idles
  <2>1. StaysOpen
    BY <1>0, <1>7 DEF Idles, StaysOpen, Serving, walkVars, fileVars
  <2> QED BY <1>2, <2>1
<1> QED BY <1>1, <1>3, <1>4, <1>5, <1>6, <1>7, Zenon DEF Kinds

\* The item that FIRE chose is what is to be opened.
IsChosen(it) == chosen = <<it.card, it.name>> /\ ptrfile = get_fileinfo(it.name)
ChoiceHeld == chosen # <<>> => first = 1 /\ \E it \in Items : IsChosen(it)

\* FIRE takes the item that is highlighted.
LEMMA ChoiceMade ==
  ASSUME Placed, Typed, Paged, ChoiceHeld, Chooses PROVE ChoiceHeld'
<1> DEFINE n == fsel_pagestart + menu_selected
<1>1. /\ state = "WAITBREAK2" /\ pc = "act" /\ first = 1 /\ first' = first /\ fsel_redraw = 0
      /\ fs \in DOMAIN Volume
  BY DEF Chooses, Placed, ListStates
<1>2. ptrfile' = fsel_getselected
  BY DEF Chooses
<1>3. /\ chosen' # <<>> => intact /\ InList(menu_selected) /\ Listed(fs, n)
      /\ chosen' # <<>> => chosen' = <<fs, ItemAt(fs, n).name>>
  BY Zenon DEF Chooses
<1>4. ASSUME chosen' # <<>>
      PROVE  \E it \in Items : chosen' = <<it.card, it.name>> /\ ptrfile' = get_fileinfo(it.name)
  <2>1. intact /\ InList(menu_selected) /\ Listed(fs, n) /\ chosen' = <<fs, ItemAt(fs, n).name>>
    BY <1>3, <1>4
  <2>2. menu_selected \in 0..(FSEL_PAGESIZE - 1) /\ fsel_index2offs(menu_selected) = menu_selected
    BY <2>1, Sizes DEF InList, fsel_index2offs
  <2>3. slots[menu_selected] = TextOf(fs, n)
    BY <1>1, <2>1, <2>2 DEF Paged, PageIs, SlotsShown, ListStates
  <2>4. PICK p \in Images(fs) : n = ImagesBefore(fs, p)
    BY <1>1, <2>1, ListedIs, Zenon
  <2> HIDE DEF n
  <2>5. ItemAt(fs, n) = ItemOf(fs, p) /\ ItemOf(fs, p) \in Items
    BY <1>1, <2>4, ListedIs, Zenon
  <2> DEFINE it == ItemOf(fs, p)
  <2>6. it.card = fs /\ ShortName(it.name)
    BY <2>5, ItemIs DEF ItemOf
  <2>7. slots[menu_selected] = strxcpy(get_fileinfo(it.name))
    BY <2>1, <2>3, <2>5, Zenon DEF TextOf
  <2>8. ptrfile' = get_fileinfo(it.name)
    BY <1>2, <2>2, <2>6, <2>7, TextIs, Zenon DEF fsel_getselected
  <2>9. chosen' = <<it.card, it.name>>
    BY <2>1, <2>5, <2>6
  <2> HIDE DEF it
  <2> QED BY <2>5, <2>8, <2>9 DEF it
<1> QED BY <1>1, <1>4 DEF ChoiceHeld, IsChosen

\* A name that is on the card is not missed.
LEMMA RootNotMissed ==
  ASSUME fs \in DOMAIN Volume, Home[fs] # <<>>, Traced, AtRoot, pc = "trace", task = "open"
  PROVE  ~Misses
<1>1. Len(path) = 2 /\ Head(path) = VECTOR06
  BY PathLeft, Zenon
<1>2. RootSeen(fs, dir) /\ Entry = EntryAt(Disk[fs], dir)
  BY DEF AtRoot, Entry, disk
<1>3. /\ ~IsEnd(Entry) /\ (IsNamed(Entry, VECTOR06) => "DIR" \in Entry.attr)
      /\ ~IsNamed(Entry, VECTOR06) => next_dir_entry(Volume[fs], dir, LinkOf(dir, TRUE)).sect # 0
  BY <1>2, RootHasHome
<1>4. Here <=> IsNamed(Entry, VECTOR06)
  BY <1>1 DEF Here, IsNamed
<1>5. NextOf(dir, TRUE).sect = next_dir_entry(Volume[fs], dir, LinkOf(dir, TRUE)).sect
  BY DEF NextOf, vol
<1>6. Len(path) # 1 /\ pc # "open"
  BY <1>1
<1> QED BY <1>3, <1>4, <1>5, <1>6, Zenon DEF Misses

LEMMA HomeNotMissed ==
  ASSUME fs \in DOMAIN Volume, Traced, AtHome, pc = "trace", task = "open",
         NEW p \in Images(fs), HomeEntry(fs, p).name = make_dirfile(ptrfile)
  PROVE  ~Misses
<1> DEFINE k == dir.index
           name == make_dirfile(ptrfile)
<1>1. Len(path) = 1 /\ Head(path) = name
  BY PathLeft, Zenon
<1>2. HomeSeen(fs, dir) /\ Unnamed(fs, dir, name) /\ Entry = HomeEntry(fs, k)
      /\ Entry = EntryAt(Disk[fs], dir)
  BY EntryIs DEF AtHome, HomeSeen, Entry, disk
<1>3. k \in 2..(HomeSize(fs) - 1) /\ HomeSize(fs) \in Nat
  BY <1>2, HomeSizeNat DEF HomeSeen
<1>4. /\ p \in HomeUsed(fs) /\ p \in 2..(HomeSize(fs) - 1) /\ \A q \in 2..p : HomeEntry(fs, q).name[1] # 0
      /\ IsNamed(HomeEntry(fs, p), name) /\ "DIR" \notin HomeEntry(fs, p).attr
  BY DEF Images, HomeUsed, IsImage, IsNamed
<1> HIDE DEF k, name
<1>5. k <= p
  <2>1. p \notin 2..(k - 1)
    BY <1>2, <1>4, Zenon DEF Unnamed, k
  <2> QED BY <1>3, <1>4, <2>1
<1>6. ~IsEnd(Entry) /\ k \in HomeUsed(fs)
  <2>1. k \in 2..p /\ \A q \in 2..k : q \in 2..p
    BY <1>3, <1>4, <1>5
  <2> QED BY <1>2, <1>3, <1>4, <2>1, Zenon DEF IsEnd, HomeUsed
<1>7. ASSUME Here PROVE "DIR" \notin Entry.attr
  <2>1. HomeEntry(fs, k).name = HomeEntry(fs, p).name
    BY <1>1, <1>2, <1>4, <1>7 DEF Here, IsNamed
  <2>2. k = p
    BY <1>6, <2>1, CardIs, Zenon DEF NamesDiffer
  <2> QED BY <1>2, <1>4, <2>2
<1>8. ASSUME ~Here PROVE NextOf(dir, TRUE).sect # 0
  <2>1. k # p
    BY <1>1, <1>2, <1>4, <1>8, Zenon DEF Here, IsNamed
  <2>2. k # HomeSize(fs) - 1
    BY <1>3, <1>4, <1>5, <2>1
  <2>3. PICK ok \in BOOLEAN : ok = TRUE
    OBVIOUS
  <2>4. /\ NextOf(dir, ok) = next_dir_entry(Volume[fs], dir, LinkOf(dir, ok))
        /\ LinkOf(dir, ok) = IF ok /\ NeedsLink(Volume[fs], dir) THEN Link[fs][dir.clust] ELSE 1
    BY DEF NextOf, LinkOf, vol
  <2>5. (ok \/ ~NeedsLink(Volume[fs], dir)) /\ NextOf(dir, ok).sect = 0 => dir.index = HomeSize(fs) - 1
    BY <1>2, <1>6, <2>4, HomeGoesOn
  <2> QED BY <2>2, <2>3, <2>5, Zenon DEF k
<1> QED BY <1>1, <1>6, <1>7, <1>8 DEF Misses

LEMMA ChoiceFound ==
  ASSUME Placed, Traced, ChoiceHeld, GivesUp PROVE ChoiceHeld'
<1>1. CASE chosen' = <<>>
  BY <1>1 DEF ChoiceHeld
<1>2. CASE Misses /\ chosen # <<>> /\ chosen[1] = fs
  <2>1. pc = "open" \/ (pc = "trace" /\ task = "open")
    BY DEF GivesUp
  <2>2. PICK it \in Items : chosen = <<it.card, it.name>> /\ ptrfile = get_fileinfo(it.name)
    BY <1>2 DEF ChoiceHeld, IsChosen
  <2>3. PICK p \in Images(it.card) : it = ItemOf(it.card, p)
    BY ItemIs, Zenon
  <2>4. it.card = fs /\ fs \in DOMAIN Volume
    BY <1>2, <2>1, <2>2 DEF Placed
  <2>5. make_dirfile(ptrfile) = it.name /\ it.name # <<>> /\ it.name = HomeEntry(fs, p).name
    <3>1. ShortName(it.name)
      BY ItemIs, Zenon
    <3>2. it.name = HomeEntry(fs, p).name
      BY <2>3, <2>4 DEF ItemOf
    <3> QED BY <2>2, <3>1, <3>2, TextIs, Zenon
  <2>6. CASE pc = "open"
    BY <1>2, <2>5, <2>6 DEF Misses
  <2>7. CASE pc = "trace" /\ task = "open"
    <3>1. Home[fs] # <<>>
      <4>1. p \in 2..(HomeSize(fs) - 1)
        BY <2>3, <2>4, ImagesFinite
      <4>2. HomeSize(fs) # 0
        BY <4>1
      <4> QED BY <2>4, <4>2, HomeSizeNat
    <3>2. p \in Images(fs) /\ HomeEntry(fs, p).name = make_dirfile(ptrfile)
      BY <2>3, <2>4, <2>5
    <3>3. ~Misses
      BY <2>4, <2>7, <3>1, <3>2, RootNotMissed, HomeNotMissed, Zenon DEF Traced
    <3> QED BY <1>2, <3>3
  <2> QED BY <2>1, <2>6, <2>7
<1> QED BY <1>1, <1>2 DEF GivesUp

LEMMA ChoiceKept ==
  ASSUME Placed, Typed, Traced, Paged, ChoiceHeld, Kinds PROVE ChoiceHeld'
<1>1. CASE UNCHANGED <<first, ptrfile, chosen>>
  BY <1>1 DEF ChoiceHeld, IsChosen
<1>2. CASE GivesUp
  BY <1>2, ChoiceFound
<1>3. CASE Chooses
  BY <1>3, ChoiceMade
<1>4. CASE Mounts \/ Seeks \/ NoHome \/ Passes \/ Enters \/ Finds
  BY <1>1, <1>4 DEF Mounts, Seeks, NoHome, Passes, Enters, Finds, fileVars
<1>5. CASE Reads \/ ReadsNone
  <2>1. pc = "read" /\ task \in {"first", "skip", "show"}
    <3>1. pc = "read"
      BY <1>5, Zenon DEF Reads, ReadsNone
    <3> QED BY <3>1 DEF Placed, TaskInPlace
  <2>2. CASE task = "first"
    <3>1. chosen = <<>>
      BY <2>1, <2>2 DEF Placed, ChoiceHeld
    <3>2. chosen' = chosen
      <4>1. CASE Reads /\ IsImage(Entry)
        <5>1. Found(Entry)
          BY <4>1, Zenon DEF Reads
        <5> QED BY <2>2, <5>1 DEF Found
      <4>2. CASE Reads /\ ~IsImage(Entry)
        <5>1. UNCHANGED readVars
          BY <4>2, Zenon DEF Reads
        <5> QED BY <5>1 DEF readVars, fileVars
      <4>3. CASE ReadsNone
        <5>1. NoFile
          BY <4>3, Zenon DEF ReadsNone
        <5> QED BY <2>2, <5>1 DEF NoFile
      <4> QED BY <1>5, <4>1, <4>2, <4>3
    <3> QED BY <3>1, <3>2 DEF ChoiceHeld
  <2>3. CASE task # "first"
    BY <1>1, <1>5, <2>1, <2>3, Unfiled DEF fileVars
  <2> QED BY <2>2, <2>3
<1>6. CASE Resets
  BY <1>1, <1>6 DEF Resets, fileVars
<1>7. CASE Marks \/ Menus \/ Opens \/ Moves \/ Idles
  BY <1>1, <1>7 DEF Marks, Menus, Opens, Moves, Idles, fileVars
<1> QED BY <1>2, <1>3, <1>4, <1>5, <1>6, <1>7, Zenon DEF Kinds, Walks

-----------------------------------------------------------------------------
(* The invariant, and what follows from it.                                 *)

MenuInv ==
  /\ Placed /\ Typed /\ Latched /\ Traced /\ ReadOn /\ SlotsHold /\ NameHeld
  /\ DrawnSoFar /\ Started /\ Paged /\ OpenedIsThere /\ ChoiceHeld

LEMMA MenuInvInit == ASSUME MenuInit PROVE MenuInv
<1>1. /\ pc = "mount" /\ back = "mount" /\ state = "MENU" /\ slots = Cleared /\ ptrfile = <<>> /\ chosen = <<>>
  BY DEF MenuInit
<1>2. SlotsHold
  <2>1. Cleared = [s \in Slots |-> Cleared[s]]
        /\ \A s \in Slots : Cleared[s] = Blank \/ (s \in DOMAIN Title /\ Cleared[s] = Title[s])
    BY DEF Cleared
  <2> QED BY <1>1, <2>1, Zenon DEF SlotsHold
<1>3. Placed /\ Typed /\ Latched
  BY PlacedInit, TypedInit, LatchedInit
<1>4. Traced /\ ReadOn /\ NameHeld /\ DrawnSoFar
  BY <1>1 DEF Traced, ReadOn, NameHeld, DrawnSoFar
<1>5. Started /\ Paged /\ OpenedIsThere /\ ChoiceHeld
  BY <1>1 DEF Started, Paged, ListStates, OpenedIsThere, Serving, ChoiceHeld
<1> QED BY <1>2, <1>3, <1>4, <1>5 DEF MenuInv

LEMMA MenuInvNext == ASSUME MenuInv, [MenuNext]_allVars PROVE MenuInv'
<1>1. /\ Placed /\ Typed /\ Latched /\ Traced /\ ReadOn /\ SlotsHold /\ NameHeld
      /\ DrawnSoFar /\ Started /\ Paged /\ OpenedIsThere /\ ChoiceHeld
  BY DEF MenuInv
<1>2. /\ pc = "trace" => task \in {"dir", "open", "list"} /\ Len(path) \in Nat \ {0}
      /\ pc = "read" => task \in {"first", "skip", "show"}
  BY <1>1, PathLeft DEF Placed, TaskInPlace
<1>3. Kinds
  BY <1>2, StepKinds
<1>4. Placed' /\ Typed'
  BY <1>1, <1>3, PlacedKept, TypedKept
<1>5. Latched'
  BY <1>1, <1>2, LatchedKept
<1>6. Traced' /\ ReadOn'
  BY <1>1, <1>3, TracedKept, ReadOnKept
<1>7. SlotsHold' /\ NameHeld'
  BY <1>1, <1>3, SlotsKept, NameKept
<1>8. Started' /\ DrawnSoFar' /\ Paged'
  BY <1>1, <1>3, <1>4, StartedKept, DrawnKept, PagedKept
<1>9. OpenedIsThere' /\ ChoiceHeld'
  BY <1>1, <1>3, OpenedKept, ChoiceKept
<1> QED BY <1>4, <1>5, <1>6, <1>7, <1>8, <1>9 DEF MenuInv

LEMMA MenuInvHolds == MenuSpec => []MenuInv
  BY MenuInvInit, MenuInvNext, PTL DEF MenuSpec

\* The ranges of the variables, and where the directory object is.
LEMMA InRange == ASSUME MenuInv PROVE MenuTypeOK
<1>1. Placed /\ Typed /\ Latched /\ Traced /\ ReadOn /\ SlotsHold
  BY DEF MenuInv
<1>2. /\ menu_x \in {0, 1, 2, 255} /\ menu_y \in 0..Max({2, FSEL_NLINES - 1})
      /\ menu_selected \in 0..255 /\ fsel_pagestart \in 0..(UINT8 - 1) /\ i \in 0..(UINT8 - 1)
      /\ state \in {"MENU", "WAITBREAK", "ABOOT", "ABOOT2", "FSEL", "WAITBREAK2"}
  BY <1>1, Zenon DEF Typed, TopRow
<1>3. osdcmd \subseteq {"hold"} /\ (pc # "pulse" => OSD_CMD = osdcmd) /\ inactivity \in 0..INACTIVITY
      /\ \A s \in Slots : Len(slots[s]) = 12 /\ inverted \subseteq Slots
  BY <1>1, SlotWidths, Zenon DEF Latched
<1>4. ASSUME pc \in {"trace", "read"} PROVE fs \in Cards /\ (dir.sect = 0 \/ dir.sect \in DOMAIN disk)
  <2>1. fs \in DOMAIN Volume /\ fs \in Cards
    BY <1>1, <1>4, CardIs DEF Placed
  <2>2. CASE dir.sect = 0
    BY <2>1, <2>2
  <2>3. CASE RootSeen(fs, dir)
    BY <2>1, <2>3, SectorIs, Zenon DEF RootSeen, disk
  <2>4. CASE HomeSeen(fs, dir)
    <3>1. dir.index \in 0..(HomeSize(fs) - 1)
      BY <2>1, <2>4, HomeSizeNat DEF HomeSeen
    <3> QED BY <2>1, <2>4, <3>1, SectorIs, Zenon DEF HomeSeen, disk
  <2> QED BY <1>1, <1>4, <2>2, <2>3, <2>4 DEF Traced, AtRoot, AtHome, ReadOn, PastEnd
<1> QED BY <1>2, <1>3, <1>4, Zenon DEF MenuTypeOK

\* On the list that is up every slot has the image that belongs in it, in the order of
\* the directory, and the next page is there when it is offered (PageShown), for every
\* card, every size of page and every order of keys, swaps and failed reads.
THEOREM ListIsThePage == MenuSpec => []PageShown
<1>1. ASSUME MenuInv PROVE PageShown
  <2>1. ASSUME ListUp, intact PROVE IsPage(fs)
    <3>1. state \in ListStates /\ fsel_redraw = 0 /\ pc \notin {"trace", "read"} /\ fs \in DOMAIN Volume
      BY <1>1, <2>1 DEF ListUp, Drawing, MenuInv, Placed, TaskInPlace, ListStates, Loading
    <3>2. PageIs
      BY <1>1, <2>1, <3>1 DEF MenuInv, Paged
    <3>3. Cardinality(Listing(fs)) = Count(fs)
      BY <3>1, ListingCount
    <3>4. \A s \in 0..(FSEL_PAGESIZE - 1) : slots[s] = TextOf(fs, fsel_pagestart + s)
      BY <3>2 DEF PageIs, SlotsShown
    <3> QED BY <3>2, <3>3, <3>4, Zenon DEF PageIs, IsPage, TextOf
  <2> QED BY <1>1, <2>1, InRange DEF PageShown
<1> QED BY <1>1, MenuInvHolds, PTL

\* What FIRE chose is what is opened (ChosenIsOpened): the item's name goes through the
\* characters of its slot and back to the eleven bytes of its entry, and f_open finds
\* no other entry by it, though cards are swapped and reads fail on the way.
THEOREM ChoiceIsOpened == MenuSpec => []ChosenIsOpened
<1>1. ASSUME MenuInv, pc = "serve", chosen # <<>>, chosen[1] = opened[1] PROVE opened = chosen
  <2>1. opened = <<fs, make_dirfile(ptrfile)>>
    BY <1>1 DEF MenuInv, OpenedIsThere, Serving, IsOpen
  <2>2. PICK it \in Items : chosen = <<it.card, it.name>> /\ ptrfile = get_fileinfo(it.name)
    BY <1>1 DEF MenuInv, ChoiceHeld, IsChosen
  <2>3. make_dirfile(ptrfile) = it.name
    BY <2>2, ItemIs, TextIs, Zenon
  <2> QED BY <1>1, <2>1, <2>2, <2>3
<1>2. ASSUME MenuInv PROVE ChosenIsOpened
  BY <1>1, <1>2, Zenon DEF ChosenIsOpened
<1> QED BY <1>2, MenuInvHolds, PTL

\* What is served is an image of VECTOR06 (OpenedIsListed): neither the first one the
\* directory had, nor one chosen, nor what the name is when the choice was a blank
\* or a slot of the title can open another file.
THEOREM ServedIsListed == MenuSpec => []OpenedIsListed
<1>1. ASSUME MenuInv, pc = "serve"
      PROVE  \E it \in Items : it.card = opened[1] /\ it.name = opened[2]
  <2> DEFINE name == make_dirfile(ptrfile)
  <2>1. fs \in DOMAIN Volume /\ NameHeld
    BY <1>1 DEF MenuInv, Placed
  <2>2. name # <<>> /\ opened = <<fs, name>>
        /\ \E p \in HomeUsed(fs) : IsNamed(HomeEntry(fs, p), name) /\ "DIR" \notin HomeEntry(fs, p).attr
    BY <1>1, Zenon DEF MenuInv, OpenedIsThere, Serving, IsOpen
  <2>3. PICK p \in HomeUsed(fs) : IsNamed(HomeEntry(fs, p), name) /\ "DIR" \notin HomeEntry(fs, p).attr
    BY <2>2, Zenon
  <2>4. opened[1] = fs /\ opened[2] = name
    BY <2>2
  <2>5. ptrfile # <<>>
    BY <2>2, BlankIs
  <2>6. ASSUME NEW s \in DOMAIN Title, ptrfile = UpToSpace(Title[s]) PROVE FALSE
    BY <2>1, <2>3, <2>6, CardIs, Zenon DEF TitleNamesNone, IsNamed
  <2>7. PICK it \in Items : ptrfile = get_fileinfo(it.name)
    BY <2>1, <2>5, <2>6, Zenon DEF NameHeld
  <2>8. name = it.name
    BY <2>7, ItemIs, TextIs, Zenon
  <2>9. p \in Images(fs)
    <3>1. PICK r \in Images(it.card) : it = ItemOf(it.card, r)
      BY ItemIs, Zenon
    <3>2. endsWith(get_fileinfo(it.name), FDD)
      <4>1. it.name = HomeEntry(it.card, r).name
        BY <3>1 DEF ItemOf
      <4> QED BY <3>1, <4>1 DEF Images, IsImage
    <3>3. IsImage(HomeEntry(fs, p))
      BY <2>3, <2>8, <3>2, Zenon DEF IsImage, IsNamed
    <3> QED BY <3>3, Zenon DEF Images
  <2>10. ItemOf(fs, p) \in Items
    BY <2>1, <2>9, ListedIs, Zenon
  <2>11. ItemOf(fs, p).card = fs /\ ItemOf(fs, p).name = name
    BY <2>3 DEF ItemOf, IsNamed
  <2> QED BY <2>4, <2>10, <2>11, Zenon
<1>2. ASSUME MenuInv PROVE OpenedIsListed
  BY <1>1, <1>2, Zenon DEF OpenedIsListed
<1> QED BY <1>2, MenuInvHolds, PTL
=============================================================================
