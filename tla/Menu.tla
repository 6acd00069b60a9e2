-------------------------------- MODULE Menu ---------------------------------
(***************************************************************************)
(* The on-screen menu and the choice of the disk image: menu.c, osd.c,      *)
(* philes.c, the directory functions of tff.c and the loop of thrall and    *)
(* slave around them (src/firmware/floppysrc).                              *)
(*                                                                          *)
(* The firmware is one thread.  The user presses keys of the on-screen      *)
(* keyboard, also between the two reads of JOYSTICK in menu_dispatch, and   *)
(* moves cards in and out, also in the middle of a list being drawn.  A     *)
(* turn of a loop over directory entries is a step.                         *)
(*                                                                          *)
(* slots are the 16 groups of twelve cells that fsel_index2offs can reach   *)
(* in the 256 of the display, an index being taken modulo 16 by the         *)
(* arithmetic of a byte.  The characters are ASCII; bit 7, which shows a     *)
(* character inverted, is kept per slot, in inverted.                       *)
(***************************************************************************)
EXTENDS Directory, FiniteSetsExt, TLC

CONSTANTS
  Cards, Disk,      \* per card: its sectors
  Link,             \* per card: the FAT, cluster to cluster
  Home,             \* per card: the clusters of VECTOR06, <<>> if there is none
  Keys,             \* the joysticks there are: subsets of {"LT","RT","UP","DN","FIRE"}
  FSEL_NLINES,      \* 6
  INACTIVITY,       \* 8192
  UINT8,            \* 256
  Title,            \* what cnotice1 leaves in slots 14 and 15
  MaxKeys, MaxSwaps, MaxFaults

FSEL_PAGESIZE == 2 * FSEL_NLINES

ASSUME MenuAssumption ==
  /\ FSEL_NLINES \in 2..6 /\ INACTIVITY \in Nat /\ {} \in Keys
  /\ UINT8 \in Nat \ {0} /\ UINT8 % 16 = 0
  /\ Title \in [DOMAIN Title -> Seq(0..127)] /\ DOMAIN Title \subseteq {14, 15}
  /\ \A s \in DOMAIN Title : Len(Title[s]) = 12

VARIABLES
  slot, live,         \* the card in the socket; was it there at the last disk_initialize
  JOYSTICK,
  pc,
  back,               \* where menu_dispatch was called from: "serve" or "mount"
  fs, winsect,        \* the card whose volume is mounted, or "none"; fs->winsect
  first, ptrfile,
  path, dir,          \* trace_path: segments to go; the directory object
  task,               \* what a directory is read for
  state, joy_status, inactivity,
  menu_x, menu_y, menu_selected,
  fsel_pagestart, fsel_redraw, fsel_hasnextpage, i,
  slots, inverted, osdcmd, OSD_CMD,
  opened,             \* history: the entry file1 was opened on
  intact,             \* history: the card has answered since the list was opened
  chosen,             \* history: the entry highlighted when FIRE was released
  keys, swaps, faults

userVars == <<JOYSTICK, keys>>
cardVars == <<slot, live, swaps, faults>>
dirVars  == <<path, dir, task>>
screen   == <<slots, inverted>>
fselVars == <<fsel_pagestart, fsel_redraw, fsel_hasnextpage, i, intact>>
menuVars == <<state, joy_status, inactivity, menu_x, menu_y, menu_selected, fselVars, screen,
              osdcmd, OSD_CMD>>
fileVars == <<first, ptrfile, opened, chosen>>
allVars  == <<userVars, cardVars, pc, back, fs, winsect, dirVars, menuVars, fileVars>>

-----------------------------------------------------------------------------
(* The display.                                                            *)

\* 0377: more than the five keys, so never what JOYSTICK shows.
Octal377 == {"LT", "RT", "UP", "DN", "FIRE", "others"}

Blank == [k \in 1..12 |-> SPACE]
Slots == 0..15
\* fsel_index2offs, as the slot that starts at that offset.
fsel_index2offs(idx) == idx % 16
InList(s) == s \in 0..(FSEL_PAGESIZE - 1)
Cleared == [s \in Slots |-> IF s \in DOMAIN Title THEN Title[s] ELSE Blank]
osd_cls == slots' = Cleared /\ inverted' = DOMAIN Title

\* Mutant: the old item stays inverted.
MoveHighlight_adds(from, to) == inverted' = inverted \cup {fsel_index2offs(to)}
\* fsel_showselection(0) at the old item, fsel_showselection(1) at the new one.
MoveHighlight(from, to) ==
  inverted' = (inverted \ {fsel_index2offs(from)}) \cup {fsel_index2offs(to)}

\* strxcpy, into twelve blanks.
strxcpy(s) == SubSeq(PadTo(s, 12), 1, 12)
\* Mutant: with bit 7 left in.
fsel_getselected_inverted ==
  LET s == UpToSpace(slots[fsel_index2offs(menu_selected)]) IN [k \in DOMAIN s |-> s[k] + 128]
fsel_getselected == UpToSpace(slots[fsel_index2offs(menu_selected)])

-----------------------------------------------------------------------------
MenuInit ==
  /\ slot \in Cards \cup {"none"} /\ live = FALSE /\ JOYSTICK = {}
  /\ pc = "mount" /\ back = "mount" /\ fs = "none" /\ winsect = 0
  /\ first = 0 /\ ptrfile = <<>>       \* "xxxxxxxx.xxx", which no card holds
  /\ path = <<>> /\ dir = RootDir([dirbase |-> 0]) /\ task = "none"
  /\ state = "MENU" /\ joy_status = Octal377 /\ inactivity = 0
  /\ menu_x = 1 /\ menu_y = 1 /\ menu_selected = 255
  /\ fsel_pagestart = 0 /\ fsel_redraw = 0 /\ fsel_hasnextpage = 0 /\ i = 0
  /\ slots = Cleared /\ inverted = DOMAIN Title /\ osdcmd = {} /\ OSD_CMD = {}
  /\ opened = <<>> /\ intact = FALSE /\ chosen = <<>>
  /\ keys = 0 /\ swaps = 0 /\ faults = 0

\* menu_init, with the joystick status and the file list's page as they stay.
menu_init ==
  /\ state' = "MENU"
  /\ IF state # "MENU" THEN joy_status' = Octal377 /\ osd_cls
     ELSE UNCHANGED <<joy_status, screen>>
  /\ menu_x' = 1 /\ menu_y' = 1 /\ menu_selected' = 255
  /\ osdcmd' = osdcmd \cap {"hold"} /\ OSD_CMD' = osdcmd'

-----------------------------------------------------------------------------
(* Accesses.  A card that is not the one initialised answers none; one that  *)
(* is may fail one.                                                          *)

Answers == IF ~live THEN {FALSE} ELSE IF faults < MaxFaults THEN BOOLEAN ELSE {TRUE}
Blame(ok) == faults' = IF live /\ ~ok THEN faults + 1 ELSE faults

Volume == [c \in {c \in Cards : Mountable(Disk[c])} |-> VolumeOn(Disk[c])]
disk == Disk[fs]
vol == Volume[fs]

\* Does move_window(d.sect) succeed, when the card answers as ok?
Reaches(d, ok) == winsect = d.sect \/ ok
\* The link that get_cluster gives, through a window on the FAT.
LinkOf(d, ok) == IF ok /\ NeedsLink(vol, d) THEN Link[fs][d.clust] ELSE 1
NextOf(d, ok) == next_dir_entry(vol, d, LinkOf(d, ok))
Window(d, ok) == IF NeedsLink(vol, d) /\ ok THEN -1 ELSE d.sect

\* A directory is looked for: trace_path from the root.
VECTOR06 == <<86, 69, 67, 84, 79, 82, 48, 54, 32, 32, 32>>
Trace(what, segments) ==
  /\ pc' = "trace" /\ task' = what /\ path' = segments /\ dir' = RootDir(vol)

\* thrall's loop starts over: philes_mount, then f_opendir, whose auto_mount
\* initialises the card and reads its boot record.
Mount ==
  /\ pc = "mount"
  /\ \E ok \in IF slot = "none" THEN {FALSE} ELSE IF faults < MaxFaults THEN BOOLEAN ELSE {TRUE} :
       /\ live' = ok /\ faults' = IF slot # "none" /\ ~ok THEN faults + 1 ELSE faults
       /\ winsect' = 0
       /\ IF ok /\ slot \in DOMAIN Volume
          THEN /\ fs' = slot
               /\ pc' = "trace" /\ task' = "dir" /\ path' = <<VECTOR06>>
               /\ dir' = RootDir(Volume[slot])
          ELSE fs' = "none" /\ pc' = "away" /\ UNCHANGED dirVars
  /\ UNCHANGED <<userVars, slot, swaps, back, menuVars, fileVars>>

-----------------------------------------------------------------------------
(* What becomes of a path traced, or not.                                   *)

\* An open that failed though every byte was read is the fault of the name.
OpenFails(why) ==
  /\ first' = 0 /\ pc' = "away"
  /\ chosen' = IF why = "name" /\ chosen # <<>> /\ chosen[1] = fs THEN chosen ELSE <<>>
  /\ UNCHANGED <<ptrfile, opened, dirVars, menuVars>>

\* f_opendir or f_open says no.
TraceFails(why) ==
  CASE task = "open" -> OpenFails(why)
    [] task = "dir"  -> pc' = "away" /\ UNCHANGED <<fileVars, dirVars, menuVars>>
    [] task = "list" ->    \* draw_fsel leaves the old page
         /\ pc' = "mark" /\ fsel_hasnextpage' = 1 /\ intact' = FALSE
         /\ UNCHANGED <<fileVars, dirVars, state, joy_status, inactivity, menu_x, menu_y, menu_selected,
                        fsel_pagestart, fsel_redraw, i, screen, osdcmd, OSD_CMD>>

\* The last segment is found: a directory to read, or a file.
TraceEnds(e) ==
  LET directory == "DIR" \in e.attr
  IN CASE task = "open" /\ directory -> OpenFails("name")
       [] task = "open" /\ ~directory ->
            /\ pc' = "serve" /\ opened' = <<fs, e.name>>
            /\ UNCHANGED <<first, ptrfile, chosen, dirVars, menuVars>>
       [] task # "open" /\ ~directory -> TraceFails("name")
       [] task = "dir" /\ directory /\ first = 0 ->
            /\ pc' = "read" /\ task' = "first" /\ dir' = SubDir(vol, e.clust)
            /\ UNCHANGED <<path, fileVars, menuVars>>
       [] task = "dir" /\ directory /\ first # 0 ->
            pc' = "open" /\ UNCHANGED <<fileVars, dirVars, menuVars>>
       [] task = "list" /\ directory ->
            /\ pc' = "read" /\ dir' = SubDir(vol, e.clust)
            /\ task' = IF fsel_pagestart # 0 THEN "skip" ELSE "show"
            /\ fsel_hasnextpage' = 1 /\ i' = 0
            /\ UNCHANGED <<path, fileVars, intact, state, joy_status, inactivity, menu_x, menu_y,
                           menu_selected, fsel_pagestart, fsel_redraw, screen, osdcmd, OSD_CMD>>

f_open ==
  /\ pc = "open"
  /\ IF make_dirfile(ptrfile) = <<>>
     THEN OpenFails("name")    \* FR_INVALID_NAME, after the directory was found
     ELSE Trace("open", <<VECTOR06, make_dirfile(ptrfile)>>) /\ UNCHANGED <<fileVars, menuVars>>
  /\ UNCHANGED <<userVars, cardVars, back, fs, winsect>>

\* One turn of the loop of trace_path.
TraceTurn ==
  /\ pc = "trace"
  /\ \E ok \in Answers :
       IF ~Reaches(dir, ok)
       THEN TraceFails("card") /\ Blame(ok) /\ UNCHANGED winsect
       ELSE LET e    == EntryAt(disk, dir)
                here == IsValid(e) /\ e.name = Head(path)
                next == NextOf(dir, ok)
            IN /\ winsect' = IF IsEnd(e) \/ here THEN dir.sect ELSE Window(dir, ok)
               /\ Blame(ok \/ IsEnd(e) \/ here \/ ~NeedsLink(vol, dir))
               /\ CASE IsEnd(e) -> TraceFails("name")
                    [] ~IsEnd(e) /\ here /\ Len(path) = 1 -> TraceEnds(e)
                    [] ~IsEnd(e) /\ here /\ Len(path) > 1 ->
                         IF "DIR" \notin e.attr THEN TraceFails("name")
                         ELSE /\ path' = Tail(path) /\ dir' = SubDir(vol, e.clust)
                              /\ UNCHANGED <<pc, task, fileVars, menuVars>>
                    [] OTHER ->
                         IF next.sect = 0 THEN TraceFails(IF ok THEN "name" ELSE "card")
                         ELSE dir' = next /\ UNCHANGED <<pc, path, task, fileVars, menuVars>>
  /\ UNCHANGED <<userVars, slot, live, swaps, back, fs>>

-----------------------------------------------------------------------------
(* philes_nextfile, and what it was called for.                             *)

\* It found the image e.
Found(e) ==
  LET text == get_fileinfo(e.name)
  IN CASE task = "first" ->
            /\ ptrfile' = text /\ first' = 1 /\ pc' = "open"
            /\ UNCHANGED <<task, opened, chosen, screen, fsel_pagestart, fsel_hasnextpage, i>>
       [] task = "skip" ->
            /\ IF i + 1 < fsel_pagestart THEN i' = i + 1 /\ UNCHANGED task
               ELSE i' = 0 /\ task' = "show"
            /\ UNCHANGED <<pc, fileVars, screen, fsel_pagestart, fsel_hasnextpage>>
       [] task = "show" ->
            /\ slots' = [slots EXCEPT ![fsel_index2offs(i)] = strxcpy(text)]
            /\ inverted' = inverted \ {fsel_index2offs(i)}
            /\ i' = i + 1 /\ pc' = IF i' < FSEL_PAGESIZE THEN "read" ELSE "mark"
            /\ UNCHANGED <<task, fileVars, fsel_pagestart, fsel_hasnextpage>>

\* It found none.
NoFile ==
  CASE task = "first" ->
         /\ first' = 1 /\ pc' = "open"
         /\ UNCHANGED <<task, ptrfile, opened, chosen, screen, fsel_pagestart, fsel_hasnextpage, i>>
    [] task = "skip" ->
         /\ fsel_pagestart' = 0 /\ i' = 0 /\ task' = "show"
         /\ UNCHANGED <<pc, fileVars, screen, fsel_hasnextpage>>
    [] task = "show" ->
         /\ slots' = [slots EXCEPT ![fsel_index2offs(i)] = Blank]
         /\ inverted' = inverted \ {fsel_index2offs(i)}
         /\ fsel_hasnextpage' = 0
         /\ i' = i + 1 /\ pc' = IF i' < FSEL_PAGESIZE THEN "read" ELSE "mark"
         /\ UNCHANGED <<task, fileVars, fsel_pagestart>>

\* One turn of the loops of philes_nextfile and f_readdir.
ReadTurn ==
  /\ pc = "read"
  /\ \E ok \in Answers :
       IF dir.sect = 0 THEN NoFile /\ UNCHANGED <<dir, winsect, faults, intact>>
       ELSE IF ~Reaches(dir, ok)
       THEN NoFile /\ Blame(ok) /\ intact' = FALSE /\ UNCHANGED <<dir, winsect>>
       ELSE LET e == EntryAt(disk, dir)
                asks == NeedsLink(vol, dir) /\ ~IsEnd(e)
            IN /\ Blame(ok \/ ~asks)
               /\ intact' = (intact /\ (ok \/ ~asks))
               /\ IF IsEnd(e) THEN NoFile /\ UNCHANGED dir /\ winsect' = dir.sect
                  ELSE /\ dir' = NextOf(dir, ok) /\ winsect' = Window(dir, ok)
                       /\ IF IsImage(e) THEN Found(e)
                          ELSE UNCHANGED <<pc, task, fileVars, screen, fsel_pagestart,
                                           fsel_hasnextpage, i>>
  /\ UNCHANGED <<userVars, slot, live, swaps, back, fs, path, state, joy_status, inactivity,
                 menu_x, menu_y, menu_selected, fsel_redraw, osdcmd, OSD_CMD>>

-----------------------------------------------------------------------------
(* Around menu_dispatch.                                                    *)

\* slave's loop: disk_poll, then blink.
Poll ==
  /\ pc = "serve"
  /\ \E ok \in Answers : Blame(ok) /\ pc' = IF ok THEN "look" ELSE "away"
  /\ back' = "serve"
  /\ UNCHANGED <<userVars, slot, live, swaps, fs, winsect, dirVars, menuVars, fileVars>>

\* thrall goes round: menu_busy(2) resets the menu.
Away ==
  /\ pc = "away" /\ menu_init
  /\ pc' = "look" /\ back' = "mount"
  /\ UNCHANGED <<userVars, cardVars, fs, winsect, dirVars, inactivity, fselVars, fileVars>>

\* Mutant: below zero, which an unsigned counter never is.
TimedOut_never(left) == left < 0 /\ state = "FSEL"
TimedOut(left) == left = 0 /\ state = "FSEL"

\* menu_dispatch up to the comparison of JOYSTICK with joy_status.
Look ==
  /\ pc = "look"
  /\ inactivity' = IF inactivity = 0 THEN 0 ELSE inactivity - 1
  /\ IF TimedOut(inactivity') THEN menu_init
     ELSE UNCHANGED <<state, joy_status, screen, menu_x, menu_y, menu_selected, osdcmd, OSD_CMD>>
  /\ pc' = IF JOYSTICK # joy_status' THEN "act" ELSE back
  /\ UNCHANGED <<userVars, cardVars, back, fs, winsect, dirVars, fselVars, fileVars>>

-----------------------------------------------------------------------------
(* menu_dispatch: JOYSTICK is read again, and the state acts on it.         *)

Pressed(key) == key \in JOYSTICK

\* The items of the menu, by menu_selected.
Item == [k \in 0..8 |-> CASE k = 1 -> "HOLD" [] k = 3 -> "RESET" [] k = 4 -> "DISK"
                          [] k = 5 -> "RESTART" [] k = 7 -> "ABOUT" [] OTHER -> "nothing"]

InMenu ==
  /\ state = "MENU"
  /\ menu_y' = IF Pressed("UP") THEN 0 ELSE IF Pressed("DN") THEN 2 ELSE 1
  /\ menu_x' = IF Pressed("LT") THEN 0 ELSE IF Pressed("RT") THEN 2 ELSE 1
  /\ IF Pressed("FIRE") THEN state' = "WAITBREAK" /\ menu_selected' = menu_x' + menu_y' * 3
     ELSE UNCHANGED <<state, menu_selected>>
  /\ joy_status' = JOYSTICK /\ pc' = back
  /\ UNCHANGED <<fselVars, screen, osdcmd, OSD_CMD, dirVars, fileVars>>

\* fsel_init.
OpenList ==
  /\ state' = "FSEL"
  /\ fsel_pagestart' = 0 /\ fsel_redraw' = 1 /\ joy_status' = Octal377 /\ osd_cls
  /\ menu_x' = 0 /\ menu_y' = 0 /\ menu_selected' = 0 /\ intact' = TRUE
  /\ UNCHANGED <<fsel_hasnextpage, i, osdcmd, OSD_CMD>>
  /\ pc' = back

\* switch_state; a reset is a pulse of two writes to OSD_CMD.
switch_state ==
  LET item == Item[menu_selected]
  IN IF item = "DISK" THEN OpenList
     ELSE /\ state' = IF item = "ABOUT" THEN "ABOOT" ELSE "MENU"
          /\ CASE item = "HOLD" ->
                    /\ osdcmd' = IF "hold" \in osdcmd THEN osdcmd \ {"hold"} ELSE osdcmd \cup {"hold"}
                    /\ OSD_CMD' = osdcmd' /\ pc' = back
               [] item \in {"RESET", "RESTART"} ->
                    /\ osdcmd' = osdcmd
                    /\ OSD_CMD' = osdcmd \cup {item} /\ pc' = "pulse"
               [] OTHER -> UNCHANGED <<osdcmd, OSD_CMD>> /\ pc' = back
          /\ joy_status' = JOYSTICK
          /\ UNCHANGED <<fselVars, screen, menu_x, menu_y, menu_selected>>
\* Mutant: the second write is missing.
EndPulse_stays ==
  /\ pc = "pulse" /\ OSD_CMD' = OSD_CMD /\ pc' = back
  /\ UNCHANGED <<userVars, cardVars, back, fs, winsect, dirVars, fileVars, state, joy_status,
                 inactivity, menu_x, menu_y, menu_selected, fselVars, screen, osdcmd>>
EndPulse ==
  /\ pc = "pulse" /\ OSD_CMD' = osdcmd /\ pc' = back
  /\ UNCHANGED <<userVars, cardVars, back, fs, winsect, dirVars, fileVars, state, joy_status,
                 inactivity, menu_x, menu_y, menu_selected, fselVars, screen, osdcmd>>

Stay == joy_status' = JOYSTICK /\ pc' = back
        /\ UNCHANGED <<screen, menu_x, menu_y, menu_selected, osdcmd, OSD_CMD>>

InWaitBreak ==
  /\ state = "WAITBREAK"
  /\ IF ~Pressed("FIRE") THEN switch_state ELSE Stay /\ UNCHANGED <<state, fselVars>>
  /\ UNCHANGED <<dirVars, fileVars>>

\* menu_init inside the switch: joy_status is what it left.
InAbout ==
  /\ \/ state = "ABOOT" /\ Stay /\ state' = IF JOYSTICK = {} THEN "ABOOT2" ELSE "ABOOT"
     \/ /\ state = "ABOOT2"
        /\ IF ~Pressed("FIRE") THEN menu_init /\ pc' = back ELSE Stay /\ UNCHANGED state
  /\ UNCHANGED <<dirVars, fileVars, fselVars>>

\* One line or one page up, then one down, as far as the keys say.
Up == IF ~Pressed("UP") THEN [y |-> menu_y, start |-> fsel_pagestart, page |-> FALSE]
      ELSE IF menu_y > 0 THEN [y |-> menu_y - 1, start |-> fsel_pagestart, page |-> FALSE]
      ELSE IF fsel_pagestart # 0
      THEN [y |-> FSEL_NLINES - 1, page |-> TRUE,
            start |-> (fsel_pagestart - (FSEL_PAGESIZE - 1)) % UINT8]
      ELSE [y |-> 0, start |-> 0, page |-> FALSE]
Down(up) ==
  IF ~Pressed("DN") THEN up
  ELSE IF up.y < FSEL_NLINES - 1 THEN [up EXCEPT !.y = @ + 1]
  ELSE IF fsel_hasnextpage = 1
  THEN [y |-> 0, page |-> TRUE, start |-> (up.start + FSEL_PAGESIZE - 1) % UINT8]
  ELSE up
\* (menu_x - 1) % 2 is negative at the left column, and menu_x a byte.
Left(x) == IF ~Pressed("LT") THEN x ELSE IF x = 0 THEN 255 ELSE (x - 1) % 2
Right(x) == IF ~Pressed("RT") THEN x ELSE (x + 1) % 2

InFsel ==
  /\ state = "FSEL"
  /\ LET to == Down(Up)
     IN /\ menu_y' = to.y /\ fsel_pagestart' = to.start
        /\ IF fsel_redraw = 1 \/ to.page THEN Trace("list", <<VECTOR06>>)
           ELSE pc' = "mark" /\ UNCHANGED dirVars
  /\ fsel_redraw' = 0
  /\ menu_x' = Right(Left(menu_x)) /\ joy_status' = JOYSTICK
  /\ UNCHANGED <<state, menu_selected, fsel_hasnextpage, i, intact, screen, osdcmd, OSD_CMD, fileVars>>

\* The rest of STATE_FSEL, behind draw_fsel.
Mark ==
  /\ pc = "mark"
  /\ LET item == (menu_y * 2 + menu_x) % 256
     IN menu_selected' = item /\ MoveHighlight(menu_selected, item)
  /\ state' = IF "FIRE" \in joy_status THEN "WAITBREAK2" ELSE state
  /\ pc' = back
  /\ UNCHANGED <<userVars, cardVars, back, fs, winsect, dirVars, fileVars, joy_status, inactivity,
                 menu_x, menu_y, fselVars, slots, osdcmd, OSD_CMD>>

-----------------------------------------------------------------------------
(* What the list should hold: the images of VECTOR06, in its order.          *)

\* Entry p of the root directory, and of VECTOR06 in its clusters.
RootEntry(card, p) == Disk[card][Volume[card].dirbase + p \div ENTRIES][(p % ENTRIES) + 1]
HomeSize(card) == Len(Home[card]) * Volume[card].sects_clust * ENTRIES
HomeSector(card, n) ==
  LET v == Volume[card]
  IN clust2sect(v, Home[card][(n \div v.sects_clust) + 1]) + (n % v.sects_clust)
HomeEntry(card, p) == Disk[card][HomeSector(card, p \div ENTRIES)][(p % ENTRIES) + 1]

\* An entry never used ends a directory; "." and ".." begin VECTOR06.
RootUsed(card) == {p \in 0..(Volume[card].n_rootdir - 1) :
                     \A q \in 0..p : RootEntry(card, q).name[1] # 0}
HomeUsed(card) == {p \in 2..(HomeSize(card) - 1) :
                     \A q \in 2..p : HomeEntry(card, q).name[1] # 0}

Images(card) == {p \in HomeUsed(card) : IsImage(HomeEntry(card, p))}
ImagesBefore(card, p) == Cardinality({q \in Images(card) : q < p})
\* The items of the lists, each with its number.
Items == UNION {{[card |-> card, n |-> ImagesBefore(card, p), name |-> HomeEntry(card, p).name] :
                   p \in Images(card)} : card \in DOMAIN Volume}
Listing(card) == {it \in Items : it.card = card}
Listed(card, n) == \E it \in Listing(card) : it.n = n
ItemAt(card, n) == CHOOSE it \in Listing(card) : it.n = n

\* Names in ASCII, padded, with nothing in them that make_dirfile refuses or takes
\* for the end of a segment ('/', 47).
Plain == {c \in 33..126 : ~Rejected(c) /\ c \notin {DOT, 47} /\ Upper(c) = c}
ShortName(name) ==
  /\ name \in Seq(0..255) /\ Len(name) = 11
  /\ \E b \in 1..8, x \in 0..3 : \A k \in 1..11 :
       IF k <= b \/ k \in 9..(8 + x) THEN name[k] \in Plain ELSE name[k] = SPACE

\* A card that is mounted has its directories whole and its clusters linked; VECTOR06
\* is in the root once; images have names of their own, and no file has the name
\* that the title would spell.
HasSectors(card) ==
  LET v == Volume[card]
  IN /\ v.dirbase \in Nat \ {0} /\ v.database \in Nat \ {0} /\ v.max_clust \in Nat
     /\ v.sects_clust \in Nat \ {0} /\ v.n_rootdir \in Nat \ {0} /\ v.n_rootdir % ENTRIES = 0
     /\ \A p \in 0..(v.n_rootdir - 1) : v.dirbase + p \div ENTRIES \in DOMAIN Disk[card]
     /\ \A p \in 0..(HomeSize(card) - 1) : HomeSector(card, p \div ENTRIES) \in DOMAIN Disk[card]
IsLinked(card) ==
  LET v == Volume[card]
  IN /\ Home[card] \in Seq(2..(v.max_clust - 1))
     /\ \A k \in DOMAIN Home[card] :
          LET link == Link[card][Home[card][k]]
          IN IF k < Len(Home[card]) THEN link = Home[card][k + 1] ELSE ~InUse(v, link)
HasHome(card) ==
  LET homes == {p \in RootUsed(card) : IsValid(RootEntry(card, p)) /\ RootEntry(card, p).name = VECTOR06}
  IN IF Home[card] = <<>> THEN \A p \in homes : "DIR" \notin RootEntry(card, p).attr
     ELSE \E p \in homes : /\ homes = {p} /\ "DIR" \in RootEntry(card, p).attr
                           /\ RootEntry(card, p).clust = Home[card][1]
NamesDiffer(card) ==
  \A p \in Images(card) :
    /\ ShortName(HomeEntry(card, p).name)
    /\ \A q \in HomeUsed(card) : HomeEntry(card, q).name = HomeEntry(card, p).name => q = p
TitleNamesNone(card) ==
  \A s \in DOMAIN Title, p \in HomeUsed(card) :
    HomeEntry(card, p).name # make_dirfile(UpToSpace(Title[s]))
ASSUME CardsAssumption ==
  \A card \in DOMAIN Volume :
    HasSectors(card) /\ IsLinked(card) /\ HasHome(card) /\ NamesDiffer(card) /\ TitleNamesNone(card)

InWaitBreak2 ==
  /\ state = "WAITBREAK2"
  /\ IF Pressed("FIRE")
     THEN Stay /\ UNCHANGED <<state, fileVars>>
     ELSE LET n == fsel_pagestart + menu_selected
          IN /\ ptrfile' = fsel_getselected
             /\ menu_init /\ pc' = "away"
             /\ chosen' = IF intact /\ InList(menu_selected) /\ Listed(fs, n)
                          THEN <<fs, ItemAt(fs, n).name>> ELSE <<>>
             /\ UNCHANGED <<first, opened>>
  /\ UNCHANGED <<dirVars, fselVars>>

Act ==
  /\ pc = "act"
  /\ inactivity' = INACTIVITY
  /\ \/ InMenu \/ InWaitBreak \/ InWaitBreak2 \/ InAbout \/ InFsel
  /\ UNCHANGED <<userVars, cardVars, back, fs, winsect>>

-----------------------------------------------------------------------------
(* The user.  The firmware looks at JOYSTICK only in Look and in Act.        *)

Touch ==
  /\ pc \in {"look", "act"} /\ keys < MaxKeys
  /\ JOYSTICK' \in Keys \ {JOYSTICK} /\ keys' = keys + 1
  /\ UNCHANGED <<cardVars, pc, back, fs, winsect, dirVars, menuVars, fileVars>>

Swap ==
  /\ swaps < MaxSwaps
  /\ slot' \in IF slot = "none" THEN Cards ELSE {"none"}
  /\ live' = FALSE /\ swaps' = swaps + 1
  /\ UNCHANGED <<userVars, faults, pc, back, fs, winsect, dirVars, menuVars, fileVars>>

Firmware == Mount \/ TraceTurn \/ f_open \/ ReadTurn \/ Poll \/ Away \/ Look \/ Act \/ EndPulse \/ Mark
MenuNext == Firmware \/ Touch \/ Swap
MenuSpec == MenuInit /\ [][MenuNext]_allVars
\* The firmware runs on.  One of its steps is always possible, so that this says
\* what WF_allVars(Firmware) does, and is cheaper to check.
MenuFairSpec == MenuSpec /\ []<><<keys' = keys /\ swaps' = swaps>>_allVars

-----------------------------------------------------------------------------
(* Properties.                                                              *)

Drawing == pc \in {"trace", "read", "mark"} /\ task \in {"list", "skip", "show"}
ListUp == state \in {"FSEL", "WAITBREAK2"} /\ fsel_redraw = 0 /\ ~Drawing

\* Indices, columns and pages stay what the display and the code have room for.
MenuTypeOK ==
  /\ menu_x \in {0, 1, 2, 255} /\ menu_y \in 0..Max({2, FSEL_NLINES - 1})
  /\ menu_selected \in 0..255 /\ fsel_pagestart \in 0..(UINT8 - 1) /\ i \in 0..(UINT8 - 1)
  /\ \A s \in Slots : Len(slots[s]) = 12 /\ inverted \subseteq Slots
  /\ osdcmd \subseteq {"hold"} /\ (pc # "pulse" => OSD_CMD = osdcmd)
  /\ inactivity \in 0..INACTIVITY /\ state \in {"MENU", "WAITBREAK", "ABOOT", "ABOOT2", "FSEL", "WAITBREAK2"}
  /\ (pc \in {"trace", "read"} => fs \in Cards /\ (dir.sect = 0 \/ dir.sect \in DOMAIN disk))

\* The list on the screen is a page of the images of the directory, in their
\* order, and "next page" is offered exactly when there is more, or may be.
IsPage(card) ==
  /\ fsel_pagestart = 0 \/ fsel_pagestart < Cardinality(Listing(card))
  /\ \A s \in 0..(FSEL_PAGESIZE - 1) :
       slots[s] = IF Listed(card, fsel_pagestart + s)
                  THEN strxcpy(get_fileinfo(ItemAt(card, fsel_pagestart + s).name)) ELSE Blank
  /\ fsel_hasnextpage = 1 <=> fsel_pagestart + FSEL_PAGESIZE <= Cardinality(Listing(card))
PageShown == MenuTypeOK /\ (ListUp /\ intact => IsPage(fs))

\* What is highlighted is what FIRE would choose, through moves, pages and
\* failed redraws.
HighlightIsSelection ==
  ListUp => inverted \cap 0..(FSEL_PAGESIZE - 1)
              = {fsel_index2offs(menu_selected)} \cap 0..(FSEL_PAGESIZE - 1)

\* The image served after a choice is the one that was highlighted, as long as
\* its card is the one it is read from.
ChosenIsOpened ==
  pc = "serve" /\ chosen # <<>> /\ chosen[1] = opened[1] => opened = chosen

\* An image served is in the directory of its card.
OpenedIsListed ==
  pc = "serve" => \E it \in Items : it.card = opened[1] /\ it.name = opened[2]

\* A file list left alone is closed.
ListCloses == state = "FSEL" ~> state # "FSEL"
=============================================================================
