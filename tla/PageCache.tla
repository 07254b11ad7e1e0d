------------------------------ MODULE PageCache ------------------------------
(***************************************************************************)
(* The paged file system of src/fs: Filesystem, File and BufferManager.    *)
(*                                                                         *)
(* All the files of one Filesystem share one cache of at most BUFFER_MAX   *)
(* frames: `pages' lists the frames, most recently used first, and         *)
(* `buffer_map' finds the frame of a page.  File::get_page serves a page   *)
(* from the cache or reads it into a new frame, or into the frame of the   *)
(* least recently used page, whose content it writes back when dirty.      *)
(* Callers work on the frame through the pointer get_page returned.        *)
(*                                                                         *)
(* A file is named by the member of Files it is on disk: a name is open at *)
(* most once at a time, so the number Filesystem::open_file gives an open  *)
(* file adds nothing.  Page contents are members of Values.                *)
(***************************************************************************)
EXTENDS Naturals, Sequences, FiniteSets

CONSTANTS Files,        \* names of files on disk
          PAGES,        \* the page numbers users ask for
          Values,       \* contents of a page
          Absent,       \* content of a page that was never written to disk
          Nil,          \* no file, a null pointer, memory that is freed
          BUFFER_MAX    \* the most frames the cache holds

ASSUME BufferMaxAssumption == BUFFER_MAX \in Nat \ {0}
ASSUME PagesAssumption == PAGES \subseteq Nat
ASSUME ValuesAssumption == Values # {} /\ Absent \notin Values
ASSUME FilesAssumption == Files # {} /\ Nil \notin Files

VARIABLES
  disk,        \* the files' pages as the disk holds them
  frame,       \* the BufferPage objects, Nil the ones that are deleted
  pages,       \* the frames in the cache, most recently used first
  buffer_map,  \* the cached pages and the frame of each
  open,        \* the files that are open
  used_pages,  \* the pages of each open file asked for since it was opened
  closing,     \* the file whose close() is running, or Nil
  phase,       \* of the process: running, in the destructor, ended, crashed
  handle,      \* the frame the last get_page of a page returned
  since        \* the pages asked for since then (history, read by no action
               \* but the callers' promise to use a pointer soon)

cache  == <<frame, pages, buffer_map>>
client == <<handle, since>>
vars   == <<disk, frame, pages, buffer_map, open, used_pages, closing, phase,
            handle, since>>

PageIds == Files \X PAGES
Frames  == 1 .. BUFFER_MAX

BufferPage == [file : Files, page : PAGES, dirty : BOOLEAN, data : Values]

ASSUME NilAssumption == Nil \notin Frames \cup BufferPage

PageOf(fr) == <<frame[fr].file, frame[fr].page>>
Cached     == DOMAIN buffer_map

\* Page x was asked for since its file was opened.
InUse(x) == x[1] \in open /\ x[2] \in used_pages[x[1]]

\* Every variable has its type: frames hold pages of files, the map leads to
\* frames, only an open file is being closed.
TypeOK ==
  /\ disk \in [PageIds -> Values \cup {Absent}]
  /\ frame \in [Frames -> BufferPage \cup {Nil}]
  /\ pages \in Seq(Frames)
  /\ Cached \subseteq PageIds
  /\ buffer_map \in [Cached -> Frames]
  /\ open \subseteq Files
  /\ used_pages \in [Files -> SUBSET PAGES]
  /\ closing \in open \cup {Nil}
  /\ phase \in {"up", "exiting", "down", "crashed"}
  /\ handle \in [PageIds -> Frames \cup {Nil}]
  /\ since \in [PageIds -> SUBSET PageIds]

\* A process starts with no open file and an empty cache.
EmptyMemory ==
  /\ frame' = [fr \in Frames |-> Nil]
  /\ pages' = << >>
  /\ buffer_map' = [x \in {} |-> 1]
  /\ open' = {}
  /\ used_pages' = [n \in Files |-> {}]
  /\ closing' = Nil
  /\ handle' = [x \in PageIds |-> Nil]
  /\ since' = [x \in PageIds |-> {}]

Init ==
  /\ disk = [x \in PageIds |-> Absent]
  /\ frame = [fr \in Frames |-> Nil]
  /\ pages = << >>
  /\ buffer_map = [x \in {} |-> 1]
  /\ open = {}
  /\ used_pages = [n \in Files |-> {}]
  /\ closing = Nil
  /\ phase = "up"
  /\ handle = [x \in PageIds |-> Nil]
  /\ since = [x \in PageIds |-> {}]
-----------------------------------------------------------------------------
\* Lists without repetition, as std::list is used here.

PositionIn(s, x) == CHOOSE i \in 1 .. Len(s) : s[i] = x

Without(s, x) ==
  LET k == PositionIn(s, x)
  IN  [i \in 1 .. Len(s) - 1 |-> IF i < k THEN s[i] ELSE s[i + 1]]

PushFront(s, x) == [i \in 1 .. Len(s) + 1 |-> IF i = 1 THEN x ELSE s[i - 1]]

ToFront(s, x) == PushFront(Without(s, x), x)

WithoutKey(f, x) == [y \in DOMAIN f \ {x} |-> f[y]]
WithKey(f, x, v) == [y \in DOMAIN f \cup {x} |-> IF y = x THEN v ELSE f[y]]
-----------------------------------------------------------------------------
\* read_page without fseek: what lies where the last access ended.
read_page_NoSeek(x, fr) ==
  \E data \in Values :
     frame' = [frame EXCEPT ![fr] = [file |-> x[1], page |-> x[2],
                                     dirty |-> FALSE, data |-> data]]

(***************************************************************************)
(* Reading page x into frame fr.  A page the disk does not hold leaves the  *)
(* frame with whatever it held: fread past the end of the file reads        *)
(* nothing, a new frame is uninitialised memory and a recycled one holds    *)
(* another page (a hole in the file reads as zeros).                        *)
(***************************************************************************)
read_page(x, fr) ==
  \E data \in Values :
     /\ disk'[x] # Absent => data = disk'[x]
     /\ frame' = [frame EXCEPT ![fr] = [file |-> x[1], page |-> x[2],
                                        dirty |-> FALSE, data |-> data]]

\* Hit that leaves the frame where it is in the list.
Hit_NoMove(x) ==
  /\ x \in Cached
  /\ handle' = [handle EXCEPT ![x] = buffer_map[x]]
  /\ UNCHANGED <<disk, frame, pages, buffer_map>>

\* The page is cached: its frame moves to the front.
Hit(x) ==
  /\ x \in Cached
  /\ pages' = ToFront(pages, buffer_map[x])
  /\ handle' = [handle EXCEPT ![x] = buffer_map[x]]
  /\ UNCHANGED <<disk, frame, buffer_map>>

\* A frame to allocate: memory that is not in use.
Unused(fr) == frame[fr] = Nil /\ \A g \in Frames : g < fr => frame[g] # Nil

\* There is room: a new frame.
AllocNew(x) ==
  /\ Len(pages) < BUFFER_MAX
  /\ \E fr \in Frames :
       /\ Unused(fr)
       /\ UNCHANGED disk
       /\ read_page(x, fr)
       /\ pages' = PushFront(pages, fr)
       /\ buffer_map' = WithKey(buffer_map, x, fr)
       /\ handle' = [handle EXCEPT ![x] = fr]

\* AllocEvict that leaves the page it evicts in the map.
AllocEvict_KeepsKey(x) ==
  LET fr == pages[Len(pages)]
      at == <<x[1], frame[fr].page>>
  IN  /\ Len(pages) = BUFFER_MAX
      /\ disk' = IF frame[fr].dirty THEN [disk EXCEPT ![at] = frame[fr].data] ELSE disk
      /\ read_page(x, fr)
      /\ pages' = ToFront(pages, fr)
      /\ buffer_map' = WithKey(buffer_map, x, fr)
      /\ handle' = [handle EXCEPT ![x] = fr]

(***************************************************************************)
(* The cache is full: the frame at the back of the list is recycled.  Its   *)
(* content is written by the File that asks for x: through that file's      *)
(* descriptor, at the offset of the page the frame held.                    *)
(***************************************************************************)
AllocEvict(x) ==
  LET fr == pages[Len(pages)]
      at == <<x[1], frame[fr].page>>
  IN  /\ Len(pages) = BUFFER_MAX
      /\ disk' = IF frame[fr].dirty THEN [disk EXCEPT ![at] = frame[fr].data]
                                    ELSE disk
      /\ read_page(x, fr)
      /\ pages' = ToFront(pages, fr)
      /\ buffer_map' = WithKey(WithoutKey(buffer_map, PageOf(fr)), x, fr)
      /\ handle' = [handle EXCEPT ![x] = fr]

\* get_page that does not record a page asked for with bypass.
get_page_BypassUnrecorded(x, bypass) ==
  /\ phase = "up"
  /\ closing = Nil
  /\ x[1] \in open
  /\ used_pages' = IF bypass THEN used_pages ELSE [used_pages EXCEPT ![x[1]] = @ \cup {x[2]}]
  /\ \/ ~ bypass /\ Hit(x)
     \/ (bypass \/ x \notin Cached) /\ (AllocNew(x) \/ AllocEvict(x))
  /\ since' = [y \in PageIds |-> IF y # x /\ InUse(y) THEN since[y] \cup {x} ELSE {}]
  /\ UNCHANGED <<open, closing, phase>>

\* File::get_page: with `bypass' the cache is not searched.
get_page(x, bypass) ==
  /\ phase = "up"
  /\ closing = Nil
  /\ x[1] \in open
  /\ used_pages' = [used_pages EXCEPT ![x[1]] = @ \cup {x[2]}]
  /\ \/ ~ bypass /\ Hit(x)
     \/ (bypass \/ x \notin Cached) /\ (AllocNew(x) \/ AllocEvict(x))
  /\ since' = [y \in PageIds |-> IF y # x /\ InUse(y) THEN since[y] \cup {x} ELSE {}]
  /\ UNCHANGED <<open, closing, phase>>

\* The callers' side of the contract: bypass only for a page that is not cached.
GetPage(x) == \E bypass \in BOOLEAN : (bypass => x \notin Cached) /\ get_page(x, bypass)

\* A pointer is used before BUFFER_MAX other pages are asked for.
UsedSoon(x) == Cardinality(since[x]) < BUFFER_MAX

\* A caller changes a page through the pointer it got and marks it dirty.
WritePage(x, v) ==
  /\ phase = "up"
  /\ closing = Nil
  /\ InUse(x)
  /\ UsedSoon(x)
  /\ frame' = [frame EXCEPT ![handle[x]].data = v, ![handle[x]].dirty = TRUE]
  /\ UNCHANGED <<disk, pages, buffer_map, open, used_pages, closing, phase, client>>
-----------------------------------------------------------------------------
\* Filesystem::open_file.
OpenFile(n) ==
  /\ phase = "up"
  /\ closing = Nil
  /\ n \notin open
  /\ open' = open \cup {n}
  /\ used_pages' = [used_pages EXCEPT ![n] = {}]
  /\ UNCHANGED <<disk, cache, closing, phase, client>>

\* BeginClose of a file that may be closed already.
BeginClose_Twice(n) ==
  /\ phase \in {"up", "exiting"}
  /\ closing = Nil
  /\ closing' = n
  /\ UNCHANGED <<disk, cache, open, used_pages, phase, client>>

\* File::close, called by a user or by the destructor of Filesystem.
BeginClose(n) ==
  /\ phase \in {"up", "exiting"}
  /\ closing = Nil
  /\ n \in open
  /\ closing' = n
  /\ UNCHANGED <<disk, cache, open, used_pages, phase, client>>

\* CloseNextPage that frees the frame of a dirty page without writing it.
CloseNextPage_NoWrite ==
  /\ closing # Nil
  /\ \E p \in used_pages[closing] :
       LET x == <<closing, p>>
       IN  /\ \A q \in used_pages[closing] : p <= q
           /\ IF x \in Cached
                THEN /\ pages' = Without(pages, buffer_map[x])
                     /\ buffer_map' = WithoutKey(buffer_map, x)
                     /\ frame' = [frame EXCEPT ![buffer_map[x]] = Nil]
                ELSE UNCHANGED cache
           /\ used_pages' = [used_pages EXCEPT ![closing] = @ \ {p}]
           /\ handle' = [handle EXCEPT ![x] = Nil]
           /\ since' = [since EXCEPT ![x] = {}]
  /\ UNCHANGED <<disk, open, closing, phase>>

(***************************************************************************)
(* One round of the loop of File::close, for the least page of used_pages:  *)
(* the frame of the page, if it is cached, leaves the cache and is written  *)
(* when it is dirty.                                                        *)
(***************************************************************************)
CloseNextPage ==
  /\ closing # Nil
  /\ \E p \in used_pages[closing] :
       LET x == <<closing, p>>
       IN  /\ \A q \in used_pages[closing] : p <= q
           /\ IF x \in Cached
                THEN LET fr == buffer_map[x]
                     IN  /\ disk' = IF frame[fr].dirty
                                      THEN [disk EXCEPT ![x] = frame[fr].data]
                                      ELSE disk
                         /\ pages' = Without(pages, fr)
                         /\ buffer_map' = WithoutKey(buffer_map, x)
                         /\ frame' = [frame EXCEPT ![fr] = Nil]
                ELSE UNCHANGED <<disk, cache>>
           /\ used_pages' = [used_pages EXCEPT ![closing] = @ \ {p}]
           /\ handle' = [handle EXCEPT ![x] = Nil]
           /\ since' = [since EXCEPT ![x] = {}]
  /\ UNCHANGED <<open, closing, phase>>

EndClose ==
  /\ closing # Nil
  /\ used_pages[closing] = {}
  /\ open' = open \ {closing}
  /\ closing' = Nil
  /\ UNCHANGED <<disk, cache, used_pages, phase, client>>

\* The destructor of Filesystem runs at the end of the process: it closes the
\* open files, and serves no more requests.
BeginExit ==
  /\ phase = "up"
  /\ closing = Nil
  /\ phase' = "exiting"
  /\ UNCHANGED <<disk, cache, open, used_pages, closing, client>>

\* EndExit of a destructor that closes nothing.
EndExit_LeavesOpen ==
  /\ phase = "exiting"
  /\ phase' = "down"
  /\ UNCHANGED <<disk, cache, open, used_pages, closing, client>>

EndExit ==
  /\ phase = "exiting"
  /\ open = {}
  /\ phase' = "down"
  /\ UNCHANGED <<disk, cache, open, used_pages, closing, client>>

\* The process dies: what was not written to disk is gone.
Crash ==
  /\ phase \in {"up", "exiting"}
  /\ phase' = "crashed"
  /\ EmptyMemory
  /\ UNCHANGED disk

Start ==
  /\ phase \in {"down", "crashed"}
  /\ phase' = "up"
  /\ EmptyMemory
  /\ UNCHANGED disk

Next ==
  \/ \E x \in PageIds : GetPage(x)
  \/ \E x \in PageIds, v \in Values : WritePage(x, v)
  \/ \E n \in Files : OpenFile(n) \/ BeginClose(n)
  \/ CloseNextPage \/ EndClose
  \/ BeginExit \/ EndExit \/ Crash \/ Start

Spec == Init /\ [][Next]_vars

\* The destructor of Filesystem closes one open file after the other.
ExitCloses == phase = "exiting" /\ \E n \in Files : BeginClose(n)

\* A close and the destructor wait for nothing: once begun, they go on.
FairSpec ==
  /\ Spec
  /\ WF_vars(CloseNextPage) /\ WF_vars(EndClose)
  /\ WF_vars(ExitCloses) /\ WF_vars(EndExit)
-----------------------------------------------------------------------------
(***************************************************************************)
(* The list and the map of the BufferManager describe one cache: no frame   *)
(* is listed twice, every listed frame is the one the map finds for its     *)
(* page, so no page has two frames, and memory that is not listed is free.  *)
(* BufferManager::get_buffer, alloc_buffer and release_buffer each change   *)
(* both.                                                                    *)
(***************************************************************************)
CacheCoherent ==
  /\ Len(pages) <= BUFFER_MAX
  /\ \A i, j \in 1 .. Len(pages) : pages[i] = pages[j] => i = j
  /\ \A i \in 1 .. Len(pages) : /\ frame[pages[i]] # Nil
                                /\ PageOf(pages[i]) \in Cached
                                /\ buffer_map[PageOf(pages[i])] = pages[i]
  /\ \A x \in Cached : /\ \E i \in 1 .. Len(pages) : pages[i] = buffer_map[x]
                       /\ PageOf(buffer_map[x]) = x
  /\ \A fr \in Frames : frame[fr] # Nil => \E i \in 1 .. Len(pages) : pages[i] = fr

(***************************************************************************)
(* File::close writes back the pages of used_pages only, and it misses      *)
(* nothing: the cache holds no page of a file that is closed, and none that *)
(* an open file did not record.                                             *)
(***************************************************************************)
CloseReachesEveryPage ==
  \A x \in Cached : InUse(x)

(***************************************************************************)
(* The promise of a least-recently-used cache to the holder of a pointer    *)
(* (File.h: use it soon, lest it is swapped out): a page stays in the frame *)
(* get_page returned until BUFFER_MAX other pages have been asked for.      *)
(***************************************************************************)
PointerStaysGood ==
  \A x \in PageIds :
     InUse(x) /\ UsedSoon(x)
       => x \in Cached /\ buffer_map[x] = handle[x]

(***************************************************************************)
(* A dirty page that leaves the cache leaves its content on the disk        *)
(* (BufferPage.h), whatever file asked for its frame, or was closed.        *)
(***************************************************************************)
DirtyPageReachesDisk ==
  [][\A x \in Cached : LET fr == buffer_map[x]
                       IN  x \notin DOMAIN buffer_map' /\ phase' # "crashed"
                             /\ frame[fr].dirty
                           => disk'[x] = frame[fr].data]_vars

(***************************************************************************)
(* A cached page nobody changed shows what the disk holds, so it may be     *)
(* dropped without a write: true only while no write-back of another page   *)
(* lands on it.                                                             *)
(***************************************************************************)
CleanPageMatchesDisk ==
  \A x \in Cached : LET b == frame[buffer_map[x]]
                   IN  ~ b.dirty /\ disk[x] # Absent => b.data = disk[x]

\* The page store the cache implements: a page is what its dirty frame holds,
\* or what the disk does.
LastWritten ==
  [x \in PageIds |-> IF x \in Cached /\ frame[buffer_map[x]].dirty
                       THEN frame[buffer_map[x]].data
                       ELSE disk[x]]

Store == INSTANCE PageStore WITH store <- LastWritten, stable <- disk

(***************************************************************************)
(* The cache is a page store: reading, evicting and closing change the      *)
(* content of no page, content reaches the disk unaltered, and a clean exit *)
(* leaves every page on the disk.                                           *)
(***************************************************************************)
ImplementsPageStore == Store!Spec

(***************************************************************************)
(* The destructor comes to its end, and then every page is on the disk as   *)
(* it was when it began, unless the process dies meanwhile                  *)
(* (Filesystem::~Filesystem, which closes every file).                      *)
(***************************************************************************)
ExitSavesEverything ==
  \A x \in PageIds, v \in Values :
     phase = "exiting" /\ LastWritten[x] = v
       ~> phase = "crashed" \/ (phase = "down" /\ disk[x] = v)
=============================================================================
