------------------------------ MODULE UserList ------------------------------
(***************************************************************************)
(* The list of users under "New Message": NewMessageController with its    *)
(* search, the cells that UITableView uses again and again, and the        *)
(* picture each of them loads through the vendored SDWebImage.             *)
(*                                                                         *)
(* Lists, cells and callbacks live on the main queue; the disk cache is    *)
(* read on another one, downloads end and are decoded on others still, and *)
(* what they found comes back as blocks of the main queue.                 *)
(***************************************************************************)
EXTENDS Integers, Selection

CONSTANTS
    Directory,     \* the answer of Service.fetchUsers
    NoPicture,     \* users whose profileImageUrl is no URL
    Nobody,
    Texts,         \* what can be typed, and "" for no search
    Hits,          \* Hits[t]: users whose username or fullname contains t,
                   \*   in lower case
    Cells,         \* the cells of the table
    Height,        \* how many rows the screen has room for
    MaxMoves,      \* bound: changes of the text, scrolls, memory warnings
    MaxDownloads,  \* bound: download operations at a time
    MaxFailures    \* bound: downloads that fail

Users == {Directory[i] : i \in DOMAIN Directory}

ASSUME UsersAssumption ==
    /\ Directory \in Seq(Users)
    /\ Nobody \notin Users
    /\ NoPicture \subseteq Users
ASSUME SearchAssumption == "" \in Texts /\ Hits \in [Texts -> SUBSET Users]
ASSUME SizesAssumption ==
    /\ IsFiniteSet(Cells)
    /\ Height \in 1..Cardinality(Cells)
    /\ MaxMoves \in Nat /\ MaxDownloads \in Nat \ {0} /\ MaxFailures \in Nat

(* A picture is named after its user: every upload has a name of its own.  *)
Pictures == Users \cup {Nobody}

Results == {"image", "blocked", "error"}

(* Blocks of the main queue.  A cancelled load is taken out of them: they  *)
(* still run, and leave its cell alone.                                    *)
Blocks ==
         [kind : {"found"}, cell : Cells, hit : BOOLEAN]
    \cup [kind : {"loaded"}, url : Users, cells : SUBSET Cells, result : Results]

VARIABLES
    users,      \* NewMessageController.users
    text,       \* what is typed in the search bar
    filtered,   \* NewMessageController.filteredUsers
    top,        \* the first row on screen
    row,        \* row[c]: where cell c is on screen, or 0
    todo,       \* rows on screen that have no cell yet
    pics,       \* cells with their pictures, and SDWebImage (see Pics)
    joining,    \* the cell whose callback the main queue is about to add to
                \*   the download entered for its URL, if it is at that
    missed,     \* cells whose callback came after those were called
    moves, failures

vars == <<users, text, filtered, top, row, todo, pics, joining, missed, moves,
          failures>>

Phases == {"free", "running", "calling", "finished"}

Pics == [
    \* UserCell: user, what the image view shows, and its load operation
    cell : [Cells -> [user : Pictures, image : Pictures, url : Pictures,
                      stage : {"none", "query", "answer", "download"}]],
    \* SDWebImageDownloader: URLOperations and the operations, the callbacks
    \* of each split into those that are called already and those that are not
    ops : [1..MaxDownloads -> [url : Pictures, waiting : SUBSET Cells,
                               called : SUBSET Cells, phase : Phases]],
    operationOf : [Users -> 0..MaxDownloads],
    \* SDImageCache and its ioQueue, SDWebImageManager.failedURLs
    cache : [Users -> {"none", "disk", "memory"}],
    io : Seq([cell : Cells, hit : BOOLEAN]),
    failed : SUBSET Users,
    main : Seq(Blocks)]

-----------------------------------------------------------------------------
(* SDWebImage.                                                             *)

Forget(blocks, c) ==
    LET kept == Select(blocks, {i \in DOMAIN blocks : \/ blocks[i].kind = "loaded"
                                                      \/ blocks[i].cell # c})
    IN  [i \in DOMAIN kept |->
            IF kept[i].kind = "loaded" THEN [kept[i] EXCEPT !.cells = @ \ {c}]
                                       ELSE kept[i]]

NoOperation == [url |-> Nobody, waiting |-> {}, called |-> {}, phase |-> "free"]

Ended(op) == [op EXCEPT !.waiting = {}, !.called = {}, !.phase = "finished"]

(* The operation without the callback of this cell.                        *)
Left(op, c) ==
    IF c \in op.waiting THEN [op EXCEPT !.waiting = @ \ {c}]
                        ELSE [op EXCEPT !.called = @ \ {c}]

(* The download that would be told of a cancellation by this cell.         *)
OperationOf(p, c) ==
    IF p.cell[c].stage = "download" THEN p.operationOf[p.cell[c].url] ELSE 0

(* The load of a cell ends; the download op is left as said.  One that     *)
(* Completed has taken out of URLOperations is not told, but what it calls *)
(* back then does nothing.                                                 *)
CancelWith(p, c, op, left) ==
    [p EXCEPT
        !.cell[c].stage = "none",
        !.io = Select(p.io, {i \in DOMAIN p.io : p.io[i].cell # c}),
        !.main = Forget(p.main, c),
        !.ops = [i \in DOMAIN p.ops |->
                    IF i = op THEN left
                    ELSE [p.ops[i] EXCEPT !.waiting = @ \ {c}]],
        !.operationOf = IF op # 0 /\ left.phase = "finished"
                        THEN [p.operationOf EXCEPT ![p.cell[c].url] = 0] ELSE @]

(* Variants: an earlier load goes on; it is ended for all who share it.    *)
CancelNone(p, c) == p

CancelForAll(p, c) ==
    LET op == OperationOf(p, c)
    IN  CancelWith(p, c, op, IF op = 0 THEN NoOperation ELSE Ended(p.ops[op]))

(* The load of a cell is cancelled: its question to the disk and what has  *)
(* been found for it are passed over, and the download of its URL ends if  *)
(* that has no other callback.                                             *)
Cancel(p, c) ==
    LET op   == OperationOf(p, c)
        left == IF op = 0 THEN NoOperation ELSE Left(p.ops[op], c)
    IN  CancelWith(p, c, op,
                   IF op # 0 /\ left.waiting \cup left.called = {}
                   THEN Ended(left) ELSE left)

(* sd_setImage(with:): an empty picture at once, then the memory cache,    *)
(* then the disk, unless the URL is known to be bad.  The disk is written  *)
(* and read on one queue: what counts is what has been stored by now.      *)
SetImage(p, c, url) ==
    LET empty == [Cancel(p, c) EXCEPT !.cell[c].image = Nobody,
                                      !.cell[c].url = url]
    IN  CASE url \in p.failed -> empty
          [] url \notin p.failed /\ p.cache[url] = "memory" ->
                [empty EXCEPT !.cell[c].image = url]
          [] OTHER ->
                [empty EXCEPT !.cell[c].stage = "query",
                              !.io = Append(@, [cell |-> c,
                                                hit |-> p.cache[url] = "disk"])]

(* UserCell.configure.                                                     *)
Configure(p, c, user) ==
    LET named == [p EXCEPT !.cell[c].user = user]
    IN  IF user \in NoPicture THEN named ELSE SetImage(named, c, user)

(* A download of this URL that is not over is shared, even one that has    *)
(* called its callbacks already (downloadImage(with:), the check).         *)
Joins(p, url) ==
    p.operationOf[url] # 0 /\ p.ops[p.operationOf[url]].phase # "finished"

FreeOps(p) == {i \in DOMAIN p.ops : p.ops[i].phase = "free"}

Least(S) == CHOOSE i \in S : \A j \in S : i <= j

(* A new download has its callback before it is known to any other thread. *)
Download(p, c, url) ==
    LET wanted == [p EXCEPT !.cell[c].stage = "download"]
        i == Least(FreeOps(p))
    IN  IF Joins(p, url) THEN wanted
        ELSE [wanted EXCEPT !.ops[i] = [url |-> url, waiting |-> {c},
                                        called |-> {}, phase |-> "running"],
                            !.operationOf[url] = i]

Shows(p, c, url) == [p EXCEPT !.cell[c].stage = "none", !.cell[c].image = url]

-----------------------------------------------------------------------------
(* NewMessageController.                                                   *)

InSearchMode(t) == t # ""

Filter(list, t) == Select(list, {i \in DOMAIN list : list[i] \in Hits[t]})

List(all, found, t) == IF InSearchMode(t) THEN found ELSE all

(* The rows on screen when the list starts at row k.                       *)
Window(list, k) ==
    k .. (IF Len(list) < k + Height - 1 THEN Len(list) ELSE k + Height - 1)

Clamp(list, k) ==
    LET last == Len(list) - Height + 1
    IN  IF last < 1 THEN 1 ELSE IF k > last THEN last ELSE k

(* The rows on screen from row k on; cells that left it can be used again. *)
(* The table asks for the missing ones when it is laid out.                *)
Show(list, k, rows) ==
    /\ top' = k
    /\ row' = rows
    /\ todo' = Window(list, k) \ {rows[c] : c \in Cells}

Reload(list) == Show(list, Clamp(list, top), [c \in Cells |-> 0])

Init ==
    /\ users = <<>>
    /\ text = ""
    /\ filtered = <<>>
    /\ top = 1
    /\ row = [c \in Cells |-> 0]
    /\ todo = {}
    /\ pics = [cell |-> [c \in Cells |-> [user |-> Nobody, image |-> Nobody,
                                          url |-> Nobody, stage |-> "none"]],
               ops |-> [i \in 1..MaxDownloads |-> NoOperation],
               operationOf |-> [u \in Users |-> 0],
               cache |-> [u \in Users |-> "none"],
               io |-> <<>>,
               failed |-> {},
               main |-> <<>>]
    /\ joining = {}
    /\ missed = {}
    /\ moves = 0
    /\ failures = 0

(* The main queue is between two blocks.                                   *)
MainQueue == joining = {} /\ UNCHANGED joining

(* Variant: the table is not told.                                         *)
FetchUsersQuietly ==
    /\ MainQueue
    /\ users = <<>>
    /\ users' = Directory
    /\ UNCHANGED <<text, filtered, top, row, todo, pics, missed, moves, failures>>

(* The users arrive; a search is not done again.                           *)
FetchUsers ==
    /\ MainQueue
    /\ users = <<>>
    /\ users' = Directory
    /\ Reload(List(Directory, filtered, text))
    /\ UNCHANGED <<text, filtered, pics, missed, moves, failures>>

Move == MainQueue /\ moves < MaxMoves /\ moves' = moves + 1

UpdateSearchResults(t) ==
    /\ Move
    /\ t # text
    /\ text' = t
    /\ filtered' = Filter(users, t)
    /\ Reload(List(users, filtered', t))
    /\ UNCHANGED <<users, pics, missed, failures>>

(* The first of the missing rows gets one of the cells not on screen, which*)
(* is told its user.                                                       *)
CellForRow(c) ==
    LET r    == Least(todo)
        user == List(users, filtered, text)[r]
    IN  /\ MainQueue
        /\ todo # {}
        /\ row[c] = 0
        /\ row' = [row EXCEPT ![c] = r]
        /\ todo' = todo \ {r}
        /\ pics' = Configure(pics, c, user)
        /\ missed' = IF user \in NoPicture THEN missed ELSE missed \ {c}
        /\ UNCHANGED <<users, text, filtered, top, moves, failures>>

(* Rows that stay keep their cells.                                        *)
Scroll(k) ==
    LET list == List(users, filtered, text)
        window == Window(list, k)
    IN  /\ Move
        /\ k # top /\ k = Clamp(list, k)
        /\ Show(list, k, [c \in Cells |-> IF row[c] \in window THEN row[c] ELSE 0])
        /\ UNCHANGED <<users, text, filtered, pics, missed, failures>>

-----------------------------------------------------------------------------
UI == <<users, text, filtered, top, row, todo>>

(* Pictures leave the memory cache, not the disk.  One that is shown is    *)
(* held weakly and may be found all the same.                              *)
MemoryWarning ==
    /\ Move
    /\ \E gone \in SUBSET {u \in Users : pics.cache[u] = "memory"} :
          pics' = [pics EXCEPT !.cache =
                      [u \in Users |-> IF u \in gone THEN "disk" ELSE pics.cache[u]]]
    /\ UNCHANGED <<UI, missed, failures>>

(* The next question to the disk; what is there is in memory again.        *)
ReadDisk ==
    /\ pics.io # <<>>
    /\ LET q == Head(pics.io)
       IN  pics' = [pics EXCEPT
               !.io = Tail(@),
               !.cell[q.cell].stage = "answer",
               !.cache[pics.cell[q.cell].url] = IF q.hit THEN "memory" ELSE @,
               !.main = Append(@, [kind |-> "found", cell |-> q.cell,
                                   hit |-> q.hit])]
    /\ UNCHANGED <<UI, joining, missed, moves, failures>>

Rest == [pics EXCEPT !.main = Tail(@)]

(* The answer of the disk cache.                                           *)
RunFound ==
    /\ joining = {} /\ pics.main # <<>>
    /\ Head(pics.main).kind = "found"
    /\ LET b == Head(pics.main)
           url == pics.cell[b.cell].url
       IN  /\ b.hit \/ Joins(pics, url) \/ FreeOps(pics) # {}
           /\ pics' = IF b.hit
                      THEN Shows(Rest, b.cell, url)
                      ELSE Download(Rest, b.cell, url)
           /\ joining' = IF ~b.hit /\ Joins(pics, url) THEN {b.cell} ELSE {}
    /\ UNCHANGED <<UI, missed, moves, failures>>

(* Its callback joins the download that was not over when it was checked.  *)
(* The lock held since then is URLOperations', not the download's: this    *)
(* may have called its callbacks meanwhile, or be over.                    *)
AddHandlers(c) ==
    LET op == pics.operationOf[pics.cell[c].url]
    IN  /\ c \in joining
        /\ joining' = {}
        /\ pics' = [pics EXCEPT !.ops[op].waiting = @ \cup {c}]
        /\ missed' = IF pics.ops[op].phase = "running" THEN missed
                                                       ELSE missed \cup {c}
        /\ UNCHANGED <<UI, moves, failures>>

(* The download is over, for better or worse: those who wait for it now    *)
(* are called from the main queue.                                         *)
CallCompletionBlocks(i, result) ==
    /\ pics.ops[i].phase = "running"
    /\ result # "image" => failures < MaxFailures
    /\ failures' = IF result = "image" THEN failures ELSE failures + 1
    /\ pics' = [pics EXCEPT
                   !.ops[i] = [pics.ops[i] EXCEPT !.waiting = {},
                                                  !.called = pics.ops[i].waiting,
                                                  !.phase = "calling"],
                   !.main = Append(@, [kind |-> "loaded", result |-> result,
                                       url |-> pics.ops[i].url,
                                       cells |-> pics.ops[i].waiting])]
    /\ UNCHANGED <<UI, joining, missed, moves>>

(* [self done], on the queue of the decoder: whoever joined meanwhile is   *)
(* forgotten.                                                              *)
Done(i) ==
    /\ pics.ops[i].phase = "calling"
    /\ pics' = [pics EXCEPT !.ops[i] = Ended(pics.ops[i])]
    /\ UNCHANGED <<UI, joining, missed, moves, failures>>

(* The completionBlock of an operation takes whatever operation is entered *)
(* for its URL out of URLOperations, under their lock.                     *)
Completed(i) ==
    /\ joining = {}
    /\ pics.ops[i].phase = "finished"
    /\ pics' = [pics EXCEPT !.ops[i] = NoOperation,
                            !.operationOf[pics.ops[i].url] = 0]
    /\ UNCHANGED <<UI, joining, missed, moves, failures>>

(* Those called back that are not cancelled: the picture is kept and       *)
(* shown, or the URL is kept as a bad one.                                 *)
RunLoaded ==
    /\ MainQueue /\ pics.main # <<>>
    /\ Head(pics.main).kind = "loaded"
    /\ LET b == Head(pics.main)
       IN  pics' = [Rest EXCEPT
               !.cell = [c \in Cells |->
                   IF c \notin b.cells THEN pics.cell[c]
                   ELSE [pics.cell[c] EXCEPT
                            !.stage = "none",
                            !.image = IF b.result = "image" THEN b.url ELSE @]],
               !.cache[b.url] = IF b.result = "image" /\ b.cells # {}
                                THEN "memory" ELSE @,
               !.failed = IF b.result = "blocked" /\ b.cells # {}
                          THEN @ \cup {b.url} ELSE @]
    /\ UNCHANGED <<UI, missed, moves, failures>>

-----------------------------------------------------------------------------
RunBlock == RunFound \/ RunLoaded

Next ==
    \/ FetchUsers
    \/ \E t \in Texts : UpdateSearchResults(t)
    \/ \E k \in 1..Len(Directory) : Scroll(k)
    \/ \E c \in Cells : CellForRow(c)
    \/ MemoryWarning
    \/ RunBlock
    \/ \E c \in Cells : AddHandlers(c)
    \/ ReadDisk
    \/ \E i \in 1..MaxDownloads :
          \/ \E result \in Results : CallCompletionBlocks(i, result)
          \/ Done(i)
          \/ Completed(i)

Spec == Init /\ [][Next]_vars

(* The table gets its cells, the queues go on, and a download ends         *)
(* (timeoutIntervalForRequest).                                            *)
Fairness ==
    /\ WF_vars(\E c \in Cells : CellForRow(c))
    /\ WF_vars(RunBlock)
    /\ WF_vars(\E c \in Cells : AddHandlers(c))
    /\ WF_vars(ReadDisk)
    /\ \A i \in 1..MaxDownloads :
          /\ WF_vars(\E result \in Results : CallCompletionBlocks(i, result))
          /\ WF_vars(Done(i))
          /\ WF_vars(Completed(i))

FairSpec == Spec /\ Fairness

-----------------------------------------------------------------------------
(* Properties.                                                             *)

(* Whatever is asked or waited for is for the load that its cell has under *)
(* way.                                                                    *)
Owned(p) ==
    LET Is(c, stage) == p.cell[c].stage = stage
        Loads(c, url) == Is(c, "download") /\ p.cell[c].url = url
    IN  /\ \A i \in DOMAIN p.io : Is(p.io[i].cell, "query")
        /\ \A i \in DOMAIN p.main :
              /\ p.main[i].kind = "found" => Is(p.main[i].cell, "answer")
              /\ p.main[i].kind = "loaded" =>
                    \A c \in p.main[i].cells : Loads(c, p.main[i].url)
        /\ \A i \in DOMAIN p.ops : \A c \in p.ops[i].waiting : Loads(c, p.ops[i].url)

TypeOK ==
    /\ users \in {<<>>, Directory}
    /\ text \in Texts
    /\ filtered \in Seq(Users)
    /\ top \in Nat \ {0}
    /\ row \in [Cells -> 0..Len(Directory)]
    /\ todo \subseteq 1..Len(Directory)
    /\ pics \in Pics
    /\ joining \subseteq Cells /\ missed \subseteq Cells
    /\ moves \in 0..MaxMoves
    /\ failures \in 0..MaxFailures
    /\ Owned(pics)

(* The table, its cells and the list agree, whatever came first: the rows  *)
(* on screen are those of the list, each in one cell that was told that    *)
(* row's user, or about to get one, and a search holds the users that      *)
(* match, or none when they arrived after it                               *)
(* (NewMessageController.fetchUsers, cellForRowAt, updateSearchResults).   *)
RowsTrue ==
    LET list   == List(users, filtered, text)
        filled == {c \in Cells : row[c] # 0}
    IN  /\ {row[c] : c \in filled} \cup todo = Window(list, top)
        /\ \A c \in filled : /\ row[c] \notin todo
                             /\ pics.cell[c].user = list[row[c]]
                             /\ \A d \in filled \ {c} : row[c] # row[d]
        /\ filtered \in {Filter(users, text), <<>>}

(* A cell never shows the picture of another than its user, however late   *)
(* the one it had asked for before arrives - for users with a picture:     *)
(* UserCell.configure leaves the image view alone for the others.          *)
RightPicture ==
    \A c \in Cells :
        LET cell == pics.cell[c]
        IN  cell.user \notin NoPicture => cell.image \in {Nobody, cell.user}

(* Every load of a picture ends, though the downloads of a URL are shared  *)
(* and cancelled by those who shared them - but for a cell whose callback  *)
(* comes to a download after its callCompletionBlocks, before its done or  *)
(* after: nobody calls that one.                                           *)
RequestsEnd ==
    \A c \in Cells :
        pics.cell[c].stage # "none"
            ~> (pics.cell[c].stage = "none" \/ c \in missed)
=============================================================================
