------------------------------- MODULE FileListing -------------------------------
(***************************************************************************)
(* A window of the file manager (FileManagerApp): the listing of the place *)
(* that it shows, a query whose results are cached per place, and the      *)
(* operations on remote files, mutations that refetch the listing when     *)
(* they succeed.  A result is the number of changes that the directory had *)
(* seen when it was read.  A read-only place (the results of a search, an  *)
(* archive) is no directory; it stands listed, and its reads are left out. *)
(***************************************************************************)
EXTENDS Naturals, FiniteSets

CONSTANTS
    Dir,             \* remote directories
    ReadOnlyPlace,   \* virtual locations
    NoPlace,         \* before the first directory is known
    MaxFileOps,      \* how many file operations are started
    MaxListingFaults \* how often a read fails, a result is dropped or the link is lost

ASSUME FileListingAssumption ==
    /\ NoPlace \notin Dir \cup ReadOnlyPlace
    /\ {MaxFileOps, MaxListingFaults} \subseteq Nat

VARIABLES
    changes,      \* how often each directory was changed
    listing,      \* the cached result of each directory
    fetch,        \* the read of each directory that is under way
    place,        \* currentPath and virtualLocation
    reachable,    \* the server's managed connection
    fileOps,      \* the file operations
    newestOp,     \* the one that mutateOperation.isPending follows
    toOpen,       \* openCreatedFileAfterCreateRef
    fileDialog,   \* the operation dialog
    clipboard,    \* the directory that an entry was cut from, if any
    promised,     \* what a refetch must not fall behind (history variable)
    openedFor,    \* the operations whose file an editor was opened for (history variable)
    overlapped,   \* two file operations ran at the same time (history variable)
    listingFaults

listingQuery == <<listing, fetch, promised>>
opState == <<fileOps, newestOp, toOpen, openedFor, overlapped>>
listingVars ==
    <<changes, listingQuery, place, reachable, opState, fileDialog, clipboard,
      listingFaults>>

Place == Dir \cup ReadOnlyPlace
FileOp == 1..MaxFileOps
NoOp == 0
Count == 0..MaxFileOps

Unknown == [known |-> FALSE, count |-> 0]
NoFetch == [pc |-> "none", count |-> 0]
AskedFetch == [pc |-> "asked", count |-> 0]
NewOp == [pc |-> "new", kind |-> "other", dirs |-> {}]

Unanswered(o) == fileOps[o].pc \in {"sent", "applied"}
Mutating == newestOp \in FileOp /\ Unanswered(newestOp)
Uploading == \E o \in FileOp : Unanswered(o) /\ fileOps[o].kind = "upload"
PlaceListed == IF place \in Dir THEN listing[place].known ELSE place \in ReadOnlyPlace

ListingInit ==
    /\ changes = [d \in Dir |-> 0]
    /\ listing = [d \in Dir |-> Unknown] /\ fetch = [d \in Dir |-> NoFetch]
    /\ place = NoPlace /\ reachable = TRUE
    /\ fileOps = [o \in FileOp |-> NewOp] /\ newestOp = NoOp /\ toOpen = NoOp
    /\ fileDialog = "none" /\ clipboard = NoPlace
    /\ promised = [d \in Dir |-> 0] /\ openedFor = {} /\ overlapped = FALSE
    /\ listingFaults = 0

--------------------------------------------------------------------------------
(* The listing query.                                                      *)

(* A fetch that the query starts by itself joins the one that is under way. *)
Fetched(p) ==
    IF p \in Dir /\ fetch[p].pc = "none"
    THEN [fetch EXCEPT ![p] = AskedFetch] ELSE fetch

(* As if a refetch joined the fetch that is under way. *)
RefetchJoins(p) == Fetched(p)

(* refetch() gives up the fetch that is under way, unless nothing is cached yet. *)
Refetched(p) ==
    IF p \in Dir /\ listing[p].known
    THEN [fetch EXCEPT ![p] = AskedFetch] ELSE Fetched(p)

RefetchListing ==
    /\ fetch' = Refetched(place)
    /\ promised' = IF PlaceListed /\ place \in Dir
                   THEN [promised EXCEPT ![place] = changes[place]]
                   ELSE promised
    /\ UNCHANGED listing

ServeFetch(p) ==
    /\ fetch[p].pc = "asked"
    /\ fetch' = [fetch EXCEPT ![p] = [pc |-> "read", count |-> changes[p]]]
    /\ UNCHANGED <<changes, listing, promised, place, reachable, opState, fileDialog,
                  clipboard, listingFaults>>

ListingArrives(p) ==
    /\ fetch[p].pc = "read"
    /\ listing' = [listing EXCEPT ![p] = [known |-> TRUE, count |-> fetch[p].count]]
    /\ fetch' = [fetch EXCEPT ![p] = NoFetch]
    /\ UNCHANGED <<changes, promised, place, reachable, opState, fileDialog,
                  clipboard, listingFaults>>

(* The error is displayed; the cached result stays, and nothing is promised of it. *)
ListingFails(p) ==
    /\ listingFaults < MaxListingFaults /\ listingFaults' = listingFaults + 1
    /\ fetch[p].pc # "none"
    /\ fetch' = [fetch EXCEPT ![p] = NoFetch]
    /\ promised' = [promised EXCEPT ![p] = 0]
    /\ UNCHANGED <<changes, listing, place, reachable, opState, fileDialog, clipboard>>

(* Results that nothing displays are dropped after some minutes. *)
ForgetListing(p) ==
    /\ listingFaults < MaxListingFaults /\ listingFaults' = listingFaults + 1
    /\ p # place /\ listing[p].known /\ fetch[p].pc = "none"
    /\ listing' = [listing EXCEPT ![p] = Unknown]
    /\ UNCHANGED <<changes, fetch, promised, place, reachable, opState, fileDialog,
                  clipboard>>

(* Another place is another query, stale as every cached result is.  The first
   one is the user's or the current path of the locations. *)
GoTo(p) ==
    /\ fileDialog = "none" /\ p # place
    /\ place' = p
    /\ fetch' = IF reachable THEN Fetched(p) ELSE fetch
    /\ UNCHANGED <<changes, listing, promised, reachable, opState, fileDialog,
                  clipboard, listingFaults>>

Refresh ==
    /\ place # NoPlace /\ reachable /\ fileDialog = "none"
    /\ RefetchListing
    /\ UNCHANGED <<changes, place, reachable, opState, fileDialog, clipboard,
                  listingFaults>>

Unreachable ==
    /\ listingFaults < MaxListingFaults /\ listingFaults' = listingFaults + 1
    /\ reachable
    /\ reachable' = FALSE
    /\ UNCHANGED <<changes, listingQuery, place, opState, fileDialog, clipboard>>

(* The query is enabled again. *)
Reachable ==
    /\ ~reachable
    /\ reachable' = TRUE
    /\ fetch' = Fetched(place)
    /\ UNCHANGED <<changes, listing, promised, place, opState, fileDialog, clipboard,
                  listingFaults>>

--------------------------------------------------------------------------------
(* Starting an operation.                                                  *)

StartOp(o, kind, dirs) ==
    /\ fileOps[o].pc = "new" /\ \A x \in FileOp : x < o => fileOps[x].pc # "new"
    /\ fileOps' = [fileOps EXCEPT ![o] = [pc |-> "sent", kind |-> kind, dirs |-> dirs]]
    /\ newestOp' = IF kind \in {"upload", "properties"} THEN newestOp ELSE o
    /\ toOpen' = IF kind = "create" THEN o ELSE IF kind = "plain" THEN NoOp ELSE toOpen
    /\ overlapped' = (overlapped \/ \E x \in FileOp : Unanswered(x))
    /\ UNCHANGED openedFor

(* The toolbar offers what changes a file in directories only.  The shortcuts
   offer a new file, a new folder and deleting (another operation) anywhere. *)
OpenDialog(kind) ==
    /\ fileDialog = "none" /\ PlaceListed
    /\ kind = "upload" => place \in Dir
    /\ kind \in {"create", "plain", "upload"} => reachable
    /\ kind = "upload" => ~Uploading
    /\ fileDialog' = kind
    /\ UNCHANGED <<changes, listingQuery, place, reachable, opState, clipboard, listingFaults>>

CloseDialog ==
    /\ fileDialog # "none"
    /\ fileDialog' = "none"
    /\ UNCHANGED <<changes, listingQuery, place, reachable, opState, clipboard, listingFaults>>

(* The directory is the one displayed.  Another operation may be about any: an
   archive is extracted wherever the user says, and the listing of a search stands
   for the root of the search. *)
SubmitDialog(o) ==
    /\ fileDialog # "none" /\ PlaceListed /\ ~Mutating /\ ~Uploading
    /\ \E d \in Dir :
         /\ fileDialog # "other" /\ place \in Dir => d = place
         /\ StartOp(o, fileDialog, {d})
    /\ UNCHANGED <<changes, listingQuery, place, reachable, fileDialog, clipboard,
                  listingFaults>>

CutEntry ==
    /\ fileDialog = "none" /\ PlaceListed /\ place \in Dir
    /\ clipboard' = place
    /\ UNCHANGED <<changes, listingQuery, place, reachable, opState, fileDialog, listingFaults>>

(* Moving empties the clipboard; it does not wait for other operations. *)
PasteClipboard(o) ==
    /\ clipboard # NoPlace /\ fileDialog = "none" /\ PlaceListed /\ place \in Dir
    /\ StartOp(o, "other", {clipboard, place})
    /\ clipboard' = NoPlace
    /\ UNCHANGED <<changes, listingQuery, place, reachable, fileDialog, listingFaults>>

(* Renaming an entry, or changing its mode, in its properties. *)
EditProperties(o) ==
    /\ fileDialog = "none" /\ PlaceListed /\ place \in Dir
    /\ ~\E x \in FileOp : Unanswered(x) /\ fileOps[x].kind = "properties"
    /\ StartOp(o, "properties", {place})
    /\ UNCHANGED <<changes, listingQuery, place, reachable, fileDialog, clipboard,
                  listingFaults>>

--------------------------------------------------------------------------------
(* The server, and the answers.                                            *)

(* Nothing else of an operation matters when it has been answered. *)
EndOp(o, pc) == fileOps' = [fileOps EXCEPT ![o] = [NewOp EXCEPT !.pc = pc]]

CarryOut(o) ==
    /\ fileOps[o].pc = "sent"
    /\ fileOps' = [fileOps EXCEPT ![o].pc = "applied"]
    /\ changes' = [d \in Dir |->
                     IF d \in fileOps[o].dirs THEN changes[d] + 1 ELSE changes[d]]
    /\ UNCHANGED <<listingQuery, place, reachable, newestOp, toOpen, openedFor,
                  overlapped, fileDialog, clipboard,
                  listingFaults>>

(* The handler of success reads the reference to the created file, whichever
   operation wrote it. *)
FileOpSucceeds(o) ==
    /\ fileOps[o].pc = "applied"
    /\ EndOp(o, "done")
    /\ fileDialog' = IF fileOps[o].kind = "properties" THEN fileDialog ELSE "none"
    /\ IF fileOps[o].kind \in {"upload", "properties"}
       THEN UNCHANGED <<toOpen, openedFor>>
       ELSE /\ toOpen' = NoOp
            /\ openedFor' = openedFor \cup ({toOpen} \ {NoOp})
    /\ RefetchListing
    /\ UNCHANGED <<changes, place, reachable, newestOp, overlapped, clipboard, listingFaults>>

(* As if a failed creation left the reference to its file. *)
FailureKeepsFile(o) ==
    /\ Unanswered(o)
    /\ EndOp(o, IF fileOps[o].pc = "applied" THEN "unknown" ELSE "failed")
    /\ UNCHANGED <<changes, listingQuery, place, reachable, newestOp, toOpen, openedFor,
                  overlapped, fileDialog, clipboard,
                  listingFaults>>

(* The server refuses, or the answer of what it has carried out is lost. *)
FileOpFails(o) ==
    /\ Unanswered(o)
    /\ EndOp(o, IF fileOps[o].pc = "applied" THEN "unknown" ELSE "failed")
    /\ toOpen' = IF fileOps[o].kind \in {"upload", "properties"} THEN toOpen ELSE NoOp
    /\ UNCHANGED <<changes, listingQuery, place, reachable, newestOp, openedFor,
                  overlapped, fileDialog, clipboard,
                  listingFaults>>

ListingNext ==
    \/ \E p \in Dir : ServeFetch(p) \/ ListingArrives(p) \/ ListingFails(p) \/ ForgetListing(p)
    \/ \E p \in Place : GoTo(p)
    \/ Refresh \/ Unreachable \/ Reachable \/ CloseDialog \/ CutEntry
    \/ \E kind \in {"create", "plain", "other", "upload"} : OpenDialog(kind)
    \/ \E o \in FileOp :
         SubmitDialog(o) \/ PasteClipboard(o) \/ EditProperties(o) \/ CarryOut(o)
         \/ FileOpSucceeds(o) \/ FileOpFails(o)

ListingSpec == ListingInit /\ [][ListingNext]_listingVars

--------------------------------------------------------------------------------
(* Properties.                                                             *)

(* The variables have their types; the window shows a place or none yet, and an
   operation that was started names the directories that it changes. *)
ListingTypeOK ==
    /\ changes \in [Dir -> Count] /\ promised \in [Dir -> Count]
    /\ listing \in [Dir -> [known : BOOLEAN, count : Count]]
    /\ fetch \in [Dir -> [pc : {"none", "asked", "read"}, count : Count]]
    /\ place \in Place \cup {NoPlace} /\ clipboard \in Dir \cup {NoPlace}
    /\ fileOps \in [FileOp ->
         [pc : {"new", "sent", "applied", "done", "unknown", "failed"},
          kind : {"create", "plain", "other", "upload", "properties"}, dirs : SUBSET Dir]]
    /\ \A o \in FileOp : Unanswered(o) => fileOps[o].dirs # {}
    /\ newestOp \in FileOp \cup {NoOp} /\ toOpen \in FileOp \cup {NoOp}
    /\ openedFor \subseteq FileOp /\ {reachable, overlapped} \subseteq BOOLEAN
    /\ listingFaults \in 0..MaxListingFaults
    /\ fileDialog \in {"none", "create", "plain", "other", "upload"}

(* Once an operation has succeeded, or the user has refreshed, while a directory
   was displayed, its listing is never older than that moment, whatever read was
   under way then and however the user moves between places: when no read of it
   is under way, what is cached shows at least those changes, unless a read has
   failed since and its error was displayed. *)
ListingIsFresh ==
    \A d \in Dir :
        listing[d].known /\ fetch[d].pc = "none" => listing[d].count >= promised[d]

(* As long as operations do not overlap, the editor is opened only for a file
   that its own operation has created: a creation that failed leaves nothing
   behind that a later success would open. *)
EditorOpensCreated ==
    ~overlapped => \A o \in openedFor : fileOps[o].pc = "done"
================================================================================
