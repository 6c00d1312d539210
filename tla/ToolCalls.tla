------------------------------ MODULE ToolCalls ------------------------------
(***************************************************************************)
(* The tools of server.py that keep nothing between calls, each group of   *)
(* them a module of its own: the file tools (FileTools), search_files      *)
(* (FileSearch), the paths all of them take and return (PathBoundary), the *)
(* inventories of apps (AppInventory) with the search of the capabilities  *)
(* (CapabilityKeys), and the local review of an invoice (InvoiceReview).   *)
(* A behaviour is of one group; the groups share no state, and the         *)
(* variables of the others are Unused.                                     *)
(***************************************************************************)
EXTENDS Naturals

CONSTANT Tools  \* the groups that are checked

\* FileTools
CONSTANTS Calls, Accounts, RootOf, Shared, GivenPaths, Destinations, Sizes,
          TransferLimit, MostChanges
VARIABLES linked, tree, call, changes

\* FileSearch
CONSTANTS Entries, MaxResults, MaxDepth, MaxScanned, MostMoves
VARIABLES place, folders, matching, plain, queue, found, answer, moves, moved

\* PathBoundary
CONSTANTS User, AccountNodes, Quoted, Lead, Trail, Cut, Roots, Paths
VARIABLES root, listing, folder, shared, within, opened

\* AppInventory
CONSTANTS Reports, Servers, Apps, Odd, FilesApp, ItemLimit, MaxChanges
VARIABLES account, offered, report, updates

\* CapabilityKeys
CONSTANTS Containers, Names, MaxNodes
VARIABLES capabilities, stack, visited, keys, done

\* InvoiceReview
CONSTANTS MaxCharacters, MaxPages, Invoices, ExpectedCurrency
VARIABLES invoice, at, extracted, review

VARIABLE tool  \* the group of the behaviour

filesVars == <<linked, tree, call, changes>>
searchVars == <<place, folders, matching, plain, queue, found, answer, moves, moved>>
pathsVars == <<root, listing, folder, shared, within, opened>>
inventoryVars == <<account, offered, report, updates>>
keysVars == <<capabilities, stack, visited, keys, done>>
invoiceVars == <<invoice, at, extracted, review>>
vars == <<tool, filesVars, searchVars, pathsVars, inventoryVars, keysVars, invoiceVars>>

File == INSTANCE FileTools WITH Paths <- GivenPaths, Limit <- TransferLimit
Search == INSTANCE FileSearch
Path == INSTANCE PathBoundary WITH Nodes <- AccountNodes
Inventory == INSTANCE AppInventory WITH
  Calls <- Reports, Files <- FilesApp, Limit <- ItemLimit,
  linked <- account, call <- report, changes <- updates
Key == INSTANCE CapabilityKeys WITH document <- capabilities
Invoice == INSTANCE InvoiceReview WITH Documents <- Invoices, document <- invoice

ASSUME ToolsAssumption ==
  /\ Tools \subseteq {"files", "search", "paths", "inventory", "keys", "invoice"}
  /\ File!ToolsAssumption /\ Search!SearchAssumption /\ Path!PathAssumption
  /\ Inventory!InventoryAssumption /\ Key!KeysAssumption /\ Invoice!ReviewAssumption

-----------------------------------------------------------------------------

Unused == "unused"

FilesUnused == linked = Unused /\ tree = Unused /\ call = Unused /\ changes = Unused
SearchUnused ==
  /\ place = Unused /\ folders = Unused /\ matching = Unused /\ plain = Unused
  /\ queue = Unused /\ found = Unused /\ answer = Unused /\ moves = Unused /\ moved = Unused
PathsUnused ==
  /\ root = Unused /\ listing = Unused /\ folder = Unused
  /\ shared = Unused /\ within = Unused /\ opened = Unused
InventoryUnused ==
  account = Unused /\ offered = Unused /\ report = Unused /\ updates = Unused
KeysUnused ==
  /\ capabilities = Unused /\ stack = Unused /\ visited = Unused
  /\ keys = Unused /\ done = Unused
InvoiceUnused == invoice = Unused /\ at = Unused /\ extracted = Unused /\ review = Unused

Init ==
  /\ tool \in Tools
  /\ IF tool = "files" THEN File!Init ELSE FilesUnused
  /\ IF tool = "search" THEN Search!Init ELSE SearchUnused
  /\ IF tool = "paths" THEN Path!Init ELSE PathsUnused
  /\ IF tool = "inventory" THEN Inventory!Init ELSE InventoryUnused
  /\ IF tool = "keys" THEN Key!Init ELSE KeysUnused
  /\ IF tool = "invoice" THEN Invoice!Init ELSE InvoiceUnused

FilesNext ==
  /\ tool = "files" /\ File!Next
  /\ UNCHANGED <<tool, searchVars, pathsVars, inventoryVars, keysVars, invoiceVars>>

SearchNext ==
  /\ tool = "search" /\ Search!Next
  /\ UNCHANGED <<tool, filesVars, pathsVars, inventoryVars, keysVars, invoiceVars>>

PathsNext ==
  /\ tool = "paths" /\ Path!Next
  /\ UNCHANGED <<tool, filesVars, searchVars, inventoryVars, keysVars, invoiceVars>>

InventoryNext ==
  /\ tool = "inventory" /\ Inventory!Next
  /\ UNCHANGED <<tool, filesVars, searchVars, pathsVars, keysVars, invoiceVars>>

KeysNext ==
  /\ tool = "keys" /\ Key!Next
  /\ UNCHANGED <<tool, filesVars, searchVars, pathsVars, inventoryVars, invoiceVars>>

InvoiceNext ==
  /\ tool = "invoice" /\ Invoice!Next
  /\ UNCHANGED <<tool, filesVars, searchVars, pathsVars, inventoryVars, keysVars>>

Next == FilesNext \/ SearchNext \/ PathsNext \/ InventoryNext \/ KeysNext \/ InvoiceNext

Spec == Init /\ [][Next]_vars

-----------------------------------------------------------------------------
(* Properties, stated part by part in the modules of the groups. *)

\* A file tool keeps no more of a download than the transfer limit, however
\* the file grows between the PROPFIND and the GET (providers/webdav.py:159-179),
\* answers what happened (server.py:383-497), and leaves the root where it is
\* (providers/webdav.py:206-210).
FileToolsHonest ==
  tool = "files" =>
    File!TypeOK /\ File!TransferBounded /\ File!AnswersHonest /\ File!RootStays

\* A call changes nothing outside the root of the connection it resolved
\* (providers/webdav.py:69-83), and without overwrite it replaces nothing that
\* is there at that moment: "overwrite is disabled unless explicitly requested"
\* (SECURITY.md:65).
ChangesConfined ==
  [][tool = "files" => File!OnlyBelowRoot /\ File!NothingReplacedUnasked]_vars

\* search_files stays within its caps, and answers without repetition and
\* nearest first, whatever is moved around during the search; an answer that
\* is not truncated is complete, unless quote() changes the name of the account
\* or the root (server.py:286-322, providers/webdav.py:215-222, SECURITY.md:115).
SearchHonest ==
  tool = "search" =>
    /\ Search!TypeOK /\ Search!CapsHold
    /\ Search!CompleteUnlessTruncated /\ Search!NearestFirst

\* No path leads out of the root, whatever blanks, backslashes, dots, slashes
\* and empty segments it and the configured root have (config.py:9-34,
\* providers/webdav.py:58-77); the path of a listed entry leads back to it
\* unless it begins or ends with a blank or has a backslash (providers/webdav
\* .py:69-83, 212-240); shares are those below the requested path (server.py:
\* 341-372).
PathsInside ==
  tool = "paths" =>
    Path!TypeOK /\ Path!NothingOutside /\ Path!EntriesLeadBack /\ Path!SharesInside

\* server.py:254 says of list_files: "List direct children inside the user's
\* connected private Nextcloud workspace root.": every child is listed.
EveryChildListed == tool = "paths" => Path!EveryChildListed

\* A report of apps never shows a failure as an absence, has nothing that was
\* not there, and is of an account the tenant was connected to in the call
\* (server.py:116-127 and 194-216, ocs.py:78-110, app_access.py:63-64).
InventoryHonest ==
  tool = "inventory" =>
    /\ Inventory!AbsenceIsHonest /\ Inventory!PresenceIsHonest
    /\ Inventory!ReportsOwnAccount

\* A capability document within the bound gives all its keys and no others, no
\* container is searched twice and none is left out (capabilities.py:24-48).
KeysExact == tool = "keys" => Key!KeysExact /\ Key!NothingForgotten

\* No text of an invoice is lost silently and none exceeds the limit, a review
\* that is ready rests on the whole document, and what is reported missing is
\* missing (household/invoices.py:112-165, 197-310, 332-405).
ReviewHonest ==
  tool = "invoice" =>
    /\ Invoice!TypeOK /\ Invoice!NoSilentCut /\ Invoice!TextBounded
    /\ Invoice!ReadyMeansRead /\ Invoice!MissingIsMissing /\ Invoice!ElementsFirst
=============================================================================
