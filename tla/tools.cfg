SPECIFICATION Spec
CONSTANTS
  Tools = {"files", "search", "paths", "inventory", "keys", "invoice"}
  \* FileTools
  Calls = {p1, p2}
  Accounts = {"home", "work"}
  RootOf <- TwoRoots
  Shared <- SharedPaths
  GivenPaths <- SomePaths
  Destinations <- Elsewhere
  Sizes = {1, 3}
  TransferLimit = 2
  MostChanges = 1
  \* FileSearch
  Entries = {1, 2, 3, 4}
  MaxResults = 2
  MaxDepth = 1
  MaxScanned = 3
  MostMoves = 1
  \* PathBoundary
  User = "u"
  AccountNodes <- NamedNodes
  Quoted <- QuotedNames
  Lead <- NoLead
  Trail <- NoTrail
  Cut <- NoBackslash
  Roots <- PlainRoots
  Paths <- ShortRaws
  \* AppInventory
  Reports = {c1}
  Servers = {s1, s2}
  Apps = {files, notes}
  Odd = odd
  FilesApp = files
  ItemLimit = 2
  MaxChanges = 2
  \* CapabilityKeys
  Containers = 4
  Names = {assistant, context_agent}
  MaxNodes = 3
  \* InvoiceReview
  MaxCharacters = 5
  MaxPages = 3
  Invoices <- SmallInvoices
  ExpectedCurrency = "EUR"
SYMMETRY Symmetry
INVARIANTS
  FileToolsHonest  PathsInside InventoryHonest KeysExact ReviewHonest
PROPERTY ChangesConfined
\* a tool has answered
CHECK_DEADLOCK FALSE
