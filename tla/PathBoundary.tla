---------------------------- MODULE PathBoundary ----------------------------
(***************************************************************************)
(* How paths are kept inside the configured root and translated there and  *)
(* back: config.py, the URLs and multistatus answers of providers/webdav   *)
(* .py and the filter of list_nextcloud_shares in server.py.               *)
(*                                                                         *)
(* A raw path is split at "/": "/a" is <<"", "a">>, "//" is <<"", "", "">>. *)
(* A node is the sequence of names that leads to it from the top of the    *)
(* account.                                                                *)
(***************************************************************************)
EXTENDS Naturals, Sequences, FiniteSets, SequencesExt

CONSTANTS User,    \* the account's name
          Nodes,   \* the account's files and folders
          Quoted,  \* Quoted[n]: a name as it stands in a URL
          Lead,    \* Lead[n]: n without its blanks at the beginning
          Trail,   \* Trail[n]: n without its blanks at the end
          Cut,     \* Cut[n]: n as split at its backslashes
          Roots,   \* raw roots that are configured
          Paths    \* raw relative paths that are given

\* What stands between two slashes.
Segment(s) == s # "//" /\ (s \in DOMAIN Quoted \/ \A n \in DOMAIN Quoted : Quoted[n] # s)

\* Quoting keeps apart the names there are and those that are given; no file
\* or folder is named like a segment that has a meaning of its own, or like
\* what two slashes are quoted to.
PathAssumption ==
  /\ DOMAIN Quoted \subseteq STRING \ {"", ".", ".."} /\ {User, "//"} \subseteq DOMAIN Quoted
  /\ \A m, n \in DOMAIN Quoted : Quoted[m] = Quoted[n] => m = n
  /\ \A n \in DOMAIN Quoted : Quoted[n] # ""
  /\ Nodes \subseteq Seq(DOMAIN Quoted \ {"//", Quoted["//"]}) /\ <<>> \in Nodes
  /\ Roots \union Paths \subseteq Seq(STRING) \ {<<>>}
  /\ \A raw \in Roots \union Paths : \A i \in DOMAIN raw : Segment(raw[i])
  /\ \A n \in DOMAIN Lead : Lead[n] \in STRING /\ Segment(Lead[n])
  /\ \A n \in DOMAIN Trail : Trail[n] \in STRING /\ Segment(Trail[n])
  /\ \A n \in DOMAIN Cut : Cut[n] \in Seq(STRING) /\ \A i \in DOMAIN Cut[n] : Segment(Cut[n][i])

VARIABLES root,     \* the configured root, a path as normalize_root_path returns it
          listing,  \* what list_files answered: the nodes and their paths
          folder,   \* and the node it was asked to list
          shared,   \* what list_nextcloud_shares answered: the nodes
          within,   \* and the path below the root it was asked for
          opened    \* the entry last opened: its node, its path, and the node
                    \* that is asked for when the path is given back

vars == <<root, listing, folder, shared, within, opened>>

\* quote and unquote of one name.
quote(n) == IF n \in DOMAIN Quoted THEN Quoted[n] ELSE n
unquote(u) == IF \E n \in DOMAIN Quoted : Quoted[n] = u
              THEN CHOOSE n \in DOMAIN Quoted : Quoted[n] = u ELSE u

-----------------------------------------------------------------------------
(* str.strip, and the slashes that take the place of backslashes.           *)

lstrip(n) == IF n \in DOMAIN Lead THEN Lead[n] ELSE n
rstrip(n) == IF n \in DOMAIN Trail THEN Trail[n] ELSE n

\* Only what stands before the first slash and after the last can lose blanks.
strip(raw) ==
  [i \in DOMAIN raw |->
     LET n == IF i = 1 THEN lstrip(raw[i]) ELSE raw[i]
     IN  IF i = Len(raw) THEN rstrip(n) ELSE n]

Slashed(raw) ==
  LET done[i \in 0..Len(raw)] ==
        IF i = 0 THEN <<>>
        ELSE done[i - 1] \o (IF raw[i] \in DOMAIN Cut THEN Cut[raw[i]] ELSE <<raw[i]>>)
  IN  done[Len(raw)]

-----------------------------------------------------------------------------
(* PurePosixPath: a root of no, one or two slashes, and parts without "."  *)
(* and empty ones.  Three slashes at the beginning are one, two are two.   *)

Slashes(raw) ==
  Cardinality({i \in 1..(Len(raw) - 1) : \A j \in 1..i : raw[j] = ""})

Parts(raw) ==
  LET kept[i \in 0..Len(raw)] ==
        IF i = 0 THEN <<>>
        ELSE IF raw[i] \in {"", "."} THEN kept[i - 1]
        ELSE Append(kept[i - 1], raw[i])
  IN  kept[Len(raw)]

PurePosixPath(raw) ==
  [slashes |-> IF Slashes(raw) > 2 THEN 1 ELSE Slashes(raw), parts |-> Parts(raw)]

Accepts(p) ==
  /\ p.slashes > 0
  /\ ~(p.slashes = 1 /\ p.parts = <<>>)
  /\ ~Contains(p.parts, "..")

\* normalize_root_path: {} for a path that is refused.
normalize_root_path(raw) == {p \in {PurePosixPath(strip(raw))} : Accepts(p)}

\* An accepted root as it is written down.
Written(p) ==
  [i \in 1..p.slashes |-> ""] \o (IF p.parts = <<>> THEN <<"">> ELSE p.parts)

\* The root of a connection is normalized when it is stored and once more
\* whenever settings are made of it, which may refuse it then.
InConnection(raw) ==
  UNION {normalize_root_path(Written(p)) : p \in normalize_root_path(raw)}

\* normalize_relative_path, which refuses what is not below the root: {} then.
normalize_relative_path(raw) ==
  LET p == PurePosixPath(Slashed(strip(raw)))
  IN  IF p.slashes > 0 \/ Contains(p.parts, "..") \/ p.parts = <<>> THEN {} ELSE {p.parts}

\* Faulty: parent segments are left to the server.
NormalizeUnchecked(raw) == {Parts(Slashed(strip(raw)))}

\* WebDAVClient._normalize_relative drops the slashes at the beginning and
\* takes what is empty for the root.
_normalize_relative(raw) ==
  LET path == Parts(Slashed(strip(raw)))
  IN  IF Contains(path, "..") THEN {} ELSE {path}

-----------------------------------------------------------------------------
(* WebDAV. *)

\* The parts of the root begin with "//" when it has two slashes, which
\* _encode_path quotes like a name.
base_url == <<quote(User)>>
            \o (IF root.slashes = 2 THEN <<quote("//")>> ELSE <<>>)
            \o [i \in DOMAIN root.parts |-> quote(root.parts[i])]

_url(path) == base_url \o [i \in DOMAIN path |-> quote(path[i])]

\* The node a URL leads to: the server decodes it, follows ".." and takes
\* several slashes for one, unless it refuses to decode a slash.
Served(url) ==
  LET names == [i \in DOMAIN url |-> unquote(url[i])]
      at[i \in 1..Len(names)] ==
        IF i = 1 THEN <<>>
        ELSE IF names[i] = "//" THEN at[i - 1]
        ELSE IF names[i] = ".." THEN (IF at[i - 1] = <<>> THEN <<>> ELSE Front(at[i - 1]))
        ELSE Append(at[i - 1], names[i])
  IN  at[Len(names)]

Children(node) == {x \in Nodes : Len(x) = Len(node) + 1 /\ IsPrefix(node, x)}

\* The server's answer names every node by its encoded path.
Href(node) == <<quote(User)>> \o [i \in DOMAIN node |-> quote(node[i])]

\* _parse_multistatus: what is left of the decoded path after the base path.
Entry(node) == SubSeq(<<User>> \o node, Len(base_url) + 1, Len(node) + 1)

\* An entry counts when its decoded path continues the base path, which is
\* not decoded.
BelowBase(node) == IsPrefix(base_url, <<User>> \o node)

\* The folder that is listed is in the answer too, and left out.
IsSelf(path, entry) == entry = path

-----------------------------------------------------------------------------
(* Shares. *)

\* The root without slashes at its end is empty when it is "//", and is no
\* beginning of any share's path when it has two slashes and parts.
BelowRoot(path, node) ==
  /\ root.slashes = 1 \/ root.parts = <<>>
  /\ IsPrefix(root.parts \o path, node)

\* list_nextcloud_shares: the shares that are returned of those Nextcloud lists.
Shown(path, subfiles, node) ==
  BelowRoot(path, node) /\ (subfiles \/ node = root.parts \o path)

-----------------------------------------------------------------------------
(* The operations. *)

None == [asked |-> <<>>, path |-> <<>>, got |-> <<>>]

\* A stored root that settings refuse: every tool fails.
Unusable == [slashes |-> 0, parts |-> <<>>]

\* The local server has its root from settings of its own, the hosted one
\* from a connection.
Init ==
  /\ \E raw \in Roots : root \in normalize_root_path(raw) \union InConnection(raw)
  /\ listing = {} /\ folder = <<"none">>
  /\ shared = {} /\ within = <<"none">>
  /\ opened = None

set_nextcloud_root ==
  \E raw \in Roots :
    /\ normalize_root_path(raw) # {}
    /\ root' \in IF InConnection(raw) = {} THEN {Unusable} ELSE InConnection(raw)
    /\ listing' = {} /\ folder' = <<"none">>
    /\ shared' = {} /\ within' = <<"none">>
    /\ opened' = None

\* A folder that is not there, or that the server does not look for, is an
\* error and changes nothing.
list_files ==
  \E raw \in Paths : \E path \in _normalize_relative(raw) :
    /\ root # Unusable
    /\ folder' = Served(_url(path)) /\ folder' \in Nodes
    /\ listing' = {[node |-> x, path |-> Entry(x)] :
                     x \in {y \in {folder'} \union Children(folder') :
                             BelowBase(y) /\ ~IsSelf(path, Entry(y))}}
    /\ UNCHANGED <<root, shared, within, opened>>

get_file_info ==
  \E e \in listing : \E path \in _normalize_relative(e.path) :
    /\ opened' = [asked |-> e.node, path |-> e.path, got |-> Served(_url(path))]
    /\ UNCHANGED <<root, listing, folder, shared, within>>

list_nextcloud_shares ==
  \E raw \in Paths, subfiles \in BOOLEAN :
    \E path \in IF strip(raw) = <<"">> THEN {<<>>} ELSE normalize_relative_path(raw) :
      /\ root # Unusable
      /\ shared' = {x \in Nodes : Shown(path, subfiles, x)}
      /\ within' = path
      /\ UNCHANGED <<root, listing, folder, opened>>

Next == set_nextcloud_root \/ list_files \/ get_file_info \/ list_nextcloud_shares

Spec == Init /\ [][Next]_vars

-----------------------------------------------------------------------------
(* Properties. *)

\* The state of the model has its types.
TypeOK ==
  /\ root.slashes \in 0..2 /\ root.parts \in Seq(STRING)
  /\ \A e \in listing : e.node \in Nodes
  /\ shared \subseteq Nodes
  /\ opened \in [asked : Nodes, path : Seq(STRING), got : Seq(STRING)]

\* No path leads out of the root, whatever blanks, backslashes, dots, slashes
\* and empty segments it and the configured root have, the roots of two
\* slashes included: what is asked for, listed or opened lies below the
\* folders that the root names (config.py:9-34, providers/webdav.py:58-77).
NothingOutside ==
  /\ \A e \in listing : IsPrefix(root.parts, e.node)
  /\ folder # <<"none">> => IsPrefix(root.parts, folder)
  /\ opened # None => IsPrefix(root.parts, opened.got)
  /\ ~Contains(root.parts, "..")

\* Is the path changed neither by strip() nor by the replaced backslashes?
Survives(path) ==
  \A i \in DOMAIN path :
    /\ i = 1 => path[i] \notin DOMAIN Lead
    /\ i = Len(path) => path[i] \notin DOMAIN Trail
    /\ path[i] \notin DOMAIN Cut

\* The path of a listed entry, given back to a tool, leads to that entry, also
\* when its name is quoted in URLs; except the paths that begin or end with a
\* blank or have a backslash, which lead elsewhere below the root or are
\* refused (providers/webdav.py:69-83, 212-240).
EntriesLeadBack == opened.asked = opened.got \/ ~Survives(opened.path)

\* list_nextcloud_shares answers with shares below the requested path only,
\* and that path is below the root (server.py:341-372).
SharesInside ==
  \A x \in shared : IsPrefix(root.parts \o within, x)

\* server.py:254 says of list_files: "List direct children inside the user's
\* connected private Nextcloud workspace root.": every child of the folder is
\* listed, whatever the names of the account and the root are.
EveryChildListed ==
  folder # <<"none">> => \A x \in Children(folder) : \E e \in listing : e.node = x
=============================================================================
