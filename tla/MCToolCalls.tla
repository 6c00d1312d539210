----------------------------- MODULE MCToolCalls -----------------------------
(* Small instances of the groups of ToolCalls. *)
EXTENDS ToolCalls, Sequences, TLC

-----------------------------------------------------------------------------
(* Files: roots /r of home and /w of work, with files inside and outside;    *)
(* /r is a name in both accounts, the root of one of them.                   *)

TwoRoots == [a \in Accounts |-> IF a = "home" THEN <<"r">> ELSE <<"w">>]
SharedPaths == [a \in Accounts |->
  IF a = "home" THEN {<<"r", "a">>, <<"o">>} ELSE {<<"w", "a">>, <<"r">>}]
SomePaths == {<<"a">>, <<"a", "b">>, <<"..", "o">>, <<".", "">>}
Elsewhere == {<<"b">>, <<"..", "o">>, <<"">>}

Symmetry == Permutations(Calls)

-----------------------------------------------------------------------------
(* Paths: "b b" and the address "u@x" are quoted in URLs, "a" and "u" not;   *)
(* " a" begins and "a " ends with a blank, "a\b" has a backslash.            *)

QuotedNames == [n \in {"u", "u@x", "a", "b b", "b%20b", "//", " ", " a", "a ", "a\\b"} |->
  CASE n = "b b" -> "b%20b" [] n = "b%20b" -> "b%2520b" [] n = "u@x" -> "u%40x"
    [] n = "//" -> "%2F%2F" [] n = " " -> "%20" [] n = " a" -> "%20a" [] n = "a " -> "a%20"
    [] n = "a\\b" -> "a%5Cb" [] OTHER -> n]

NoLead == [n \in {" ", " a"} |-> IF n = " " THEN "" ELSE "a"]
NoTrail == [n \in {" ", "a "} |-> IF n = " " THEN "" ELSE "a"]
NoBackslash == [n \in {"a\\b", "..\\a"} |-> IF n = "a\\b" THEN <<"a", "b">> ELSE <<"..", "a">>]

\* Names that strip() or the backslash changes, at the places that matter.
OddNodes == {<<"a", n>> : n \in {" a", "a ", "a\\b"}}
            \union {<<" a">>, <<"a", " a", "a">>, <<"a", "a ", "a">>}
NamedNodes == UNION {[1..d -> {"a", "b b"}] : d \in 0..3} \union OddNodes

\* How a path is read, for no account in particular.
Posix == INSTANCE PathBoundary WITH Nodes <- {}, Roots <- {}, Paths <- {},
                                    Lead <- NoLead, Trail <- NoTrail, Cut <- NoBackslash

Raws == UNION {[1..d -> {"", ".", "..", "a", "b b"}] : d \in 1..3}
OddRaws == {<<" ">>, <<" a">>, <<"a", "a ">>, <<"a ", "">>, <<"a", " a">>, <<"a\\b">>,
            <<"..\\a">>, <<"a", "..\\a">>}

\* Up to two segments, and every third one after "a".
ShortRaws == {raw \in Raws : Len(raw) < 3 \/ raw[1] = "a"} \union OddRaws

\* The roots whose names stand in URLs as they are, with one slash and with
\* two or three, some that lose blanks once or twice, and a relative one.
PlainRoots ==
  {<<"">> \o raw : raw \in
     {r \in Raws : (Len(r) < 3 \/ (r[1] = "" /\ r[2] = "")) /\ \A i \in DOMAIN r : r[i] # "b b"}}
    \union {<<"", " ", "">>, <<"", "a ", "">>, <<"", "a", "a ">>, <<" ", "a">>, <<"a">>}

OneSlash == {raw \in PlainRoots : \A p \in Posix!normalize_root_path(raw) : p.slashes = 1}

-----------------------------------------------------------------------------
(* Invoices. *)

\* How a document is written down, for no document in particular.
Lines == INSTANCE InvoiceReview WITH Documents <- {}, document <- invoice

Texts(items, n) == UNION {[1..k -> items] : k \in 0..n}

Number == Lines!Item("invoice number", {1}, {})
Date == Lines!Item("invoice date", {2}, {})
Total == Lines!Item("grand total", {119}, {"EUR"})
Subtotal == Lines!Item("subtotal", {100}, {})
Vat == Lines!Item("vat", {19}, {"USD"})
NoNumber == Lines!Item("invoice number", {}, {})
BadDate == Lines!Item("invoice date", {Lines!Garbled}, {})
DueBefore == Lines!Item("due date", {1}, {})

Plain(kind, pages) == Lines!Document(kind, pages, Lines!NoElements, "good")
NoPages == <<<<>>>>

\* Every way a document can be cut: PDFs with fields on two pages or with NULs
\* on MaxPages pages, one page too many, and text files of up to six items.
PagedDocuments ==
  {Plain("pdf", ps) : ps \in Texts(Texts({Number, Date, Total, DueBefore}, 3), 2)
                             \union Texts(Texts({Lines!Nul, Number}, 3), MaxPages)}
  \union {Plain("pdf", [i \in 1..MaxPages + 1 |-> <<Number>>])}
  \union {Plain("text", <<t>>) : t \in Texts({Lines!Nul, Number, Total}, 6)}
  \union {Plain(k, NoPages) : k \in {"encrypted", "damaged", "image", "unknown", "not_utf8"}}

\* Every combination of four lines, and of elements with lines.
LabeledDocuments ==
  LET lines == {Lines!Blank, Number, NoNumber, Date, BadDate, Total, Subtotal, Vat}
      elements == {e \in [DOMAIN Lines!NoElements -> {{}, {Lines!Garbled}, {7}}] :
                     /\ e.currency = {} /\ e.tax = {} /\ e.due = {}
                     /\ Lines!Garbled \notin e.number}
  IN {Plain("text", <<t>>) : t \in Texts(lines, 4)}
     \union {Lines!Document("xml", <<t>>, e, mark) :
               t \in Texts({Number, Date, Total}, 2), e \in elements,
               mark \in {"good", "malformed", "forbidden"}}

SmallInvoices == PagedDocuments \union LabeledDocuments
=============================================================================
