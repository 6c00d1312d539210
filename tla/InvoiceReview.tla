---------------------------- MODULE InvoiceReview ----------------------------
(***************************************************************************)
(* The local review of one invoice (household/invoices.py): the text is    *)
(* extracted within bounds, fields are read from XML elements and labelled *)
(* lines, and the checks decide whether a person can go ahead or has to    *)
(* open the document.                                                      *)
(*                                                                         *)
(* A text is a sequence of items, each of which counts as one character:   *)
(* a NUL, white space, the line break between pages, or a whole labelled   *)
(* line.  Where a field can be missing it is a set with at most one member.*)
(***************************************************************************)
EXTENDS Integers, Sequences, FiniteSets, SequencesExt

CONSTANTS
  MaxCharacters,     \* _MAX_EXTRACTED_CHARACTERS
  MaxPages,          \* _MAX_PDF_PAGES
  Documents,         \* the invoices that are reviewed
  ExpectedCurrency   \* of the household profile

VARIABLES document,  \* the payload, by what the libraries find in it
          at,        \* what has been done: "received", "extracted", "done"
                     \* or "raised"
          extracted, \* the ExtractedDocument
          review     \* the InvoiceReview

vars == <<document, at, extracted, review>>

-----------------------------------------------------------------------------
(* Items and documents. *)

Item(is, value, currency) == [is |-> is, value |-> value, currency |-> currency]
Nul == Item("nul", {}, {})
Blank == Item("blank", {}, {})
Break == Item("break", {}, {})
Nothing == Item("nothing", {}, {})

\* A value that is there but is no date and no amount.
Garbled == 0

FieldNames == {"number", "date", "due", "gross", "net", "tax"}
NoElements == [f \in FieldNames \union {"currency"} |-> {}]

Kinds == {"pdf", "encrypted", "damaged", "image", "unknown", "text", "xml", "not_utf8"}

\* pages: the texts of a PDF's pages, or the one text of a text file;
\* elements and markup matter for XML only.
Document(kind, pages, elements, markup) ==
  [kind |-> kind, pages |-> pages, elements |-> elements, markup |-> markup]

ItemKinds == {"nul", "blank", "break", "invoice number", "invoice date", "due date",
              "grand total", "total", "subtotal", "vat"}
Items == [is : ItemKinds, value : SUBSET Int, currency : SUBSET STRING]

ReviewAssumption ==
  /\ MaxCharacters \in Nat \ {0} /\ MaxPages \in Nat
  /\ \A d \in Documents :
       /\ d.kind \in Kinds /\ d.pages \in Seq(Seq(Items))
       /\ d.kind \in {"text", "xml"} => Len(d.pages) = 1

NotExtracted == [method |-> "none", text |-> <<>>, truncated |-> FALSE, warning |-> "none"]
NotReviewed == [fields |-> NoElements, checks |-> {}, status |-> "none"]

Init ==
  /\ document \in Documents
  /\ at = "received"
  /\ extracted = NotExtracted
  /\ review = NotReviewed

-----------------------------------------------------------------------------
(* Extraction. *)

\* One turn of the loop over the pages.
TakePage(got, page) ==
  IF got.cut THEN got
  ELSE IF Len(page) > got.left
    THEN [got EXCEPT !.parts = Append(@, SubSeq(page, 1, got.left)), !.cut = TRUE]
    ELSE LET left == got.left - Len(page) - 1
         IN [parts |-> Append(got.parts, page), left |-> left, cut |-> left <= 0]

TakePages(pages) ==
  LET after[i \in 0..Len(pages)] ==
        IF i = 0 THEN [parts |-> <<>>, left |-> MaxCharacters, cut |-> FALSE]
        ELSE TakePage(after[i - 1], pages[i])
  IN after[Len(pages)]

\* "\n".join(parts)
Joined(parts) ==
  LET upTo[i \in 0..Len(parts)] ==
        IF i = 0 THEN <<>>
        ELSE IF i = 1 THEN parts[i]
        ELSE upTo[i - 1] \o <<Break>> \o parts[i]
  IN upTo[Len(parts)]

WithoutNuls(text) ==
  LET kept[i \in 0..Len(text)] ==
        IF i = 0 THEN <<>>
        ELSE IF text[i] = Nul THEN kept[i - 1]
        ELSE Append(kept[i - 1], text[i])
  IN kept[Len(text)]

IsBlank(text) == \A i \in DOMAIN text : text[i] \in {Blank, Break}

Shortest(m, n) == IF m < n THEN m ELSE n

Unread(method, warning) ==
  [method |-> method, text |-> <<>>, truncated |-> FALSE, warning |-> warning]

\* Faulty: what the loop over the pages cut off is forgotten.
BoundedHere(method, text, cut) ==
  LET normal == WithoutNuls(text)
      truncated == Len(normal) > MaxCharacters
  IN [method |-> method, text |-> SubSeq(normal, 1, Shortest(Len(normal), MaxCharacters)),
      truncated |-> truncated, warning |-> IF truncated THEN "truncated" ELSE "none"]

Bounded(method, text, cut) ==
  LET normal == WithoutNuls(text)
      truncated == cut \/ Len(normal) > MaxCharacters
  IN [method |-> method,
      text |-> SubSeq(normal, 1, Shortest(Len(normal), MaxCharacters)),
      truncated |-> truncated, warning |-> IF truncated THEN "truncated" ELSE "none"]

ExtractPdf ==
  /\ document.kind = "pdf"
  /\ IF Len(document.pages) > MaxPages
       THEN extracted' = Unread("manual_review", "too many pages")
       ELSE LET got == TakePages(document.pages)
                result == Bounded("pypdf", Joined(got.parts), got.cut)
            IN extracted' = IF IsBlank(result.text)
                              THEN Unread("ocr_required", "no extractable text")
                              ELSE result

ExtractText ==
  /\ document.kind \in {"text", "xml"}
  /\ extracted' = Bounded(document.kind, document.pages[1], FALSE)

\* Encrypted and damaged PDFs, images, other types and text that is no UTF-8.
ExtractNothing ==
  /\ document.kind \in {"encrypted", "damaged", "image", "unknown", "not_utf8"}
  /\ extracted' = Unread("manual_review", document.kind)

Extract ==
  /\ at = "received"
  /\ ExtractPdf \/ ExtractText \/ ExtractNothing
  /\ at' = "extracted"
  /\ UNCHANGED <<document, review>>

-----------------------------------------------------------------------------
(* Fields. *)

\* The labels find() sees in a line: also those that lie within another one.
LabelsIn(item) ==
  {item.is} \union (IF item.is \in {"subtotal", "grand total"} THEN {"total"} ELSE {})

Labels == [number |-> {"invoice number"}, date |-> {"invoice date"}, due |-> {"due date"},
           gross |-> {"grand total", "total"}, net |-> {"subtotal"}, tax |-> {"vat"}]

\* _labeled_text: the first line with one of the labels and something after it.
Labeled(text, f) ==
  LET hits == {i \in DOMAIN text : /\ LabelsIn(text[i]) \intersect Labels[f] # {}
                                   /\ text[i].value # {}}
  IN IF hits = {} THEN Nothing ELSE text[CHOOSE i \in hits : \A k \in hits : i <= k]

\* _labeled_date and _labeled_amount: nothing if that value cannot be parsed,
\* whatever later lines say; the number is taken as it is.
LabeledValue(text, f) ==
  IF f = "number" THEN Labeled(text, f).value ELSE Labeled(text, f).value \ {Garbled}

LabeledCurrency(text, f) ==
  IF LabeledValue(text, f) = {} THEN {} ELSE Labeled(text, f).currency

First(a, b) == IF a # {} THEN a ELSE b

\* XML elements first, then the labelled lines of the text.
Fields(text, elements) ==
  [f \in FieldNames \union {"currency"} |->
     First(elements[f],
       IF f = "currency"
         THEN First(LabeledCurrency(text, "gross"),
                    First(LabeledCurrency(text, "net"), LabeledCurrency(text, "tax")))
         ELSE LabeledValue(text, f))]

\* _extract_xml_fields reads the payload, not the bounded text.
XmlFields(d) ==
  IF d.kind # "xml" \/ d.markup # "good" THEN NoElements
  ELSE [f \in DOMAIN d.elements |->
          IF f \in {"number", "currency"} THEN d.elements[f] ELSE d.elements[f] \ {Garbled}]

-----------------------------------------------------------------------------
(* Checks and status. *)

Check(code, about, outcome) == [code |-> code, about |-> about, outcome |-> outcome]

Required == {"number", "date", "gross"}

\* Two cents, in cents.
Consistent(net, tax, gross) == net + tax - gross \in -2..2

Checks(warning, fields) ==
  {Check("extraction_warning", "all", "manual") : w \in {warning} \ {"none"}}
  \union {Check("missing", f, "manual") : f \in {r \in Required : fields[r] = {}}}
  \union {Check("present", f, "passed") : f \in {r \in Required : fields[r] # {}}}
  \union (IF fields.currency = {} THEN {Check("currency_missing", "all", "warning")}
          ELSE IF fields.currency = {ExpectedCurrency} THEN {Check("currency_match", "all", "passed")}
          ELSE {Check("currency_mismatch", "all", "warning")})
  \union {Check("due_date_order", "all", IF due < day THEN "warning" ELSE "passed") :
            due \in fields.due, day \in fields.date}
  \union {Check("amount_consistency", "all",
                IF Consistent(net, tax, gross) THEN "passed" ELSE "warning") :
            net \in fields.net, tax \in fields.tax, gross \in fields.gross}

Status(text, checks) ==
  IF IsBlank(text) \/ \E c \in checks : c.outcome = "manual"
    THEN "manual_review_required" ELSE "ready_for_human_review"

\* A declaration of an entity is refused by the XML parser with an exception
\* that nothing catches.
Review ==
  /\ at = "extracted"
  /\ IF document.kind = "xml" /\ document.markup = "forbidden" /\ extracted.text # <<>>
       THEN at' = "raised" /\ UNCHANGED review
       ELSE LET fields == Fields(extracted.text,
                                 IF extracted.text = <<>> THEN NoElements
                                 ELSE XmlFields(document))
                checks == Checks(extracted.warning, fields)
            IN /\ review' = [fields |-> fields, checks |-> checks,
                             status |-> Status(extracted.text, checks)]
               /\ at' = "done"
  /\ UNCHANGED <<document, extracted>>

Next == Extract \/ Review

Spec == Init /\ [][Next]_vars

-----------------------------------------------------------------------------
(* Properties. *)

Statuses == {"none", "ready_for_human_review", "manual_review_required"}
Outcomes == {"passed", "warning", "manual"}

(* The steps follow each other and leave an extraction and a review behind. *)
TypeOK ==
  /\ document.kind \in Kinds
  /\ at \in {"received", "extracted", "done", "raised"}
  /\ at = "received" => extracted = NotExtracted
  /\ at # "done" => review = NotReviewed
  /\ at = "done" => /\ review.status \in Statuses \ {"none"}
                    /\ \A c \in review.checks : c.outcome \in Outcomes

(* All the text there is in a document, without the NULs: the reference the *)
(* bounded extraction is measured against.                                  *)
WholeText(d) ==
  IF d.kind \in {"pdf", "text", "xml"} THEN WithoutNuls(Joined(d.pages)) ELSE <<>>

(* No text is lost silently: when the text is not all there is in the         *)
(* document, a warning says so and a person is sent to the document           *)
(* (_extract_pdf and _bounded, household/invoices.py:112-146 and 157-165).    *)
NoSilentCut ==
  at # "received" /\ extracted.text # WholeText(document) =>
    /\ extracted.warning # "none"
    /\ at = "done" => review.status = "manual_review_required"

(* The text stays within its limit, joined pages and all; what is not cut is  *)
(* a prefix of the whole when no NUL was in the way.                          *)
TextBounded ==
  /\ Len(extracted.text) <= MaxCharacters
  /\ IsPrefix(extracted.text, WholeText(document))

(* A review that is ready rests on the whole document: its required fields    *)
(* are there and every field is what the complete text and all its elements   *)
(* say (_extract_fields and review, household/invoices.py:197-310).           *)
ReadyMeansRead ==
  at = "done" /\ review.status = "ready_for_human_review" =>
    /\ \A f \in Required : review.fields[f] # {}
    /\ review.fields = Fields(WholeText(document), XmlFields(document))
    /\ ~IsBlank(WholeText(document))

(* A line whose label has nothing after it hides no later one: a required     *)
(* field reported missing is missing in every line with its label, or the     *)
(* first value there is cannot be read (_labeled_text, invoices.py:387-405).  *)
MissingIsMissing ==
  at = "done" /\ extracted.warning = "none" =>
    LET whole == WholeText(document)
    IN \A f \in Required : review.fields[f] = {} =>
         \A i \in DOMAIN whole :
           LabelsIn(whole[i]) \intersect Labels[f] # {} /\ whole[i].value # {} =>
             \E k \in 1..i : /\ Garbled \in whole[k].value
                            /\ LabelsIn(whole[k]) \intersect Labels[f] # {}

(* In an XML invoice the elements overrule the labels that happen to stand in *)
(* its text (setdefault, household/invoices.py:332-378).                      *)
ElementsFirst ==
  at = "done" /\ document.kind = "xml" /\ extracted.text # <<>> =>
    \A f \in FieldNames : XmlFields(document)[f] # {} =>
      review.fields[f] = XmlFields(document)[f]
=============================================================================
