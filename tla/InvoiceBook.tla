------------------------------ MODULE InvoiceBook ------------------------------
(***************************************************************************)
(* What the numbering of invoices promises, without requests, rows, locks  *)
(* or failures: each series of an invoice resolution is a book whose next  *)
(* page is given to one document at a time, until the last page.           *)
(***************************************************************************)
EXTENDS Integers

CONSTANTS
    Documents,
    Series,
    Before,         \* [Series -> Int]: the page before the first
    Last            \* [Series -> Int]: the last page

VARIABLES
    page,           \* the last page given of each series
    issued          \* which document has which page of which series

book == <<page, issued>>

Init == page = Before /\ issued = {}

Issue(d, s) ==
    /\ \A i \in issued : i.by # d
    /\ page[s] < Last[s]
    /\ page' = [page EXCEPT ![s] = @ + 1]
    /\ issued' = issued \cup {[by |-> d, res |-> s, number |-> page[s] + 1]}

Next == \E d \in Documents, s \in Series : Issue(d, s)

Spec == Init /\ [][Next]_book
=============================================================================
