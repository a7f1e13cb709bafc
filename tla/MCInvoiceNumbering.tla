-------------------------- MODULE MCInvoiceNumbering --------------------------
(* Three resolutions of two ranges for TLC: one initialised, one seeded at *)
(* zero as the first migration left it, and one that has expired.          *)
EXTENDS InvoiceNumbering

CONSTANTS fresh, seeded, late

MCFrom == [res \in Resolutions |-> IF res = seeded THEN 5 ELSE 3]
MCTo == [res \in Resolutions |-> MCFrom[res] + 1]
MCStart == [res \in Resolutions |-> IF res = seeded THEN 0 ELSE 2]
=============================================================================
