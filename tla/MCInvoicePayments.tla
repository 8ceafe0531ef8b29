-------------------------- MODULE MCInvoicePayments --------------------------
(* Invoices and wallet purchases of one user, for TLC.                     *)
EXTENDS InvoicePayments

CONSTANTS i1, i2, c1
=============================================================================
