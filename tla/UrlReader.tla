----------------------------- MODULE UrlReader ------------------------------
(***************************************************************************)
(* The two sides of a URL stream: the reader it draws from, of which only  *)
(* the number of bytes it has given is known, and the caller with its      *)
(* request and the memory the bytes go to.  Byte k of the source is the    *)
(* number k.  A reader may give fewer bytes than asked for, and may have   *)
(* nothing now and more later (an error, a connection).                    *)
(***************************************************************************)
EXTENDS Integers, Sequences, FiniteSetsExt

CONSTANTS
  SourceLength, \* bound: bytes of the source
  Newlines,     \* the bytes equal to url_newline_code
  NoCall

ASSUME SourceAssumption == SourceLength \in Nat

VARIABLES
  reader,       \* bytes the reader has given
  call,         \* the request, [op, n, whence], or NoCall
  out           \* the caller's memory

Least(a, b) == IF a < b THEN a ELSE b

(* what url_read() of the reader may return when asked for n bytes *)
Given(n) == 0..Least(n, SourceLength - reader)
Bytes(from, n) == [i \in 1..n |-> from + i - 1]

Return == call' = NoCall
Continue == UNCHANGED call
=============================================================================
