----------------------------- MODULE MCReports ------------------------------
(* The ledger rows and the calendars of the instances of Reports.          *)
EXTENDS Reports

Row(id, source, start, stop, tokens, calls) ==
  [id |-> id, source |-> source, start |-> start, stop |-> stop,
   tokens |-> tokens, calls |-> calls]

\* Two of the requests start at one instant; two touch; one never completed; a
\* call is TRUE if the filtered listing keeps it.
MCPool ==
  {Row(1, "a", 1, 4, 1, <<TRUE, TRUE>>), Row(2, "b", 2, 3, 2, <<FALSE>>),
   Row(3, "a", 4, 7, 4, <<TRUE, FALSE>>), Row(4, "a", 4, 6, 8, <<>>),
   Row(5, "a", 6, 0, 16, <<>>), Row(6, "a", 7, 8, 32, <<FALSE>>)}

\* Days of three hours; on the second, the clock skips one.
Spring == <<<<0, 0>>, <<0, 1>>, <<0, 2>>, <<1, 0>>, <<1, 2>>, <<2, 0>>, <<2, 1>>, <<2, 2>>>>
SpringWindows == {<<1, 9>>, <<4, 6>>}

\* On the first, an hour is repeated.
Autumn == <<<<0, 0>>, <<0, 1>>, <<0, 1>>, <<0, 2>>, <<1, 0>>, <<1, 1>>, <<1, 2>>, <<2, 0>>>>
AutumnWindows == {<<1, 9>>, <<1, 5>>}
=============================================================================
