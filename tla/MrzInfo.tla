------------------------------ MODULE MrzInfo ------------------------------
(***************************************************************************)
(* The MRZ information the keys are derived from, built out of what the    *)
(* user types or the application takes from a stored MRZ, and the document *)
(* number Terminal Authentication signs after BAC.  A character is its     *)
(* check-digit value, 0 .. 35, or Filler.                                  *)
(***************************************************************************)
EXTENDS Lists, SequencesExt

Filler == 36
Fillers(n) == [i \in 1 .. n |-> Filler]
IsDigits(s) == \A i \in DOMAIN s : s[i] < 10
NotAccepted == <<>>  \* ValueError, or no fields

\* check_digit: weights 7, 3, 1 by position.
CheckDigit(s) ==
  LET weight == <<7, 3, 1>>
      term(i) == (IF s[i] = Filler THEN 0 ELSE s[i]) * weight[((i - 1) % 3) + 1]
      sum[i \in 0 .. Len(s)] == IF i = 0 THEN 0 ELSE sum[i - 1] + term(i)
  IN  sum[Len(s)] % 10

Checked(s) == Append(s, CheckDigit(s))

\* Mutant of NumberField: a short number is not filled up.
NumberFieldUnfilled(doc) == IF Len(doc) < 10 THEN Checked(doc) ELSE doc

\* build_mrz_info's document number: nine characters or fewer have no check
\* digit yet.
NumberField(doc) ==
  CASE Len(doc) < 10 -> doc \o Fillers(9 - Len(doc)) \o <<CheckDigit(doc)>>
    [] Len(doc) = 10 -> doc
    [] Len(doc) > 10 -> NotAccepted

DateField(date) ==
  CASE Len(date) = 6 /\ IsDigits(date)  -> Checked(date)
    [] Len(date) = 7                    -> date
    [] Len(date) # 7 /\ ~(Len(date) = 6 /\ IsDigits(date)) -> NotAccepted

BuildMrzInfo(fields) ==
  LET parts == <<NumberField(fields.doc), DateField(fields.dob), DateField(fields.expiry)>>
  IN  IF NotAccepted \in ToSet(parts) THEN NotAccepted ELSE FlattenSeq(parts)

\* _mrz_to_fields on the second line: the number loses every filler.
MrzToFields(line2) ==
  LET fields == [doc    |-> Picked(SubSeq(line2, 1, 9), {i \in 1 .. 9 : line2[i] # Filler}),
                 dob    |-> SubSeq(line2, 14, 19),
                 expiry |-> SubSeq(line2, 22, 27)]
  IN  IF fields.doc = <<>> \/ ~IsDigits(fields.dob) \/ ~IsDigits(fields.expiry)
      THEN NotAccepted ELSE <<fields>>

\* terminal_authentication after BAC: ID_IC.
IdIc(doc) == IF Len(doc) = 9 THEN Checked(doc) ELSE doc

=============================================================================
