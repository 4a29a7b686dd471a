----------------------------- MODULE NalSplitter -----------------------------
(***************************************************************************)
(* AnnexBNalSplitter: chunks of a byte stream in, NAL units out.  A byte   *)
(* is 0, 1 or some other number: nothing else matters to a start code.     *)
(***************************************************************************)
EXTENDS Naturals, Sequences, FiniteSets

\* The numbers of a finite set in increasing order: the k-th is the one with k of
\* them up to it.
Sorted(S) == [k \in 1..Cardinality(S) |-> CHOOSE i \in S : Cardinality({j \in S : j <= i}) = k]

\* The length of the start code at i, 0 if there is none.
CodeLength(data, i) ==
  CASE i + 2 <= Len(data) /\ SubSeq(data, i, i + 2) = <<0, 0, 1>>    -> 3
    [] i + 3 <= Len(data) /\ SubSeq(data, i, i + 3) = <<0, 0, 0, 1>> -> 4
    [] OTHER -> 0

\* findStartCode, called again from the end of each code it has found: where the
\* codes are, in order.  The last three bytes of a long code are not another.
StartCodes(data) ==
  LET at == {i \in DOMAIN data : CodeLength(data, i) # 0}
  IN  Sorted({i \in at : i = 1 \/ i - 1 \notin at})

\* extractCompleteNal, until it returns null: a NAL unit is complete when the
\* start code after it is there.
CompleteNals(data, codes) ==
  [k \in 1..(IF codes = <<>> THEN 0 ELSE Len(codes) - 1) |->
     SubSeq(data, codes[k] + CodeLength(data, codes[k]), codes[k + 1] - 1)]

\* The last code goes with the NAL unit before it.
MutantDropsCode(pending, chunk) ==
  LET data  == pending \o chunk
      codes == StartCodes(data)
      last  == codes[Len(codes)]
  IN  [nals    |-> CompleteNals(data, codes),
       pending |-> IF codes = <<>> THEN data
                   ELSE SubSeq(data, last + CodeLength(data, last), Len(data))]

\* push(): the last code stays for the NAL unit it begins.
Push(pending, chunk) ==
  LET data  == pending \o chunk
      codes == StartCodes(data)
  IN  [nals    |-> CompleteNals(data, codes),
       pending |-> IF codes = <<>> THEN data ELSE SubSeq(data, codes[Len(codes)], Len(data))]

-----------------------------------------------------------------------------
\* What the NAL units of a whole stream are: what lies between two successive
\* occurrences of 0 0 1, less one zero before the second.
NalsOf(stream) ==
  LET ones == {i \in 3..Len(stream) : SubSeq(stream, i - 2, i) = <<0, 0, 1>>}
      at   == Sorted(ones)
      End(i) == IF i > 3 /\ stream[i - 3] = 0 THEN i - 4 ELSE i - 3
  IN  [k \in 1..(IF at = <<>> THEN 0 ELSE Len(at) - 1) |->
         SubSeq(stream, at[k] + 1, End(at[k + 1]))]
=============================================================================
