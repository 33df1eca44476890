----------------------------- MODULE IngestLaws -----------------------------
(***************************************************************************)
(* The laws of what staging makes of a file: what Ingest computes is held  *)
(* against what a reader of the lines of the file would say.               *)
(***************************************************************************)
EXTENDS Ingest

VARIABLE file

Digits(d) == [text |-> "", digits |-> d]

(* What a file is: lines of cells of pieces, a cell with at least one.      *)
Piece == [text : STRING, digits : Seq(Nat)]
FileOK == file.lines \in Seq(Seq(Seq(Piece) \ {<<>>}))

-----------------------------------------------------------------------------
(* Staging copies the chunks one after the other. *)
Copied == FlattenSeq([c \in DOMAIN Chunks(file) |->
                        [k \in DOMAIN Chunks(file)[c] |-> Classify(Chunks(file)[c][k])]])
Staged == MarkDuplicates(Copied)

Pieces == UNION {UNION {ToSet(file.lines[n][k]) : k \in DOMAIN file.lines[n]} :
                    n \in DOMAIN file.lines}
Subscriber(p) == SubSeq(p.digits, Len(p.digits) - SubscriberLength + 1, Len(p.digits))
Accepted == {p \in Pieces : Normalize(p).msisdn # NoNumber}

(* Every spelling of a number normalizes to one canonical form: what is    *)
(* accepted is in the form the CHECK of base_members demands, two accepted *)
(* spellings agree exactly when their last digits do, and a canonical      *)
(* number is left as it is (normalize_msisdn).                             *)
SpellingsAgree ==
    \A p \in Accepted :
        /\ Canonical(Normalize(p).msisdn)
        /\ Normalize(Digits(Normalize(p).msisdn)) = Normalize(p)
        /\ \A q \in Accepted :
               Normalize(p) = Normalize(q) <=> Subscriber(p) = Subscriber(q)

(* The numbers of the lines that carry data. *)
LinesOfData ==
    {n \in DOMAIN file.lines :
        /\ ~BlankLine(file.lines[n])
        /\ HasHeader(file) => n > 1}

(* Whatever the size of the chunks, staging keeps every line of data once  *)
(* and in its place (stream_row_chunks, copy_staging_rows).                *)
NoLineLost ==
    Resolvable(file) =>
        /\ Len(Copied) = Cardinality(LinesOfData)
        /\ {Copied[k].row_number : k \in DOMAIN Copied} = LinesOfData
        /\ \A c \in DOMAIN Chunks(file) : Len(Chunks(file)[c]) \in 1..ChunkSize

(* The preview counts each line of data once, as valid, as invalid or as a *)
(* repeat of an earlier line, and it counts as many valid rows as a commit *)
(* will make members of a base (mark_duplicate_msisdns,                    *)
(* compute_staging_summary, commit_valid_rows_to_base).                    *)
PreviewAddsUp ==
    Resolvable(file) =>
        LET s == Summary(Staged)
        IN  /\ s.total = s.valid + s.invalid + s.duplicate
            /\ s.valid = Cardinality(BaseMembers(Staged))
            /\ s.valid = Cardinality({Copied[k].msisdn : k \in Valid(Copied)})
            /\ \A k \in Valid(Staged), j \in DOMAIN Staged :
                   /\ Staged[j].status = "DUPLICATE"
                   /\ Staged[j].msisdn = Staged[k].msisdn
                   => Staged[k].row_number < Staged[j].row_number
=============================================================================
