------------------------------- MODULE Ingest -------------------------------
(***************************************************************************)
(* What staging makes of a file: the parser, the column mapping, the       *)
(* normalization of subscriber numbers, the marking of duplicates and the  *)
(* summary an operator is shown.  All of it is a function of the file, so  *)
(* there are operators here and no state.                                  *)
(*                                                                         *)
(* A file is a sequence of lines, a line a sequence of cells, a cell the   *)
(* sequence of its comma-separated pieces (one, but for the rows an export *)
(* has glued into one quoted field), a piece what it holds of digits and   *)
(* of other text.  Cells are stripped and names of columns folded to lower *)
(* case, as the code does before it compares them.                         *)
(***************************************************************************)
EXTENDS Naturals, SequencesExt

CONSTANTS
    CountryCode,       \* <<2, 5, 5>>
    SubscriberLength,  \* 9
    ChunkSize          \* DEFAULT_CHUNK_SIZE

ASSUME IngestAssumption ==
    /\ CountryCode \in Seq(0..9) /\ Len(CountryCode) > 1
    /\ SubscriberLength \in Nat \ {0} /\ ChunkSize \in Nat \ {0}

Signs == {"", "+"}      \* text that is not a name: nothing, or punctuation
ForeignDigit == 10      \* a Unicode digit that is not one of 0-9
NoNumber == <<>>
NoReason == "none"

Blank(p) == p.text = "" /\ p.digits = <<>>
Nothing == [text |-> "", digits |-> <<>>]

-----------------------------------------------------------------------------
(* Normalization of one number *)

Rejected(why) == [msisdn |-> NoNumber, reason |-> why]
Canonical(d) ==
    /\ Len(d) = Len(CountryCode) + SubscriberLength
    /\ IsPrefix(CountryCode, d)
    /\ \A k \in DOMAIN d : d[k] \in 0..9

Candidate(d) ==
    CASE IsPrefix(CountryCode, d) /\ Len(d) = Len(CountryCode) + SubscriberLength -> d
      [] IsPrefix(<<0>>, d) /\ Len(d) = SubscriberLength + 1 -> CountryCode \o Tail(d)
      [] Len(d) = SubscriberLength -> CountryCode \o d
      [] OTHER -> NoNumber

(* A variant that trusts the length. *)
NormalizeUnchecked(p) ==
    IF Candidate(p.digits) = NoNumber THEN Rejected("INVALID_LENGTH")
    ELSE [msisdn |-> Candidate(p.digits), reason |-> NoReason]

Normalize(p) ==
    IF Blank(p) THEN Rejected("EMPTY")
    ELSE IF p.digits = <<>> THEN Rejected("NON_NUMERIC")
    ELSE IF Candidate(p.digits) = NoNumber THEN Rejected("INVALID_LENGTH")
    ELSE IF ~Canonical(Candidate(p.digits)) THEN Rejected("INVALID_FORMAT")
    ELSE [msisdn |-> Candidate(p.digits), reason |-> NoReason]

-----------------------------------------------------------------------------
(* Which column is which *)

Aliases == [
    msisdn |-> <<"msisdn", "customer_msisdn", "mpa_msisdn", "phone", "phone_number">>,
    territory |-> <<"territory", "zone">>,
    age |-> <<"age">>]

NoProfile == [none |-> "none"]
Names(line) == [k \in DOMAIN line |-> line[k][1].text]

(* sniff_has_header: at least half of a plausible number is digits. *)
HeaderLike(cell) == cell[1].text \notin Signs /\ cell[1].digits = <<>>
HasHeader(file) == file.profile # NoProfile \/ HeaderLike(file.lines[1][1])

DefaultMapping(names) ==
    LET present == {c \in DOMAIN Aliases : ToSet(Aliases[c]) \cap ToSet(names) # {}}
    IN  [c \in present |->
            Aliases[c][SelectInSeq(Aliases[c], LAMBDA a : a \in ToSet(names))]]

(* An empty file, a blank first line and a header without a known name of  *)
(* the number raise an exception.                                          *)
Resolvable(file) ==
    \/ file.profile # NoProfile
    \/ /\ file.lines # <<>> /\ file.lines[1] # <<>>
       /\ HasHeader(file) => "msisdn" \in DOMAIN DefaultMapping(Names(file.lines[1]))

ByHeader(file) ==
    IF file.profile # NoProfile THEN file.profile
    ELSE IF HasHeader(file) THEN DefaultMapping(Names(file.lines[1]))
    ELSE <<>>

(* The column of each field; a name the header lacks has none. *)
Columns(file) ==
    IF ~HasHeader(file) THEN [c \in {"msisdn"} |-> 1]
    ELSE LET names == Names(file.lines[1])
             wanted == ByHeader(file)
         IN  [c \in {c \in DOMAIN wanted : Contains(names, wanted[c])} |->
                 SelectInSeq(names, LAMBDA n : n = wanted[c])]

-----------------------------------------------------------------------------
(* Rows *)

BlankLine(line) == \A k \in DOMAIN line : Len(line[k]) = 1 /\ Blank(line[k][1])

(* The lines of data with their numbers as an operator counts them: what   *)
(* has been read of the file after each of its lines.                      *)
DataLines(file) ==
    LET first == IF HasHeader(file) THEN 2 ELSE 1
        read[n \in 0..Len(file.lines)] ==
            IF n < first THEN <<>>
            ELSE IF BlankLine(file.lines[n]) THEN read[n - 1]
            ELSE Append(read[n - 1], [number |-> n, cells |-> file.lines[n]])
    IN  read[Len(file.lines)]

(* Only the number is taken out of a glued field; of any other the pieces  *)
(* stay together, and are text.                                            *)
Unglue(cell) == cell[1]
Whole(cell) == IF Len(cell) = 1 THEN cell[1] ELSE [text |-> "glued", digits |-> <<>>]
Field(line, c, k) ==
    IF k > Len(line) THEN Nothing ELSE IF c = "msisdn" THEN Unglue(line[k]) ELSE Whole(line[k])

Parse(columns, l) ==
    [row_number |-> l.number,
     raw |-> [c \in DOMAIN columns |-> Field(l.cells, c, columns[c])],
     warned |-> Len(l.cells) < Cardinality(DOMAIN columns)]

Rows(file) ==
    LET columns == Columns(file)
        lines == DataLines(file)
    IN  [k \in 1..Len(lines) |-> Parse(columns, lines[k])]

Smaller(a, b) == IF a < b THEN a ELSE b

(* A variant that forgets the chunk begun last. *)
FullChunks(file) ==
    [c \in 1..(Len(Rows(file)) \div ChunkSize) |->
        SubSeq(Rows(file), (c - 1) * ChunkSize + 1, c * ChunkSize)]

Chunks(file) ==
    LET rows == Rows(file)
    IN  [c \in 1..((Len(rows) + ChunkSize - 1) \div ChunkSize) |->
            SubSeq(rows, (c - 1) * ChunkSize + 1, Smaller(c * ChunkSize, Len(rows)))]

Classify(row) ==
    LET number == IF "msisdn" \in DOMAIN row.raw THEN row.raw.msisdn ELSE Nothing
        result == Normalize(number)
    IN  [row_number |-> row.row_number, raw |-> row.raw, msisdn |-> result.msisdn,
         status |-> IF result.msisdn # NoNumber THEN "VALID" ELSE "INVALID",
         reason |-> IF result.msisdn # NoNumber THEN NoReason
                    ELSE IF row.warned THEN "columns missing" ELSE result.reason]

-----------------------------------------------------------------------------
(* What SQL makes of the staged rows of an import, in the order of their ids *)

Valid(staged) == {k \in DOMAIN staged : staged[k].status = "VALID"}
WithStatus(staged, s) == Cardinality({k \in DOMAIN staged : staged[k].status = s})

(* A variant that keeps the last row of a number. *)
MarkButLast(staged) ==
    [k \in DOMAIN staged |->
        IF /\ k \in Valid(staged)
           /\ \E j \in Valid(staged) : j > k /\ staged[j].msisdn = staged[k].msisdn
        THEN [staged[k] EXCEPT !.status = "DUPLICATE"]
        ELSE staged[k]]

(* Every VALID row but the first of its number becomes a DUPLICATE. *)
MarkDuplicates(staged) ==
    LET before(j, k) ==
            \/ staged[j].row_number < staged[k].row_number
            \/ /\ staged[j].row_number = staged[k].row_number
               /\ j < k
        first(k) == \A j \in Valid(staged) :
                        staged[j].msisdn = staged[k].msisdn => ~before(j, k)
    IN  [k \in DOMAIN staged |->
            IF k \in Valid(staged) /\ ~first(k)
            THEN [staged[k] EXCEPT !.status = "DUPLICATE"]
            ELSE staged[k]]

Zone(row) == IF "territory" \in DOMAIN row.raw THEN row.raw.territory.text ELSE "(unspecified)"
ZoneDistribution(staged) ==
    [z \in {Zone(staged[k]) : k \in Valid(staged)} |->
        Cardinality({k \in Valid(staged) : Zone(staged[k]) = z})]

Summary(staged) ==
    [total |-> Len(staged),
     valid |-> WithStatus(staged, "VALID"),
     invalid |-> WithStatus(staged, "INVALID"),
     duplicate |-> WithStatus(staged, "DUPLICATE"),
     zones |-> ZoneDistribution(staged)]

(* The cast NULLIF(raw->>'age', '')::int. *)
Age(row) == IF "age" \in DOMAIN row.raw THEN row.raw.age ELSE Nothing
Castable(p) == Blank(p) \/ (p.digits # <<>> /\ p.text \in Signs)
AllCastable(staged) == \A k \in Valid(staged) : Castable(Age(staged[k]))

(* The set a commit inserts: base_members and dnd_records ignore repeats of *)
(* a number.                                                                *)
BaseMembers(staged) ==
    {[msisdn |-> staged[k].msisdn, territory |-> Zone(staged[k]), age |-> Age(staged[k])] :
        k \in Valid(staged)}
DndMembers(staged) == {staged[k].msisdn : k \in Valid(staged)}
=============================================================================
