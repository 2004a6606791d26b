------------------------------ MODULE R1csFile ------------------------------
(***************************************************************************)
(* The r1cs file: r1cs_porting writes it section by section through        *)
(* R1CSWriter, read_r1cs scans the sections and reads them back.           *)
(*                                                                         *)
(* The length of a section is known when the section is: a place holder is *)
(* written first and overwritten at its end.  The number of constraints is *)
(* known when they are written: the header is the second section.          *)
(* The writer may stop after any write, when the disk is full or the       *)
(* process is killed; whatever reached the file may be read afterwards.    *)
(***************************************************************************)
EXTENDS Integers, Sequences, FiniteSets, SequencesExt, Functions

CONSTANTS
    Base,       \* the values of a byte are 0 .. Base - 1; in the code Base = 256
    FieldSize,  \* the bytes of an element of the field
    Circuits    \* the circuits written: see Circuit

\* What the constants must be.
R1csFileAssumption == Base \in Nat \ {0, 1} /\ FieldSize \in Nat \ {0}

VARIABLES
    circuit,  \* what port_r1cs is given
    file,     \* the bytes of the file
    at,       \* the position of the writer
    section,  \* the position of the section in Order
    open,     \* whether it is started
    go_back,  \* where its length is to be written
    size,     \* the bytes of it
    written,  \* its items
    writer,   \* "new", "writing", "done" or "failed"
    reader,   \* "idle", "scanning", "reading", "done" or "error"
    pos,      \* the position of the reader
    scanned,  \* the sections seen, in a row
    starts,   \* section_starts: the position of each type of section
    info      \* R1CSData: what is read of each type of section

writing == <<circuit, file, at, section, open, go_back, size, written, writer>>
reading == <<reader, pos, scanned, starts, info>>
vars == <<writing, reading>>

-----------------------------------------------------------------------------
\* Numbers, little endian.  to_bytes_le gives the digits of a number, one for
\* 0; into_format adds zeros up to the width and never cuts.
RECURSIVE Digits(_)
Digits(n) == IF n < Base THEN <<n>> ELSE <<n % Base>> \o Digits(n \div Base)
Padded(digits, width) == digits \o [i \in 1 .. width - Len(digits) |-> 0]

\* bigint_as_bytes.
Bytes(n, width) == Padded(Digits(n), width)
Value(bytes) == FoldRight(LAMBDA b, v : b + Base * v, bytes, 0)

Magic == <<114, 49, 99, 115>>
Version == <<1, 0, 0, 0>>
PlaceHolder == [i \in 1 .. 8 |-> Base - 1]
Order == IF circuit.gates THEN <<2, 1, 3, 4, 5>> ELSE <<2, 1, 3>>
Type == Order[section]

\* Vectors of bytes are sorted by their first different byte: not the order
\* of the numbers they stand for.
LessBytes(s, t) ==
    \/ Len(s) < Len(t) /\ \A i \in DOMAIN s : s[i] = t[i]
    \/ \E i \in DOMAIN s \cap DOMAIN t : s[i] < t[i] /\ \A j \in 1 .. i - 1 : s[j] = t[j]

\* obtain_linear_combination_block.
Block(combination) ==
    LET signals == SetToSortSeq({Digits(i) : i \in DOMAIN combination}, LessBytes)
    IN  Bytes(Cardinality(DOMAIN combination), 4)
        \o FlattenSeq([k \in DOMAIN signals |->
                Padded(signals[k], 4) \o Bytes(combination[Value(signals[k])], FieldSize)])
\* write_constraint.
ConstraintBytes(c) == Block(c.a) \o Block(c.b) \o Block(c.c)

\* A fault: the private inputs are written before the public ones.
HeaderBytesSwapped(c) ==
    Bytes(FieldSize, 4) \o Bytes(c.field, FieldSize) \o Bytes(Len(c.signals), 4)
    \o Bytes(c.outputs, 4) \o Bytes(c.private, 4) \o Bytes(c.public, 4)
    \o Bytes(c.labels, 8) \o Bytes(Len(c.constraints), 4)
\* HeaderSection::write_section.
HeaderBytes(c) ==
    Bytes(FieldSize, 4) \o Bytes(c.field, FieldSize) \o Bytes(Len(c.signals), 4)
    \o Bytes(c.outputs, 4) \o Bytes(c.public, 4) \o Bytes(c.private, 4)
    \o Bytes(c.labels, 8) \o Bytes(Len(c.constraints), 4)

\* write_custom_gates_usages and write_custom_gates_applications.
UsedBytes(c) ==
    Bytes(Len(c.used), 4)
    \o FlattenSeq([i \in DOMAIN c.used |->
            c.used[i].name \o <<0>> \o Bytes(Len(c.used[i].parameters), 4)
            \o FlattenSeq([j \in DOMAIN c.used[i].parameters |-> Bytes(c.used[i].parameters[j], FieldSize)])])
AppliedBytes(c) ==
    Bytes(Len(c.applied), 4)
    \o FlattenSeq([i \in DOMAIN c.applied |->
            Bytes(c.applied[i].gate, 4) \o Bytes(Len(c.applied[i].signals), 4)
            \o FlattenSeq([j \in DOMAIN c.applied[i].signals |-> Bytes(c.applied[i].signals[j], 8)])])

\* The writes of a section, one after the other.
Items(type) ==
    CASE type = 1 -> <<HeaderBytes(circuit)>>
      [] type = 2 -> [i \in DOMAIN circuit.constraints |-> ConstraintBytes(circuit.constraints[i])]
      [] type = 3 -> [i \in DOMAIN circuit.signals |-> Bytes(circuit.signals[i], 8)]
      [] type = 4 -> <<UsedBytes(circuit)>>
      [] type = 5 -> <<AppliedBytes(circuit)>>

-----------------------------------------------------------------------------
PutAt(f, p, bytes) ==
    [i \in 1 .. IF p + Len(bytes) > Len(f) THEN p + Len(bytes) ELSE Len(f) |->
        IF i > p /\ i <= p + Len(bytes) THEN bytes[i - p] ELSE f[i]]
Put(bytes) == file' = PutAt(file, at, bytes) /\ at' = at + Len(bytes)

\* R1CSWriter::new and initialize_file.
NewFile ==
    /\ writer = "new" /\ writer' = "writing"
    /\ Put(Magic \o Version \o <<Len(Order), 0, 0, 0>>)
    /\ UNCHANGED <<circuit, section, open, go_back, size, written, reading>>

\* start_header_section and the like: initialize_section.
StartSection ==
    /\ writer = "writing" /\ ~ open /\ open' = TRUE
    /\ Put(<<Type, 0, 0, 0>> \o PlaceHolder)
    /\ go_back' = at + 4 /\ size' = 0 /\ written' = 0
    /\ UNCHANGED <<circuit, section, writer, reading>>

\* A fault: a label is counted as four bytes.
GrownShort(item) == IF Type = 3 THEN size + 4 ELSE size + Len(item)
Grown(item) == size + Len(item)

\* write_constraint_usize, write_section, write_signal_usize and the writes
\* of the custom gates.
WriteItem ==
    /\ writer = "writing" /\ open /\ written < Len(Items(Type))
    /\ LET item == Items(Type)[written + 1] IN Put(item) /\ size' = Grown(item)
    /\ written' = written + 1
    /\ UNCHANGED <<circuit, section, open, go_back, writer, reading>>

\* A fault: the writer goes on where it wrote the length.
EndedAtLength == go_back + 8
\* end_section seeks back to the length, and then forth again.
EndedAt == at

EndSection ==
    /\ writer = "writing" /\ open /\ written = Len(Items(Type)) /\ open' = FALSE
    /\ file' = PutAt(file, go_back, Bytes(size, 8))
    /\ at' = EndedAt
    /\ section' = IF section < Len(Order) THEN section + 1 ELSE section
    /\ writer' = IF section < Len(Order) THEN "writing" ELSE "done"
    /\ UNCHANGED <<circuit, go_back, size, written, reading>>

\* A write returns an error, or the process is killed.
Fail ==
    /\ writer = "writing" /\ writer' = "failed"
    /\ UNCHANGED <<circuit, file, at, section, open, go_back, size, written, reading>>

-----------------------------------------------------------------------------
\* The reader.  read_exact past the end of the file is an error: a number is
\* only used when the position after it is in the file.
Byte(i) == IF i \in DOMAIN file THEN file[i] ELSE 0
Number(p, width) == Value([i \in 1 .. width |-> Byte(p + i)])
Fits(p) == p <= Len(file)
Error == reader' = "error" /\ UNCHANGED <<writing, pos, scanned, starts, info>>

\* read_r1cs opens the file: read_initialization.
ReadInitialization ==
    /\ writer \in {"done", "failed"} /\ reader = "idle"
    /\ IF Fits(12) /\ SubSeq(file, 1, 8) = Magic \o Version
       THEN reader' = "scanning" /\ pos' = 12
       ELSE reader' = "error" /\ pos' = 0
    /\ UNCHANGED <<writing, scanned, starts, info>>
Sections == Byte(9)

\* A fault: the length of a section counts its type.
NextSectionTyped == pos + 8 + Number(pos + 4, 8)
NextSection == pos + 12 + Number(pos + 4, 8)

\* The first loop of read_r1cs: one section after the other.
ScanSection ==
    /\ reader = "scanning" /\ scanned < Sections
    /\ IF Fits(pos + 12) /\ Byte(pos + 1) \in 1 .. Sections
       THEN /\ starts' = (Byte(pos + 1) :> pos) @@ starts
            /\ pos' = NextSection /\ scanned' = scanned + 1
            /\ UNCHANGED <<writing, reader, info>>
       ELSE Error
EndScan ==
    /\ reader = "scanning" /\ scanned = Sections
    /\ reader' = "reading"
    /\ UNCHANGED <<writing, pos, scanned, starts, info>>

\* A section that is read: what it holds and where it ends.
ReadHeader(p) ==
    LET width == Number(p, 4)
        q == p + 4 + width
    IN  [end |-> q + 28,
         data |-> [field_size |-> width, field |-> Number(p + 4, width), total_wires |-> Number(q, 4),
                   outputs |-> Number(q + 4, 4), public |-> Number(q + 8, 4), private |-> Number(q + 12, 4),
                   labels |-> Number(q + 16, 8), constraints |-> Number(q + 24, 4)]]

\* A fault: the signals of a linear combination are not counted.
BlockEndNarrow(p, width) == p + 4 + Number(p, 4) * width
BlockEnd(p, width) == p + 4 + Number(p, 4) * (4 + width)
\* read_linear_combination_block.
ReadBlock(p, width) ==
    LET term(k) == p + 4 + (k - 1) * (4 + width)
        terms == 1 .. Number(p, 4)
    IN  [i \in {Number(term(k), 4) : k \in terms} |->
            Number(term(CHOOSE k \in terms : Number(term(k), 4) = i) + 4, width)]

\* read_constraint, and the loop of read_sections.
ReadConstraints(p, width, count) ==
    FoldLeft(LAMBDA read, k :
                LET b == BlockEnd(read.end, width)
                    c == BlockEnd(b, width)
                IN  [end |-> BlockEnd(c, width),
                     data |-> Append(read.data, [a |-> ReadBlock(read.end, width), b |-> ReadBlock(b, width),
                                                 c |-> ReadBlock(c, width)])],
             [end |-> p, data |-> << >>], [k \in 1 .. count |-> k])

ReadSignals(p, count) ==
    [end |-> p + 8 * count, data |-> [k \in 1 .. count |-> Number(p + 8 * (k - 1), 8)]]

\* read_custom_gates_usages: the name of a gate ends at a zero.
ReadUsages(p, width) ==
    FoldLeft(LAMBDA read, k :
                LET zero == CHOOSE z \in read.end + 1 .. Len(file) + 1 :
                                Byte(z) = 0 /\ \A y \in read.end + 1 .. z - 1 : Byte(y) # 0
                    count == Number(zero, 4)
                IN  [end |-> zero + 4 + count * width,
                     data |-> Append(read.data,
                        [name |-> SubSeq(file, read.end + 1, zero - 1),
                         parameters |-> [j \in 1 .. count |-> Number(zero + 4 + (j - 1) * width, width)]])],
             [end |-> p + 4, data |-> << >>], [k \in 1 .. Number(p, 4) |-> k])

\* read_custom_gates_applications.
ReadApplications(p) ==
    FoldLeft(LAMBDA read, k :
                LET count == Number(read.end + 4, 4)
                IN  [end |-> read.end + 8 + count * 8,
                     data |-> Append(read.data,
                        [gate |-> Number(read.end, 4),
                         signals |-> [j \in 1 .. count |-> Number(read.end + 8 + (j - 1) * 8, 8)]])],
             [end |-> p + 4, data |-> << >>], [k \in 1 .. Number(p, 4) |-> k])

ReadOf(type, p) ==
    CASE type = 1 -> ReadHeader(p)
      [] type = 2 -> ReadConstraints(p, info[1].field_size, info[1].constraints)
      [] type = 3 -> ReadSignals(p, info[1].total_wires)
      [] type = 4 -> ReadUsages(p, info[1].field_size)
      [] type = 5 -> ReadApplications(p)

\* read_sections: the header first, and every section where the scan saw it.
ReadSection ==
    LET type == Cardinality(DOMAIN info) + 1
    IN  /\ reader = "reading" /\ type <= Sections
        /\ IF type \in DOMAIN starts /\ Fits(ReadOf(type, starts[type] + 12).end)
           THEN /\ info' = (type :> ReadOf(type, starts[type] + 12).data) @@ info
                /\ pos' = ReadOf(type, starts[type] + 12).end
                /\ UNCHANGED <<writing, reader, scanned, starts>>
           ELSE Error
EndRead ==
    /\ reader = "reading" /\ Cardinality(DOMAIN info) = Sections
    /\ reader' = "done"
    /\ UNCHANGED <<writing, pos, scanned, starts, info>>

Done == reader \in {"done", "error"} /\ UNCHANGED vars

Init ==
    /\ circuit \in Circuits
    /\ file = << >> /\ at = 0 /\ section = 1 /\ open = FALSE
    /\ go_back = 0 /\ size = 0 /\ written = 0 /\ writer = "new"
    /\ reader = "idle" /\ pos = 0 /\ scanned = 0 /\ starts = << >> /\ info = << >>

Next == \/ NewFile \/ StartSection \/ WriteItem \/ EndSection \/ Fail
        \/ ReadInitialization \/ ScanSection \/ EndScan \/ ReadSection \/ EndRead
        \/ Done

Spec == Init /\ [][Next]_vars

-----------------------------------------------------------------------------
\* Types: the writer never leaves a hole in the file.
TypeOK ==
    /\ writer \in {"new", "writing", "done", "failed"}
    /\ reader \in {"idle", "scanning", "reading", "done", "error"}
    /\ \A i \in DOMAIN file : file[i] \in 0 .. 255
    /\ at = Len(file) /\ section \in DOMAIN Order

\* The circuit as the sections hold it.
Content(c) ==
    (1 :> [field_size |-> FieldSize, field |-> c.field, total_wires |-> Len(c.signals),
           outputs |-> c.outputs, public |-> c.public, private |-> c.private,
           labels |-> c.labels, constraints |-> Len(c.constraints)])
    @@ (2 :> c.constraints) @@ (3 :> c.signals)
    @@ (IF c.gates THEN (4 :> c.used) @@ (5 :> c.applied) ELSE << >>)

\* A file that is read to its end holds the circuit it was written from, also
\* when the writer was stopped: nothing less is read without an error
\* (read_r1cs, port_r1cs).
ReadsBack == reader = "done" => info = Content(circuit)

\* A file that was written to its end is read without an error.
FinishedReadable == writer = "done" => reader # "error"

\* The lengths of the sections of a finished file lead the scan from each
\* section to the next, and to the end of the file.
SectionsTile ==
    writer = "done" /\ reader = "reading" /\ info = << >> =>
        /\ DOMAIN starts = 1 .. Sections
        /\ pos = Len(file)

\* Every section is read within the bytes its length claims (read_sections
\* never compares them).
ReadWithinLength ==
    writer = "done" /\ reader \in {"reading", "done"} /\ info # << >> =>
        LET type == Cardinality(DOMAIN info)
        IN  pos = starts[type] + 12 + Number(starts[type] + 4, 8)

=============================================================================
