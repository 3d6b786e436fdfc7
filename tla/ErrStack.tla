------------------------------ MODULE ErrStack ------------------------------
(***************************************************************************)
(* The error stack of src/src/global/errstack.c with ES_BUFFER_BACKED, as  *)
(* errstack.h builds it: one thread's text, in a buffer of fixed size.     *)
(* A message is the place that reports and the length of its text; what it *)
(* says is left out.  es_start and es_end are offsets into the buffer;     *)
(* _append sets them when they are NULL to what es_reset sets.  vsnprintf  *)
(* is taken not to fail.                                                   *)
(***************************************************************************)
EXTENDS Integers, Sequences, FiniteSetsExt

CONSTANTS
    Place,          \* where ES_NEW and ES_FWD are used
    Lengths,        \* how long a message may be
    Size            \* sizeof(es_error_stack)

ASSUME StackAssumption == Lengths \subseteq Nat \ {0} /\ Size \in Nat \ {0, 1}

VARIABLES
    es,             \* es_start, the place of the first NUL, and the text before
                    \* it: which message, and how much of it
    trail           \* what the last failure reported, first to last, in full

Message == [at : Place, len : Lengths]
es_end  == Size - 1

EsTypeOK ==
    /\ es \in [start : 0 .. es_end, nul : 0 .. Size - 1,
               text : Seq([at : Place, len : 1 .. es_end])]
    /\ trail \in Seq(Message)

(* es_reset, and the zeroed buffer of a new thread.                        *)
EsReset == [start |-> 0, nul |-> 0, text |-> << >>]

EsInit == es = EsReset /\ trail = << >>

(* The mutant without the last two lines, which stop es_start at es_end.   *)
AppendedUnclamped(s, m) ==
    LET room == es_end - s.start
        n    == IF room < 0 THEN m.len ELSE Min({m.len, room - 1})
    IN  IF room = 0 THEN s
        ELSE [start |-> s.start + m.len,
              nul   |-> s.start + n,
              text  |-> IF s.start = s.nul /\ n > 0
                        THEN Append(s.text, [m EXCEPT !.len = n]) ELSE s.text]

(* _append, by way of es_append: vsnprintf is given the room as a size_t   *)
(* and returns the length of the whole message.  Text stored behind a NUL  *)
(* is not seen.                                                            *)
Appended(s, m) ==
    LET room == es_end - s.start
        n    == IF room < 0 THEN m.len ELSE Min({m.len, room - 1})
    IN  IF room = 0 THEN s
        ELSE [start |-> Min({s.start + m.len, es_end}),
              nul   |-> s.start + n,
              text  |-> IF s.start = s.nul /\ n > 0
                        THEN Append(s.text, [m EXCEPT !.len = n]) ELSE s.text]

(* The mutant of ES_NEW that forgets the reset.                            *)
NewOverOld(m) == Appended(es, m)

(* ES_NEW and the macros made of it; ES_FWD and the macros made of it; the *)
(* latter is used by a function on the failure of one it has called.       *)
ES_NEW(m) == Appended(EsReset, m)

New(m)        == es' = ES_NEW(m) /\ trail' = <<m>>
Fwd(m)        == es' = Appended(es, m) /\ trail' = Append(trail, m)
NewAndFwd(m, f) == es' = Appended(ES_NEW(m), f) /\ trail' = <<m, f>>

(* es_print: the text up to the first NUL.                                 *)
es_print == es.text

----------------------------------------------------------------------------
(* The lengths of the first k messages of a trail together, and the trail  *)
(* cut to what fits: all but the last byte before es_end.                  *)
Total(t) == LET sum[k \in 0 .. Len(t)] == IF k = 0 THEN 0 ELSE sum[k - 1] + t[k].len
            IN  sum
Left(t, k) == Max({0, es_end - 1 - Total(t)[k - 1]})
Cut(t)     == [k \in {k \in 1 .. Len(t) : Left(t, k) > 0} |->
                  [t[k] EXCEPT !.len = Min({t[k].len, Left(t, k)})]]

(* What es_print prints is the report of the last failure: its origin      *)
(* first, then the functions that forwarded it, innermost first, nothing   *)
(* of an earlier failure, and cut only where the buffer ends               *)
(* (errstack.c:117-141, errstack.h:36-75).                                 *)
TraceOfLastFailure == es_print = Cut(trail)
=============================================================================
