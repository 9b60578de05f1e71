----------------------------- MODULE SlideWindow ------------------------------
(***************************************************************************)
(* The moving average of slide_window.h: a window of WindowLen samples that *)
(* is filled once from the front and shifted from then on.                  *)
(***************************************************************************)
EXTENDS Integers, Sequences, FiniteSetsExt

CONSTANTS
  WindowLen,   \* N of SlideWindow<T, N>, MEM_LEN_
  Garbage      \* what a cell holds before it is written

ASSUME WindowAssumption == WindowLen \in Nat \ {0} /\ Garbage \notin Int

\* memset clears MEM_LEN_ bytes, not MEM_LEN_ cells: cells are left unwritten.
NewWindow ==
  [static_array |-> [i \in 1 .. WindowLen |-> Garbage],
   back |-> 1,            \* back_ptr_
   is_full |-> FALSE]

\* Mutant: the window is shifted one cell too few.
PushShiftsShort(w, value) ==
  IF ~w.is_full
  THEN [static_array |-> [w.static_array EXCEPT ![w.back] = value],
        back |-> IF w.back + 1 > WindowLen THEN WindowLen ELSE w.back + 1,
        is_full |-> w.back + 1 > WindowLen]
  ELSE [w EXCEPT !.static_array =
          [i \in 1 .. WindowLen |->
             IF i = w.back THEN value
             ELSE IF i < WindowLen - 1 THEN w.static_array[i + 1]
             ELSE w.static_array[i]]]

push(w, value) ==
  IF ~w.is_full
  THEN [static_array |-> [w.static_array EXCEPT ![w.back] = value],
        back |-> IF w.back + 1 > WindowLen THEN WindowLen ELSE w.back + 1,
        is_full |-> w.back + 1 > WindowLen]
  ELSE [w EXCEPT !.static_array =
          [i \in 1 .. WindowLen |->
             IF i = w.back THEN value ELSE w.static_array[i + 1]]]

\* The mean of the window, 0 until it is full.
getFilterValue(w) ==
  IF ~w.is_full THEN 0
  ELSE MapThenSumSet(LAMBDA i : w.static_array[i], 1 .. WindowLen) \div WindowLen

===============================================================================
