--------------------------------- MODULE Array ---------------------------------
(***************************************************************************)
(* cmn/cmn_array.c: a stack in a block of memory, with overwriting, sorting *)
(* and an iteration that calls back into the application.                   *)
(*                                                                         *)
(* One thread, but array_each runs the callback between two of its steps,  *)
(* and the callback may call anything but array_each itself.  An element   *)
(* is a number; the block keeps what was popped, so that a stale slot can  *)
(* be told from a live one.                                                *)
(* The asserts are compiled out by default; the application pops and gets  *)
(* only what they allow.                                                   *)
(***************************************************************************)
EXTENDS Integers, Sequences, SequencesExt

CONSTANTS
  NAlloc,   \* the elements the array is set up for
  Value     \* the elements' values

ASSUME ArrayAssumption ==
  /\ NAlloc \in Nat \ {0}
  /\ Value \subseteq Nat

VARIABLES
  nelem, nalloc,   \* of struct array
  data,            \* the block, by index
  epc, i, nlocal,   \* array_each: running or not, and its locals i and nelem
  popped,          \* the index of the element that the caller of array_pop may
                   \* still be using, or None
  first, visited   \* history: the elements when array_each began, and those it
                   \* has handed to the callback; forgotten once the callback
                   \* calls anything but array_push

arrayVars == <<nelem, nalloc, data, epc, i, nlocal, popped, first, visited>>
eachVars == <<epc, i, nlocal, first, visited>>

None == -1

\* What memory holds before anything is written to it.
Junk == -1

\* NAlloc is the slot behind the last element; NAlloc + 1 stands for all beyond it.
Indices == 0..(NAlloc + 1)

array_n == nelem

Contents == [k \in 1..nelem |-> data[k - 1]]

\* Memory that no array has been set up in.
ArrayInit ==
  /\ nelem = 0 /\ nalloc = 0
  /\ data = [k \in Indices |-> Junk]
  /\ epc = "idle" /\ i = 0 /\ nlocal = 0
  /\ popped = None
  /\ first = <<>> /\ visited = <<>>

-------------------------------------------------------------------------------
\* Off by one: one element more than there is room for.
FullOneLate == nelem > nalloc

Full == nelem = nalloc

\* The array is not what array_each found when it began.
ForgetEach == first' = <<>> /\ visited' = <<>> /\ UNCHANGED <<epc, i, nlocal>>

array_push(v) ==
  /\ ~Full
  /\ data' = [data EXCEPT ![nelem] = v]
  /\ nelem' = nelem + 1
  /\ popped' = IF popped = nelem THEN None ELSE popped
  /\ UNCHANGED <<nalloc, eachVars>>

\* CMN_EMEM.
PushRefused == Full /\ UNCHANGED arrayVars

\* The pointer returned is to the block itself.
array_pop ==
  /\ nelem # 0
  /\ nelem' = nelem - 1
  /\ popped' = nelem'
  /\ ForgetEach
  /\ UNCHANGED <<nalloc, data>>

\* The element stored counts as one more.
AddCounts(idx, v) ==
  /\ idx # nalloc /\ nalloc # 0
  /\ data' = [data EXCEPT ![idx] = v]
  /\ nelem' = nelem + 1
  /\ popped' = IF popped = idx THEN None ELSE popped
  /\ ForgetEach
  /\ UNCHANGED nalloc

\* array_add does not count what it stores beyond the elements, and refuses only
\* the index nalloc: with a larger one it stores behind the array.
array_add(idx, v) ==
  /\ idx # nalloc /\ nalloc # 0
  /\ data' = [data EXCEPT ![idx] = v]
  /\ popped' = IF popped = idx THEN None ELSE popped
  /\ ForgetEach
  /\ UNCHANGED <<nelem, nalloc>>

\* CMN_EMEM; or, after array_free, an element of no bytes.
AddNothing == UNCHANGED arrayVars

\* The first n slots are rearranged in ascending order.
qsort(n) ==
  \E order \in Bijection(0..(n - 1), 0..(n - 1)) :
    /\ \A j, k \in 0..(n - 1) : j < k => data[order[j]] <= data[order[k]]
    /\ data' = [k \in Indices |-> data[IF k < n THEN order[k] ELSE k]]

\* qsort of the whole block.
SortsBlock ==
  /\ nelem # 0
  /\ qsort(nalloc)
  /\ ForgetEach
  /\ UNCHANGED <<nelem, nalloc, popped>>

\* qsort of the elements.
array_sort ==
  /\ nelem # 0
  /\ qsort(nelem)
  /\ ForgetEach
  /\ UNCHANGED <<nelem, nalloc, popped>>

\* The elements are zeroed and the array holds nothing any more.  array_setup makes
\* it usable again.
array_free ==
  /\ nalloc # 0
  /\ data' = [k \in Indices |-> IF k < nalloc THEN 0 ELSE data[k]]
  /\ nelem' = 0 /\ nalloc' = 0 /\ popped' = None
  /\ ForgetEach

\* The elements that are there already count.
SetupKeepsElements ==
  /\ nalloc' = NAlloc /\ popped' = None
  /\ ForgetEach
  /\ UNCHANGED <<nelem, data>>

\* Also array_create, in a block of its own.
array_setup ==
  /\ nelem' = 0 /\ nalloc' = NAlloc /\ popped' = None
  /\ ForgetEach
  /\ UNCHANGED data

-------------------------------------------------------------------------------
(* array_each *)

\* The number of elements is read once.
EachStart ==
  /\ epc = "idle" /\ nelem # 0
  /\ epc' = "each"
  /\ i' = 0 /\ nlocal' = array_n
  /\ first' = Contents
  /\ visited' = <<data[0]>>
  /\ UNCHANGED <<nelem, nalloc, data, popped>>

\* The element with index i + 1 is handed out.
Visit == visited' = IF first = <<>> THEN <<>> ELSE Append(visited, data[i + 1])

\* The number of elements is read again after every callback.
EachReadsAgain ==
  /\ epc = "each" /\ i + 1 < array_n
  /\ i' = i + 1
  /\ Visit
  /\ UNCHANGED <<nelem, nalloc, data, popped, epc, nlocal, first>>

\* The callback returned CMN_OK: the next element.
EachNext ==
  /\ epc = "each" /\ i + 1 < nlocal
  /\ i' = i + 1
  /\ Visit
  /\ UNCHANGED <<nelem, nalloc, data, popped, epc, nlocal, first>>

\* It was the last one, or the callback returned something else.
EachEnd ==
  /\ epc = "each"
  /\ epc' = "idle"
  /\ i' = 0 /\ nlocal' = 0
  /\ first' = <<>> /\ visited' = <<>>
  /\ UNCHANGED <<nelem, nalloc, data, popped>>

ArrayNext ==
  \/ \E v \in Value : array_push(v) \/ \E idx \in Indices : array_add(idx, v)
  \/ PushRefused \/ AddNothing
  \/ array_pop \/ array_sort \/ array_free \/ array_setup
  \/ EachStart \/ EachNext \/ EachEnd

-------------------------------------------------------------------------------
(* Properties *)

\* The element that array_pop returned a pointer to keeps its value until something
\* is stored in its slot: sorting the rest leaves it alone.
PoppedIntact ==
  [][popped # None /\ popped' = popped => data'[popped] = data[popped]]_arrayVars

\* array_each hands out what the array held when it began, in order and no more
\* than that, as long as the callback does nothing to the array but push.
VisitsWhatWasThere == epc = "each" => IsPrefix(visited, first)

\* The array is a stack.
StackSpec == INSTANCE Stack WITH Capacity <- NAlloc, stack <- Contents
ImplementsStack == StackSpec!Spec
=============================================================================
