------------------------------- MODULE Buffer -------------------------------
(***************************************************************************)
(* The resizable buffer of src/common/memory.c: a header with the policy   *)
(* and the two sizes, and the caller's bytes behind it.  buffer_resize     *)
(* never writes the sizes of the header again (real_size stays equal to    *)
(* user_size, one variable here); how many bytes there really are is       *)
(* known to the allocator alone: `room`.                                   *)
(***************************************************************************)
EXTENDS Naturals

CONSTANT MaxSize   \* bound on the sizes asked for

ASSUME MaxSizeAssumption == MaxSize \in Nat

VARIABLES
  pol,        \* buffer_policy_t
  user_size,  \* what buffer_size and buffer_size_real return
  room,       \* bytes behind the header
  granted     \* the size of the last resize that returned true

buffervars == <<pol, user_size, room, granted>>

\* A type-correct state of the buffer.
BufferTypeOK ==
  /\ pol \in {"shrink", "no_shrink"}
  /\ user_size \in 0..MaxSize /\ room \in 0..MaxSize /\ granted \in 0..MaxSize

\* buffer_init; it has no return statement, and in the unoptimised build the
\* caller gets the pointer all the same.
BufferInit ==
  /\ pol \in {"shrink", "no_shrink"}
  /\ user_size \in 0..MaxSize
  /\ room = user_size /\ granted = user_size

\* Mutant: a failed reallocation is reported as a success.
ReallocateHopes(size) == granted' = size /\ (room' = size \/ UNCHANGED room)

\* reallocate: the block gets the new size, or NULL and nothing changes.
Reallocate(size) ==
  \/ room' = size /\ granted' = size
  \/ UNCHANGED <<room, granted>>

\* buffer_realloc_no_shrink returns early for a size below user_size.
Keeps(size) == pol = "no_shrink" /\ size < user_size

\* buffer_resize, through the table of the two policies
BufferResize(size) ==
  /\ IF Keeps(size) THEN granted' = size /\ UNCHANGED room ELSE Reallocate(size)
  /\ UNCHANGED <<pol, user_size>>

BufferNext == \E size \in 0..MaxSize : BufferResize(size)

BufferSpec == BufferInit /\ [][BufferNext]_buffervars

\* After any sequence of resizes, failed ones included, the buffer has the room
\* the last successful resize promised, although the header's size it decides
\* by is never brought up to date.
GrantedIsRoom == granted <= room

\* With the policy that does not shrink, the size buffer_size reports, and the
\* network code fills, never exceeds the block.
SizeIsInside == pol = "no_shrink" => user_size <= room

\* Whatever was resized and failed, the block is as large as buffer_resize
\* promised and, without shrinking, as buffer_size says.
BufferHasRoom == BufferTypeOK /\ GrantedIsRoom /\ SizeIsInside
=============================================================================
