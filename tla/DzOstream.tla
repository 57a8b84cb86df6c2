----------------------------- MODULE DzOstream -----------------------------
(***************************************************************************)
(* The std::ostream around DzOstreamBuf (src/src/DzOstream.hh) with the    *)
(* one user at a time that its documentation asks for: block writes,       *)
(* single-character puts, destruction, and the end of the process at any   *)
(* moment.                                                                 *)
(***************************************************************************)
EXTENDS DzOstreamBuf

CONSTANTS
  Block,    \* the byte strings a user writes
  MaxSent   \* bound: no more than this many bytes are written

ASSUME BlockAssumption ==
  /\ Block \subseteq Seq(Byte)
  /\ MaxSent \in Nat

\* ostream::write and operator<<: the sentry refuses a stream that is not good.
WriteBlock(s) ==
  /\ src = <<>>
  /\ dz \in {"unopened", "open"}
  /\ o_good
  /\ Len(sent) + Len(s) <= MaxSent
  /\ src' = s
  /\ UNCHANGED <<dz, o_good, d_buffer, d_chunks, d_size, d_dzStream, dzFile, sent>>

\* sputc stores into the put area while there is room.
PutBuffered(c) ==
  /\ dz = "open"
  /\ Len(d_buffer) < ChunkLen
  /\ d_buffer' = Append(d_buffer, c)
  /\ sent' = Append(sent, c)
  /\ UNCHANGED <<dz, o_good, src, d_chunks, d_size, d_dzStream, dzFile>>

PutUnopened ==
  /\ dz = "unopened"
  /\ o_good' = FALSE
  /\ UNCHANGED <<dz, src, d_buffer, d_chunks, d_size, d_dzStream, dzFile, sent>>

Put(c) ==
  /\ src = <<>>
  /\ o_good
  /\ Len(sent) < MaxSent
  /\ PutBuffered(c) \/ Overflow(c) \/ PutUnopened

StreamNext ==
  \/ \E s \in Block : WriteBlock(s)
  \/ \E c \in Byte : Put(c)
  \/ XsputnStep
  \/ BeginClose
  \/ CloseStep
  \/ CrashStream

StreamSpec == DzInit /\ [][StreamNext]_dzVars
=============================================================================
