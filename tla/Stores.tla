------------------------------- MODULE Stores -------------------------------
(***************************************************************************)
(* What threads share: the data files of DSOs, which any thread of a       *)
(* process reads (DsoData), the histogram of perf top, which one fills and *)
(* another shows (HistsTop), and the ring buffers of perf kvm stat live,   *)
(* which CPUs write and perf reads (KvmLive).  The three share no state: a *)
(* behaviour of all is one of each.                                        *)
(***************************************************************************)

CONSTANTS Threads, Dsos, Size, ChunkSize, RLIMIT_NOFILE, MaxOthers, Reads, Uses
VARIABLES dso_data, others, dso_lock, dso_cache, freed, dso_pc, op
Dso == INSTANCE DsoData WITH
    data <- dso_data, lock <- dso_lock, cache <- dso_cache, pc <- dso_pc

CONSTANTS TopKeys, CollapseKey, KernelKeys, MaxSamples, MaxPresses, Browser
VARIABLES entries_in, in, collapsed, entries, he, nr_entries, total_period, top_lock, rpc,
          rkey, rhe, root, dpc, droot, hide, zero, sym_filter_entry, top_done, samples,
          presses, gone, added, dropped, raced, shared
Top == INSTANCE HistsTop WITH Keys <- TopKeys, lock <- top_lock, done <- top_done

CONSTANTS NrMmaps, Slots, MaxPerMmap, MaxKvmEvents, MaxPasses
VARIABLES kvm_clock, inflight, slots, kvm_head, kvm_tail, kvm_pc, idx, kvm_n, mmap_time,
          flush_time, ntotal, throttled, npasses, kvm_queue, delivered, empty, late
Kvm == INSTANCE KvmLive WITH
    MaxEvents <- MaxKvmEvents, clock <- kvm_clock, head <- kvm_head, tail <- kvm_tail,
    pc <- kvm_pc, n <- kvm_n, queue <- kvm_queue

(* What the proofs need of the constants. *)
ASSUME StoresAssumption == Dso!DsoConstants /\ Top!TopConstants /\ Kvm!KvmConstants

-----------------------------------------------------------------------------
(* Whatever threads do with the data of DSOs: those on the list are the    *)
(* open ones, few are, a read returns all there is, a chunk in the tree is *)
(* not freed, and a descriptor is given out only with the lock.            *)
DsoReads == Dso!DsoReads

(* perf top: while samples are added, collapsed, decayed, hidden and shown *)
(* by two threads, every entry belongs to one tree, what a thread holds is *)
(* not freed, and no tree is changed by one as the other walks it.         *)
TopSound == Top!TreesOwnEntries /\ Top!TreesExclusive /\ Top!HeldIsLive /\ Top!FilterIsLive

(* perf kvm stat live delivers an event before an older one only when the  *)
(* buffer of the older one was found empty in that pass, and what it       *)
(* delivers is what the kernel wrote, although the slot may have been      *)
(* written again.                                                          *)
KvmFlushOrder == Kvm!OnlyEmptyBuffersRace /\ Kvm!DeliveredIntact
=============================================================================
