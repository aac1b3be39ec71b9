---------------------------- MODULE VRAMReadings ----------------------------
(***************************************************************************)
(* Where a reading of the GPU memory comes from, and what it is called:    *)
(* VRAMMonitor of metrics/vram_monitor.py, whose readers fail one call at  *)
(* a time, and the peak meter of serving/vram_monitor.py, which several    *)
(* threads share.  The readers (pyrsmi, NVML, nvidia-smi, torch, the DRM   *)
(* files) are outside; a call is told which of them answer it.             *)
(***************************************************************************)
EXTENDS Integers

CONSTANTS
    Hosts,        \* "amd": pyrsmi initialises; "cuda": detected; "bare"
    Threads,      \* users of the peak meter
    Levels        \* bytes that can be in use

ASSUME LevelsAssumption == Levels \subseteq Nat /\ 0 \in Levels

VARIABLES
    host,         \* what _init found, "unknown" before it
    source,       \* _vram_source
    readFrom,     \* history: who produced the last bytes, if anybody did
    pressureOf,   \* history: who produced the two halves of the last pressure
    level,        \* the bytes in use now
    start, peak,  \* _start_used_bytes, _peak_used_bytes
    reading,      \* thread -> what it read outside the lock, and for which call
    top,          \* history: the most bytes that were in use since the last reset
    told          \* history: the last delta_gb, and the last peak_gb after it

readingVars == <<host, source, readFrom, pressureOf>>
meterVars   == <<level, start, peak, reading, top, told>>

Readers    == {"pyrsmi", "nvml", "smi", "torch", "drm"}
Answering  == {{}, Readers} \cup {{r} : r \in Readers}   \* who answers a call
NotReading == [call |-> "none", bytes |-> 0]
NotTold    == [delta |-> 0, peak |-> 0]

ReadingsInit ==
    /\ host = "unknown" /\ source = "unknown"
    /\ readFrom = "unread" /\ pressureOf = <<"unread", "unread">>

MeterInit ==
    /\ level = 0 /\ start = 0 /\ peak = 0 /\ top = 0
    /\ reading = [t \in Threads |-> NotReading] /\ told = NotTold

-----------------------------------------------------------------------------
\* _init.  Without a working pyrsmi nothing is claimed before a read.
Probe(h) ==
    /\ host = "unknown" /\ host' = h
    /\ source' = IF h = "amd" THEN "pyrsmi" ELSE "unknown"
    /\ UNCHANGED <<readFrom, pressureOf>>

\* _cuda_used_bytes, _cuda_total_bytes: the first of three that answers
CudaReader(ok) ==
    CASE "nvml" \in ok  -> "nvml"
      [] "nvml" \notin ok /\ "smi" \in ok -> "smi"
      [] ok \cap {"nvml", "smi"} = {} /\ "torch" \in ok -> "torch"
      [] OTHER -> "nothing"

CudaLabel(reader) == IF reader = "nothing" THEN "cuda_unavailable" ELSE reader

\* get_used_bytes: who is asked in turn, and the label that stays.  The DRM file
\* that cannot be read counts as 0 bytes, under the label of the file.
UsedFrom(ok) ==
    CASE host = "amd" /\ "pyrsmi" \in ok -> [from |-> "pyrsmi", label |-> "pyrsmi"]
      [] host = "cuda" -> [from |-> CudaReader(ok), label |-> CudaLabel(CudaReader(ok))]
      [] OTHER -> [from |-> IF "drm" \in ok THEN "drm" ELSE "nothing", label |-> "drm"]

\* get_total_bytes: the file that cannot be read counts as 192 GB
TotalFrom(ok) ==
    CASE host = "amd" /\ "pyrsmi" \in ok -> [from |-> "pyrsmi", label |-> "pyrsmi"]
      [] host = "cuda" -> [from |-> CudaReader(ok), label |-> CudaLabel(CudaReader(ok))]
      [] OTHER -> IF "drm" \in ok THEN [from |-> "drm", label |-> "drm"]
                  ELSE [from |-> "amd_default", label |-> "amd_default"]

Labelled(r) == source' = r.label /\ readFrom' = r.from

GetUsed(ok) ==
    /\ host # "unknown"
    /\ Labelled(UsedFrom(ok))
    /\ UNCHANGED <<host, pressureOf>>

GetTotal(ok) ==
    /\ host # "unknown"
    /\ Labelled(TotalFrom(ok))
    /\ UNCHANGED <<host, pressureOf>>

\* get_pressure: a total of 0 is the only one that stops it, and it reads each
\* half with whoever answers then
GetPressure(okTotal, okUsed) ==
    /\ host # "unknown"
    /\ IF TotalFrom(okTotal).from = "nothing"
       THEN /\ Labelled(TotalFrom(okTotal)) /\ UNCHANGED pressureOf
       ELSE /\ Labelled(UsedFrom(okUsed))
            /\ pressureOf' = <<TotalFrom(okTotal).from, UsedFrom(okUsed).from>>
    /\ UNCHANGED host

-----------------------------------------------------------------------------
\* reset, peak_gb, delta_gb and current_gb read before they take the lock
MeterReads(t, call) ==
    /\ reading[t].call = "none"
    /\ reading' = [reading EXCEPT ![t] = [call |-> call, bytes |-> level]]
    /\ UNCHANGED <<level, start, peak, top, told>>

MeterResets(t) ==
    /\ reading[t].call = "reset"
    /\ start' = reading[t].bytes /\ peak' = reading[t].bytes
    /\ top' = IF level > reading[t].bytes THEN level ELSE reading[t].bytes
    /\ told' = NotTold

MeterPeaks(t) ==
    /\ reading[t].call = "peak"
    /\ peak' = IF reading[t].bytes > peak THEN reading[t].bytes ELSE peak
    /\ told' = [told EXCEPT !.peak = peak'] /\ UNCHANGED <<start, top>>

\* delta_gb does not raise the peak; nor does current_gb, which keeps nothing
MeterDeltas(t) ==
    /\ reading[t].call = "delta"
    /\ told' = [delta |-> IF reading[t].bytes < start THEN 0 ELSE reading[t].bytes - start,
                peak  |-> 0]
    /\ UNCHANGED <<start, peak, top>>

MeterRecords(t) ==
    /\ MeterResets(t) \/ MeterPeaks(t) \/ MeterDeltas(t)
    /\ reading' = [reading EXCEPT ![t] = NotReading]
    /\ UNCHANGED level

Use(bytes) ==
    /\ bytes # level /\ level' = bytes /\ top' = IF bytes > top THEN bytes ELSE top
    /\ UNCHANGED <<start, peak, reading, told>>

ReadingsNext ==
    \/ \E h \in Hosts : Probe(h)
    \/ \E ok \in Answering :
          GetUsed(ok) \/ GetTotal(ok) \/ \E okUsed \in Answering : GetPressure(ok, okUsed)

MeterNext ==
    \/ \E t \in Threads :
          MeterRecords(t) \/ \E call \in {"reset", "peak", "delta"} : MeterReads(t, call)
    \/ \E bytes \in Levels : Use(bytes)

\* the two share nothing
VRAMNext == \/ ReadingsNext /\ UNCHANGED meterVars
            \/ MeterNext /\ UNCHANGED readingVars

VRAMSpec == ReadingsInit /\ MeterInit /\ [][VRAMNext]_<<readingVars, meterVars>>

-----------------------------------------------------------------------------
ReadingsTypeOK ==
    /\ readFrom \in Readers \cup {"unread", "amd_default", "nothing"}
    /\ source \in Readers \cup {"unknown", "amd_default", "cuda_unavailable"}
    /\ start \in Levels /\ peak \in Levels

\* "On NVIDIA this is a cuda_* value and is NEVER amd_default_192gb"
\* (get_vram_source), nor are the bytes.
NoGuessOnCuda ==
    host = "cuda" => /\ source \notin {"pyrsmi", "drm", "amd_default"}
                     /\ "amd_default" \notin {readFrom, pressureOf[1], pressureOf[2]}

\* Violated: the label is that "of the backend that produced the last byte
\* reading" (get_vram_source).  A DRM file that cannot be read is reported as
\* 0 bytes read from it, and a get_pressure() hides the guessed total behind it.
LabelIsHonest == readFrom # "unread" /\ source \in Readers => source = readFrom

\* Violated: the halves of a pressure come from one reader.
OneReaderPerPressure ==
    "nothing" \notin {pressureOf[1], pressureOf[2]} => pressureOf[1] = pressureOf[2]

\* Violated by delta_gb: "so callers that do delta <= peak hold".
DeltaWithinPeak == told.peak # 0 => told.delta <= told.peak

\* Violated with two threads: the peak is of the bytes in use "since the last
\* reset()" (peak_gb).  A reading taken before a reset may be recorded after it.
PeakIsSinceReset == peak <= top
=============================================================================
