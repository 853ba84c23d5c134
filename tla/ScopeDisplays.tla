--------------------------- MODULE ScopeDisplays ---------------------------
(***************************************************************************)
(* The two displays that read the scope's history: the vectorscope, which  *)
(* polls for new frames on a tick and reads again when it is painted, and  *)
(* the spectrum, which reads on a tick only.  Each stops working while the *)
(* sound is digital silence, and must not stop with an old picture up.     *)
(*                                                                         *)
(* A frame is loud or all-zero.  What a display shows is the ages of the   *)
(* loud frames in its window: {} is the picture of silence.  The history   *)
(* is the atomic window of ScopeWindow, which ScopeBuffer implements: a    *)
(* read returns the newest frames exactly or is rejected, and it can be    *)
(* rejected only while frames are being pushed.                            *)
(***************************************************************************)
EXTENDS Integers

CONSTANTS
  HistoryFrames,       \* frames the history keeps (16384)
  WindowSizes,    \* what windowFrames() can return, by persistence
  FftSize,        \* the spectrum's window (8192)
  MaxBlock,        \* bound: frames in one block
  MaxPlayed,      \* bound: frames pushed in one behaviour
  MaxStall,       \* bound: frames pushed between two polls of the vectorscope
  MaxSettings     \* bound: persistence changes and reopened editors

ASSUME DisplaysAssumption ==
  /\ HistoryFrames \in Nat /\ FftSize \in 1..HistoryFrames
  /\ WindowSizes \subseteq 1..(HistoryFrames - 1)
  /\ MaxBlock \in Nat /\ MaxPlayed \in Nat /\ MaxStall \in Nat /\ MaxSettings \in Nat

VARIABLES
  playing,        \* the host is calling processBlock
  pushed,          \* frames pushed
  loud,           \* the positions of those that are not all-zero
  settings,       \* history: changes counted by MaxSettings
  opened,         \* the frames pushed when the editor was opened
  windowFrames,   \* the vectorscope's window
  lastSeenCount, lastNonZero, lastFrameSilent, frameDirty,
  repaintAsked,   \* a repaint() not yet carried out
  picture,        \* what the vectorscope shows
  fftSeenCount, fftNonZero, lastWindowSilent,
  fftWoken,       \* pushFFT() is between its tail read and its full read
  fftData         \* what the spectrum was computed from

stream   == <<playing, pushed, loud>>
scopeVars == <<windowFrames, lastSeenCount, lastNonZero, lastFrameSilent, frameDirty,
               repaintAsked, picture>>
fftVars  == <<fftSeenCount, fftNonZero, lastWindowSilent, fftWoken, fftData>>
displayVars     == <<stream, settings, opened, scopeVars, fftVars>>

FewerOf(a, b) == IF a <= b THEN a ELSE b

\* The ages of the loud frames among the `count` frames before now.
LoudAges(count) == {pushed - pos : pos \in {q \in loud : q >= pushed - count}}

\* ... among the frames since an earlier read, at most `limit` of them.
LoudSince(since, limit) == LoudAges(FewerOf(pushed - since, limit))

DisplaysInit ==
  /\ playing = TRUE /\ pushed = 0 /\ loud = {}
  /\ settings = 0 /\ opened = 0
  /\ windowFrames \in WindowSizes
  /\ lastSeenCount = 0 /\ lastNonZero = 0
  /\ lastFrameSilent = FALSE /\ frameDirty = TRUE /\ repaintAsked = TRUE
  /\ picture = {}
  /\ fftSeenCount = 0 /\ fftNonZero = 0 /\ lastWindowSilent = FALSE
  /\ fftWoken = FALSE /\ fftData = {}

-----------------------------------------------------------------------------
(* The audio thread. *)

PushFrames ==
  /\ playing
  /\ \E n \in 1..MaxBlock : \E L \in SUBSET (pushed..(pushed + n - 1)) :
       /\ pushed + n <= MaxPlayed
       /\ pushed + n - lastSeenCount <= MaxStall
       /\ pushed' = pushed + n
       /\ loud' = loud \cup L
  /\ UNCHANGED <<playing, settings, opened, scopeVars, fftVars>>

StopOrStart ==
  /\ playing' = ~playing
  /\ UNCHANGED <<pushed, loud, settings, opened, scopeVars, fftVars>>

-----------------------------------------------------------------------------
(* The message thread, which pushFFT() holds until it returns. *)

\* The editor is closed and opened again: both displays are constructed anew.
OpenEditor ==
  /\ ~fftWoken /\ settings < MaxSettings
  /\ settings' = settings + 1
  /\ opened' = pushed
  /\ windowFrames' \in WindowSizes
  /\ lastSeenCount' = pushed /\ lastNonZero' = pushed
  /\ lastFrameSilent' = FALSE /\ frameDirty' = TRUE /\ repaintAsked' = TRUE
  /\ picture' = {}
  /\ fftSeenCount' = pushed /\ fftNonZero' = pushed /\ lastWindowSilent' = FALSE
  /\ fftData' = {}
  /\ UNCHANGED <<stream, fftWoken>>

SetPersistence ==
  /\ ~fftWoken /\ settings < MaxSettings
  /\ settings' = settings + 1
  /\ windowFrames' \in WindowSizes
  /\ frameDirty' = TRUE
  /\ UNCHANGED <<stream, opened, lastSeenCount, lastNonZero, lastFrameSilent,
                 repaintAsked, picture, fftVars>>

\* updateDisplay() with frames to poll and a read that is not rejected.
PollNewSamples ==
  /\ ~fftWoken /\ pushed # lastSeenCount
  /\ lastNonZero' = IF LoudSince(lastSeenCount, HistoryFrames) # {} THEN pushed ELSE lastNonZero
  /\ lastSeenCount' = pushed
  /\ lastFrameSilent' = (pushed - lastNonZero' >= windowFrames)
  /\ frameDirty' = (frameDirty \/ ~(lastFrameSilent' /\ lastFrameSilent))
  /\ repaintAsked' = (repaintAsked \/ frameDirty')
  /\ UNCHANGED <<stream, settings, opened, windowFrames, picture, fftVars>>

\* Mutant: the tick asks for a repaint only when it polled something.
PollNothingQuietly ==
  /\ ~fftWoken /\ (playing \/ pushed = lastSeenCount)
  /\ UNCHANGED displayVars

\* updateDisplay() with nothing to poll, or a rejected read.
PollNothing ==
  /\ ~fftWoken /\ (playing \/ pushed = lastSeenCount)
  /\ repaintAsked' = (repaintAsked \/ frameDirty)
  /\ UNCHANGED <<stream, settings, opened, windowFrames, lastSeenCount, lastNonZero,
                 lastFrameSilent, frameDirty, picture, fftVars>>

\* paint(), asked for by the tick or by a resize or an uncovered window.
PaintAccepted ==
  /\ ~fftWoken
  /\ picture' = LoudAges(windowFrames)
  /\ frameDirty' = FALSE /\ repaintAsked' = FALSE
  /\ UNCHANGED <<stream, settings, opened, windowFrames, lastSeenCount, lastNonZero,
                 lastFrameSilent, fftVars>>

\* Mutant: a paint that was scheduled counts as done.
PaintRejectedClean ==
  /\ ~fftWoken /\ playing
  /\ frameDirty' = FALSE /\ repaintAsked' = FALSE
  /\ UNCHANGED <<stream, settings, opened, windowFrames, lastSeenCount, lastNonZero,
                 lastFrameSilent, picture, fftVars>>

PaintRejected ==
  /\ ~fftWoken /\ playing
  /\ frameDirty' = TRUE /\ repaintAsked' = FALSE
  /\ UNCHANGED <<stream, settings, opened, windowFrames, lastSeenCount, lastNonZero,
                 lastFrameSilent, picture, fftVars>>

-----------------------------------------------------------------------------
(* pushFFT().  A rejected read changes nothing. *)

\* No transform until the history holds a full window.
Transform == fftData' = IF pushed < FftSize THEN fftData ELSE LoudAges(FftSize)

AnalyseWindow ==
  /\ ~fftWoken /\ pushed # fftSeenCount /\ ~lastWindowSilent
  /\ fftNonZero' = IF LoudSince(fftSeenCount, FftSize) # {} THEN pushed ELSE fftNonZero
  /\ fftSeenCount' = pushed
  /\ lastWindowSilent' = (pushed - fftNonZero' >= FftSize)
  /\ IF lastWindowSilent' THEN fftData' = {} ELSE Transform
  /\ UNCHANGED <<stream, settings, opened, scopeVars, fftWoken>>

ScanTail ==
  /\ ~fftWoken /\ pushed # fftSeenCount /\ lastWindowSilent
  /\ IF LoudSince(fftSeenCount, FftSize) = {}
       THEN fftSeenCount' = pushed /\ UNCHANGED fftWoken
       ELSE fftWoken' = TRUE /\ UNCHANGED fftSeenCount
  /\ UNCHANGED <<stream, settings, opened, scopeVars, fftNonZero, lastWindowSilent,
                 fftData>>

WakeUp ==
  /\ fftWoken
  /\ fftWoken' = FALSE
  /\ fftSeenCount' = pushed /\ fftNonZero' = pushed /\ lastWindowSilent' = FALSE
  /\ Transform
  /\ UNCHANGED <<stream, settings, opened, scopeVars>>

WakeRejected ==
  /\ fftWoken /\ playing
  /\ fftWoken' = FALSE
  /\ UNCHANGED <<stream, settings, opened, scopeVars, fftSeenCount, fftNonZero,
                 lastWindowSilent, fftData>>

-----------------------------------------------------------------------------

PushFFT == AnalyseWindow \/ ScanTail \/ WakeUp \/ WakeRejected
DisplaysNext ==
  \/ PushFrames \/ StopOrStart \/ OpenEditor \/ SetPersistence
  \/ PollNewSamples \/ PollNothing \/ PaintAccepted \/ PaintRejected
  \/ PushFFT

DisplaysSpec == DisplaysInit /\ [][DisplaysNext]_displayVars

\* The frame clock keeps ticking, a repaint asked for is carried out, and the
\* message thread comes back from pushFFT().
DisplaysFairness ==
  /\ WF_displayVars(PollNewSamples)
  /\ WF_displayVars(PollNothing)
  /\ WF_displayVars(repaintAsked /\ (PaintAccepted \/ PaintRejected))
  /\ WF_displayVars(PushFFT)

DisplaysFairSpec == DisplaysSpec /\ DisplaysFairness

-----------------------------------------------------------------------------
(* Properties. *)

\* Every variable holds a value of the code's kind; no display has seen more
\* than was pushed.
DisplaysTypeOK ==
  /\ playing \in BOOLEAN /\ pushed \in 0..MaxPlayed /\ loud \subseteq 0..(pushed - 1)
  /\ settings \in 0..MaxSettings /\ opened \in 0..pushed
  /\ windowFrames \in WindowSizes
  /\ lastSeenCount \in 0..pushed /\ lastNonZero \in 0..lastSeenCount
  /\ fftSeenCount \in 0..pushed /\ fftNonZero \in 0..fftSeenCount
  /\ lastFrameSilent \in BOOLEAN /\ frameDirty \in BOOLEAN /\ repaintAsked \in BOOLEAN
  /\ lastWindowSilent \in BOOLEAN /\ fftWoken \in BOOLEAN
  /\ picture \subseteq 1..HistoryFrames /\ fftData \subseteq 1..FftSize

\* A clean vectorscope that has polled all there is shows what there is,
\* whatever silences, settings and rejected paints came before, as long as no
\* poll comes later than a whole history after the one before.
PictureUpToDate ==
  lastSeenCount = pushed /\ ~frameDirty => picture = LoudAges(windowFrames)

\* The vectorscope goes idle over a silent window only after the picture of
\* silence has been accepted (the comment over pollNewSamples' gate).
IdleShowsSilence ==
  lastSeenCount = pushed /\ ~frameDirty /\ LoudAges(windowFrames) = {} => picture = {}

\* A spectrum that has read all there is was computed from what there is, once
\* there was a full window of it since the editor was opened.
SpectrumUpToDate ==
  ~fftWoken /\ fftSeenCount = pushed /\ pushed # opened /\ pushed >= FftSize
    => fftData = LoudAges(FftSize)

\* Neither display rests on an old picture.
DisplaysFresh == DisplaysTypeOK /\ PictureUpToDate /\ SpectrumUpToDate

\* When the host stops, both displays settle on the last sound.
DisplaysSettle ==
  <>[]~playing =>
    /\ <>[](picture = LoudAges(windowFrames))
    /\ <>[](pushed = opened \/ pushed < FftSize \/ fftData = LoudAges(FftSize))
=============================================================================
