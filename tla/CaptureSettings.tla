-------------------------- MODULE CaptureSettings --------------------------
(***************************************************************************)
(* put_Settings and get_Settings of the pin (ccampin.cpp): what is         *)
(* captured, the desktop or a window, and how large it is.  Only the       *)
(* horizontal half is written down: the vertical one is the same code with *)
(* top, height and bottom.  The media type that put_Settings makes of the  *)
(* result is in PinFormat, the frame length's use in FrameClock.           *)
(***************************************************************************)
EXTENDS Integers

CONSTANTS
    Limit,          \* a UINT is below it: 2^32
    screen_width,
    Windows,        \* the HWNDs of windows that ever exist
    NULL

ASSUME SettingsAssumption ==
    /\ Limit \in Nat /\ screen_width \in 2..(Limit - 1)
    /\ NULL \notin Windows

UINT == 0..(Limit - 1)

\* Whose device context it is.
Dc(hwnd, decorated) == [hwnd |-> hwnd, bTrackDecoration |-> decorated]

Desktop == Dc(NULL, FALSE)

Settings == [fps : UINT, left : UINT, width : UINT, hwnd : Windows \cup {NULL}, bTrackDecoration : BOOLEAN]

\* What is on the screen: whether a window exists, and how wide it is inside.
\* Its frame adds one.
Screens == [Windows -> [exists : BOOLEAN, client : UINT]]

\* The pin, for this; without the frame length, which is UNITS / fps.
Pin(fps, decorated, hwnd, dc, left, right, width) ==
    [m_iFps |-> fps, m_bTrackDecoration |-> decorated, m_hwndToTrack |-> hwnd, m_hScrDc |-> dc,
     left |-> left, right |-> right, m_iCaptureWidth |-> width]

-----------------------------------------------------------------------------
\* One addition or subtraction of UINTs.
Word(x) == IF x >= Limit THEN x - Limit ELSE IF x < 0 THEN x + Limit ELSE x

Smaller(a, b) == IF a < b THEN a ELSE b

IsWindow(screen, h) == h # NULL /\ screen[h].exists

Extent(screen, h, decorated) == screen[h].client + IF decorated THEN 1 ELSE 0

Even(n) == Word(n + (n % 2))

Rate(s) == IF s.fps < 1 THEN 1 ELSE s.fps

\* A window: the right edge stays what it was.
PutWindow_KeepsDc(pin, s, screen) ==      \* mutated form: the old device context stays in use
    Pin(Rate(s), s.bTrackDecoration, s.hwnd, pin.m_hScrDc, 0, pin.right,
        Even(Extent(screen, s.hwnd, s.bTrackDecoration)))

PutWindow(pin, s, screen) ==
    Pin(Rate(s), s.bTrackDecoration, s.hwnd, Dc(s.hwnd, s.bTrackDecoration), 0, pin.right,
        Even(Extent(screen, s.hwnd, s.bTrackDecoration)))

Left(s) == Smaller(s.left, screen_width - 2)

Right(s) == IF s.width = 0 THEN screen_width ELSE Smaller(Word(Left(s) + s.width), screen_width)

PutDesktop(s) ==
    Pin(Rate(s), s.bTrackDecoration, NULL, Desktop, Left(s), Right(s), Word(Right(s) - Left(s)))

\* GetDC fails for a window that is gone: E_INVALIDARG, half way.
PutFails(s, screen) == s.hwnd # NULL /\ ~IsWindow(screen, s.hwnd)

Put(pin, s, screen) ==
    IF PutFails(s, screen)
    THEN Pin(Rate(s), s.bTrackDecoration, NULL, pin.m_hScrDc, pin.left, pin.right, pin.m_iCaptureWidth)
    ELSE IF s.hwnd # NULL THEN PutWindow(pin, s, screen)
    ELSE PutDesktop(s)

Get(pin) ==
    LET desktop == pin.m_hwndToTrack = NULL IN
    [fps |-> pin.m_iFps, hwnd |-> pin.m_hwndToTrack, bTrackDecoration |-> pin.m_bTrackDecoration,
     left |-> IF desktop THEN pin.left ELSE 0,
     width |-> IF desktop THEN pin.m_iCaptureWidth ELSE 0]

-----------------------------------------------------------------------------
(* What a pin is after put_Settings has succeeded. *)

\* A window is captured through its own device context, the desktop through
\* the desktop's.
DcMatches(pin) ==
    IF pin.m_hwndToTrack = NULL
    THEN pin.m_hScrDc = Desktop
    ELSE pin.m_hScrDc = Dc(pin.m_hwndToTrack, pin.m_bTrackDecoration)

\* Settings whose offset and width do not wrap ask for a part of the screen,
\* at least one column wide.
NoWrap(s) == Left(s) + s.width < Limit

InScreen(pin) ==
    /\ 0 <= pin.left /\ pin.left < pin.right /\ pin.right <= screen_width
    /\ pin.m_iCaptureWidth = pin.right - pin.left

\* Putting back what get_Settings says changes nothing, as long as the window
\* has its width.
RoundTrip(pin, screen) ==
    (pin.m_hwndToTrack = NULL
        \/ (IsWindow(screen, pin.m_hwndToTrack)
            /\ Even(Extent(screen, pin.m_hwndToTrack, pin.m_bTrackDecoration)) = pin.m_iCaptureWidth))
    => Put(pin, Get(pin), screen) = pin
=============================================================================
