--------------------------- MODULE ToolboxProofs ----------------------------
(***************************************************************************)
(* What is captured, and what everything is built from.  Frame clock: for  *)
(* every frame length, lead and overshoot the schedule, the rate and the   *)
(* order of the time stamps.  Settings: whatever is typed, saved, loaded   *)
(* and applied, in whatever order windows come and go, a pin whose last    *)
(* put_Settings succeeded is consistent, and nothing a user changed is lost*)
(* on its way to the registry and back.  Tools: for any pins, types,       *)
(* blocks of memory and calls, what the enumerators give out, who owns the *)
(* memory of a sample, and what registering leaves.                        *)
(*                                                                         *)
(* The arithmetic is right because the base of its digits is even and no   *)
(* carry is lost: the product of two magnitudes and its sum with d fit the *)
(* double width (ProductIs, MagnitudeIs), and after n bits of the long     *)
(* division p * 2^n is the quotient times uc * D plus a remainder below    *)
(* that product (BitInv).                                                  *)
(***************************************************************************)
EXTENDS MCToolbox, FiniteSetTheorems, SequenceTheorems, TLAPS

-----------------------------------------------------------------------------
(* What put_Settings leaves, on which the properties of a pin rest. *)

OfDesktop(p) ==
    /\ p.m_hwndToTrack = NULL /\ p.m_hScrDc = Desktop
    /\ p.left \in 0..(screen_width - 2)
    /\ p.right \in 0..screen_width /\ p.right # p.left
    /\ p.m_iCaptureWidth = Word(p.right - p.left)

OfWindow(p) ==
    /\ p.m_hwndToTrack \in Windows
    /\ p.m_hScrDc = Dc(p.m_hwndToTrack, p.m_bTrackDecoration)
    /\ p.left = 0

Sound(p) ==
    /\ p.m_iFps \in Nat \ {0}
    /\ OfDesktop(p) \/ OfWindow(p)

\* A record that has the fields of a pin.
IsPin(p) == \E a, b, c, d, e, f, g : p = Pin(a, b, c, d, e, f, g)

-----------------------------------------------------------------------------
\* The desktop's rectangle is on the screen but for its order, and never empty,
\* whatever the offset and the width wrap to.
LEMMA RectangleSound ==
    ASSUME NEW s \in Settings
    PROVE  /\ Left(s) \in 0..(screen_width - 2)
           /\ Right(s) \in 0..screen_width /\ Right(s) # Left(s)
           /\ NoWrap(s) => Left(s) < Right(s)
<1>1. s.left \in 0..(Limit - 1) /\ s.width \in 0..(Limit - 1)
  BY DEF Settings, UINT
<1>2. Limit \in Nat /\ screen_width \in Nat /\ 2 <= screen_width /\ screen_width < Limit
  BY SettingsAssumption
<1>3. Left(s) \in 0..(screen_width - 2)
  BY <1>1, <1>2 DEF Left, Smaller
<1>4. CASE s.width = 0
  BY <1>2, <1>3, <1>4 DEF Right
<1>5. CASE s.width # 0 /\ Left(s) + s.width < Limit
  <2>1. Word(Left(s) + s.width) = Left(s) + s.width
    BY <1>1, <1>2, <1>3, <1>5 DEF Word
  <2>2. Right(s) = Smaller(Left(s) + s.width, screen_width)
    BY <2>1, <1>5 DEF Right
  <2> QED BY <2>2, <1>1, <1>2, <1>3, <1>5 DEF Smaller
<1>6. CASE s.width # 0 /\ Left(s) + s.width >= Limit
  <2>1. Word(Left(s) + s.width) = Left(s) + s.width - Limit
    BY <1>1, <1>2, <1>3, <1>6 DEF Word
  <2>2. Right(s) = Smaller(Left(s) + s.width - Limit, screen_width)
    BY <2>1, <1>6 DEF Right
  <2>3. Left(s) + s.width - Limit \in 0..(Left(s) - 1)
    BY <1>1, <1>2, <1>3, <1>6
  <2>4. ~NoWrap(s)
    BY <1>1, <1>2, <1>3, <1>6 DEF NoWrap
  <2> QED BY <2>2, <2>3, <2>4, <1>2, <1>3 DEF Smaller
<1> QED BY <1>1, <1>2, <1>3, <1>4, <1>5, <1>6

\* A put_Settings that succeeds makes the pin sound, in whatever state a failed
\* one may have left it.
LEMMA PutSound ==
    ASSUME NEW p, NEW s \in Settings, NEW sc, ~PutFails(s, sc)
    PROVE  LET q == Put(p, s, sc) IN
           /\ IsPin(q) /\ Sound(q)
           /\ (q.m_hwndToTrack = NULL /\ NoWrap(s)) => InScreen(q)
<1> DEFINE q == Put(p, s, sc)
<1>1. Rate(s) \in Nat \ {0} /\ s.hwnd \in Windows \cup {NULL}
  BY SettingsAssumption DEF Settings, UINT, Rate
<1>2. CASE s.hwnd = NULL
  <2>1. q = Pin(Rate(s), s.bTrackDecoration, NULL, Desktop, Left(s), Right(s), Word(Right(s) - Left(s)))
    BY <1>2 DEF Put, PutDesktop
  <2>2. IsPin(q)
    BY <2>1 DEF IsPin
  <2>3. OfDesktop(q)
    BY <2>1, RectangleSound DEF OfDesktop, Pin
  <2>4. q.m_iFps = Rate(s)
    BY <2>1 DEF Pin
  <2>5. ASSUME NoWrap(s) PROVE InScreen(q)
    <3>1. Left(s) \in Nat /\ Right(s) \in Nat /\ Left(s) < Right(s) /\ Right(s) <= screen_width
      BY <2>5, RectangleSound, SettingsAssumption
    <3>2. Word(Right(s) - Left(s)) = Right(s) - Left(s)
      BY <3>1, SettingsAssumption DEF Word
    <3> QED BY <3>1, <3>2, <2>1 DEF InScreen, Pin
  <2> QED BY <1>1, <2>2, <2>3, <2>4, <2>5 DEF Sound
<1>3. CASE s.hwnd # NULL
  <2>1. q = PutWindow(p, s, sc)
    BY <1>3 DEF Put
  <2>2. IsPin(q)
    BY <2>1 DEF PutWindow, IsPin
  <2>3. OfWindow(q) /\ q.m_iFps = Rate(s) /\ q.m_hwndToTrack # NULL
    BY <2>1, <1>1, <1>3 DEF PutWindow, OfWindow, Pin
  <2> QED BY <1>1, <2>2, <2>3 DEF Sound
<1> QED BY <1>2, <1>3

\* Putting back what get_Settings says of a sound pin changes nothing.
LEMMA SoundRoundTrip ==
    ASSUME NEW p, IsPin(p), Sound(p), NEW sc
    PROVE  DcMatches(p) /\ RoundTrip(p, sc)
<1> DEFINE s == Get(p)
<1>1. PICK a, c, d, e, f, g, h : p = Pin(a, c, d, e, f, g, h)
  BY DEF IsPin
<1>2. p.m_iFps = a /\ p.m_bTrackDecoration = c /\ p.m_hwndToTrack = d /\ p.m_hScrDc = e
      /\ p.left = f /\ p.right = g /\ p.m_iCaptureWidth = h
  BY <1>1 DEF Pin
<1>3. DcMatches(p)
  BY SettingsAssumption DEF Sound, OfDesktop, OfWindow, DcMatches
<1>4. s.fps = a /\ s.bTrackDecoration = c /\ s.hwnd = d
  BY <1>2 DEF Get
<1>5. Rate(s) = a
  BY <1>2, <1>4 DEF Sound, Rate
<1>6. CASE OfDesktop(p)
  <2>1. d = NULL /\ e = Desktop /\ f \in 0..(screen_width - 2) /\ g \in 0..screen_width /\ g # f
        /\ h = Word(g - f)
    BY <1>2, <1>6 DEF OfDesktop
  <2>2. s.left = f /\ s.width = h
    BY <1>2, <2>1 DEF Get
  <2>3. Limit \in Nat /\ screen_width \in Nat /\ 2 <= screen_width /\ screen_width < Limit
    BY SettingsAssumption
  <2>4. f \in Nat /\ g \in Nat /\ f <= screen_width - 2 /\ g <= screen_width
    BY <2>1, <2>3
  <2>5. Left(s) = f
    BY <2>2, <2>3, <2>4 DEF Left, Smaller
  <2>6. h # 0 /\ Word(f + h) = g
    BY <2>1, <2>3, <2>4 DEF Word
  <2>7. Right(s) = g
    BY <2>2, <2>3, <2>4, <2>5, <2>6 DEF Right, Smaller
  <2>8. Put(p, s, sc) = PutDesktop(s)
    BY <1>4, <2>1 DEF Put, PutFails
  <2>9. PutDesktop(s) = p
    BY <1>1, <1>4, <1>5, <2>1, <2>5, <2>7 DEF PutDesktop
  <2> QED BY <1>3, <2>8, <2>9 DEF RoundTrip
<1>7. CASE OfWindow(p)
  <2>1. d \in Windows /\ d # NULL /\ f = 0 /\ e = Dc(d, c)
    BY <1>2, <1>7, SettingsAssumption DEF OfWindow
  <2>2. ASSUME IsWindow(sc, d), Even(Extent(sc, d, c)) = h
        PROVE  Put(p, s, sc) = p
    <3>1. Put(p, s, sc) = PutWindow(p, s, sc)
      BY <1>4, <2>1, <2>2 DEF Put, PutFails
    <3>2. PutWindow(p, s, sc) = p
      BY <1>1, <1>2, <1>4, <1>5, <2>1, <2>2 DEF PutWindow
    <3> QED BY <3>1, <3>2
  <2> QED BY <1>2, <1>3, <2>1, <2>2 DEF RoundTrip
<1> QED BY <1>6, <1>7 DEF Sound

-----------------------------------------------------------------------------
(* The dialog and its surroundings.  Only PutSettings touches the pin, with *)
(* the settings in the dialog, which are words whatever was typed.          *)

Typed ==
    /\ controls \in Settings /\ registry \in Settings /\ screen \in Screens
    /\ Get(pin) \in Settings /\ pin.left \in UINT /\ pin.m_iCaptureWidth \in UINT

PinSound ==
    ~putFailed =>
       /\ IsPin(pin) /\ Sound(pin)
       /\ (pin.m_hwndToTrack = NULL /\ NoWrap(asked)) => InScreen(pin)

IInv == Typed /\ PinSound

\* The sound pins are the consistent ones, on every screen.
LEMMA SoundIsConsistent == PinSound => PinConsistent
BY SoundRoundTrip DEF PinSound, PinConsistent

\* Correcting a handle keeps the settings settings.
LEMMA CheckedTyped ==
    ASSUME NEW s \in Settings, screen \in Screens
    PROVE  Checked(s) \in Settings
BY DEF Checked, Settings

\* The width of a window is a word, also when the odd column wraps.
LEMMA EvenTyped ==
    ASSUME NEW sc \in Screens, NEW w \in Windows, NEW decorated \in BOOLEAN
    PROVE  Even(Extent(sc, w, decorated)) \in UINT
<1>1. Limit \in Nat /\ Limit > 2
  BY SettingsAssumption, PageAssumption
<1>2. sc[w].client \in 0..(Limit - 1)
  BY DEF Screens, UINT
<1> DEFINE n == Extent(sc, w, decorated)
<1>3. n \in Nat /\ n <= Limit
  BY <1>1, <1>2 DEF Extent
<1> HIDE DEF n
<1>4. n % 2 \in {0, 1}
  BY <1>3
<1>5. Word(n + (n % 2)) \in 0..(Limit - 1)
  BY <1>1, <1>3, <1>4 DEF Word
<1> QED BY <1>5 DEF Even, UINT, n

\* What get_Settings reports are settings, also after a put_Settings that failed.
LEMMA PutTyped ==
    ASSUME NEW p, Get(p) \in Settings, NEW s \in Settings, NEW sc \in Screens,
           p.left \in UINT, p.m_iCaptureWidth \in UINT
    PROVE  LET q == Put(p, s, sc) IN
           Get(q) \in Settings /\ q.left \in UINT /\ q.m_iCaptureWidth \in UINT
<1> DEFINE q == Put(p, s, sc)
<1>1. /\ s.fps \in UINT /\ s.hwnd \in Windows \cup {NULL} /\ s.bTrackDecoration \in BOOLEAN
      /\ Limit \in Nat /\ Limit > 2 /\ screen_width \in 2..(Limit - 1) /\ 0 \in UINT
  BY SettingsAssumption, PageAssumption DEF Settings, UINT
<1>2. Rate(s) \in UINT
  BY <1>1 DEF Rate, UINT
<1>3. ASSUME NEW hwnd \in Windows \cup {NULL}, NEW dc, NEW left \in UINT, NEW right, NEW width \in UINT,
             q = Pin(Rate(s), s.bTrackDecoration, hwnd, dc, left, right, width)
      PROVE  Get(q) \in Settings /\ q.left \in UINT /\ q.m_iCaptureWidth \in UINT
  <2>1. q.m_iFps = Rate(s) /\ q.m_bTrackDecoration = s.bTrackDecoration /\ q.m_hwndToTrack = hwnd
        /\ q.left = left /\ q.m_iCaptureWidth = width
    BY <1>3 DEF Pin
  <2> QED BY <1>1, <1>2, <1>3, <2>1 DEF Get, Settings
<1>4. CASE PutFails(s, sc)
  BY <1>3, <1>4 DEF Put
<1>5. CASE ~PutFails(s, sc) /\ s.hwnd # NULL
  <2>1. Even(Extent(sc, s.hwnd, s.bTrackDecoration)) \in UINT
    BY <1>1, <1>5, EvenTyped
  <2> QED BY <1>1, <1>3, <1>5, <2>1 DEF Put, PutWindow
<1>6. CASE ~PutFails(s, sc) /\ s.hwnd = NULL
  <2>1. Left(s) \in 0..(screen_width - 2) /\ Right(s) \in 0..screen_width
    BY RectangleSound
  <2>2. Left(s) \in UINT /\ Word(Right(s) - Left(s)) \in UINT
    BY <1>1, <2>1 DEF Word, UINT
  <2> QED BY <1>1, <1>3, <1>6, <2>2 DEF Put, PutDesktop
<1> QED BY <1>4, <1>5, <1>6

\* One control, or one value of the registry, becomes another of its kind.
LEMMA FieldTyped ==
    ASSUME NEW s \in Settings
    PROVE  /\ \A n \in UINT : [s EXCEPT !["fps"] = n] \in Settings
           /\ \A n \in UINT : [s EXCEPT !["left"] = n] \in Settings
           /\ \A n \in UINT : [s EXCEPT !["width"] = n] \in Settings
           /\ \A h \in Windows \cup {NULL} : [s EXCEPT !["hwnd"] = h] \in Settings
           /\ \A b \in BOOLEAN : [s EXCEPT !["bTrackDecoration"] = b] \in Settings
BY DEF Settings

\* A window closes or changes its size.
LEMMA ScreenTyped ==
    ASSUME NEW sc \in Screens, NEW w \in Windows
    PROVE  /\ [sc EXCEPT ![w].exists = FALSE] \in Screens
           /\ \A n \in UINT : [sc EXCEPT ![w].client = n] \in Screens
BY DEF Screens

LEMMA InitIInv == PageInit => IInv
<1> SUFFICES ASSUME PageInit PROVE IInv
  OBVIOUS
<1>1. Limit \in Nat /\ Limit > 2 /\ DefaultRate \in UINT /\ 0 \in UINT
  BY SettingsAssumption, PageAssumption DEF UINT
<1>2. Defaults \in Settings /\ Defaults.hwnd = NULL
  BY <1>1 DEF Defaults, Settings
<1>3. ~PutFails(Defaults, screen)
  BY <1>2 DEF PutFails
<1>4. Get(NewPin) \in Settings /\ NewPin.left \in UINT /\ NewPin.m_iCaptureWidth \in UINT
  BY <1>1 DEF NewPin, Pin, Get, Settings
<1>5. pin = Put(NewPin, Defaults, screen) /\ screen \in Screens /\ controls = Defaults
      /\ registry = Defaults /\ asked = Defaults
  BY DEF PageInit
<1>6. Typed
  BY <1>2, <1>4, <1>5, PutTyped DEF Typed
<1>7. PinSound
  BY <1>2, <1>3, <1>5, PutSound DEF PinSound
<1> QED BY <1>6, <1>7 DEF IInv

\* The actions that leave the pin alone.
LEMMA KeepsSound ==
    ASSUME IInv, UNCHANGED device, controls' \in Settings, registry' \in Settings, screen' \in Screens
    PROVE  IInv'
BY DEF IInv, Typed, PinSound, device

LEMMA NextIInv == IInv /\ [PageNext]_pageVars => IInv'
<1> SUFFICES ASSUME IInv, [PageNext]_pageVars PROVE IInv'
  OBVIOUS
<1>1. controls \in Settings /\ registry \in Settings /\ screen \in Screens
  BY DEF IInv, Typed
<1>2. CASE UNCHANGED <<device, controls, registry, screen>>
  BY <1>1, <1>2, KeepsSound
<1>3. CASE SetPageSite \/ OnConnect \/ OnDisconnect \/ Deactivate \/ SelectWindow \/ Click \/ LoadStart
           \/ LoadValue \/ LoadEnd
  BY <1>2, <1>3 DEF SetPageSite, OnConnect, OnDisconnect, Deactivate, SelectWindow, Click, LoadStart, LoadValue,
                    LoadEnd
<1>4. CASE OnActivate
  <2>1. controls' \in Settings
    BY <1>1, <1>4, CheckedTyped DEF OnActivate, IInv, Typed
  <2> QED BY <1>1, <1>4, <2>1, KeepsSound DEF OnActivate
<1>5. CASE Edit
  <2>1. controls' \in Settings
    <3>1. CASE \E n \in Edits, f \in {"fps", "left", "width"} : controls' = [controls EXCEPT ![f] = n]
      <4>1. PICK n \in Edits, f \in {"fps", "left", "width"} : controls' = [controls EXCEPT ![f] = n]
        BY <3>1
      <4>2. n \in UINT
        BY PageAssumption
      <4>3. CASE f = "fps"
        BY <1>1, <4>1, <4>2, <4>3, FieldTyped
      <4>4. CASE f = "left"
        BY <1>1, <4>1, <4>2, <4>4, FieldTyped
      <4>5. CASE f = "width"
        BY <1>1, <4>1, <4>2, <4>5, FieldTyped
      <4> QED BY <4>3, <4>4, <4>5
    <3>2. CASE \E b \in BOOLEAN : controls' = [controls EXCEPT !.bTrackDecoration = b]
      BY <1>1, <3>2, FieldTyped
    <3>3. CASE controls' = [controls EXCEPT !.hwnd = NULL]
      BY <1>1, <3>3, FieldTyped
    <3> QED BY <1>5, <3>1, <3>2, <3>3 DEF Edit
  <2> QED BY <1>1, <1>5, <2>1, KeepsSound DEF Edit
<1>6. CASE MouseOver
  <2>1. controls' \in Settings
    BY <1>1, <1>6, FieldTyped DEF MouseOver
  <2> QED BY <1>1, <1>6, <2>1, KeepsSound DEF MouseOver
<1>7. CASE Apply
  <2> DEFINE fps == IF controls.fps < 1 THEN 1 ELSE controls.fps
             s == [controls EXCEPT !.fps = fps]
  <2>1. fps \in UINT
    BY <1>1, SettingsAssumption, PageAssumption DEF Settings, UINT
  <2>2. s \in Settings
    BY <1>1, <2>1, FieldTyped
  <2>3. controls' = Checked(s)
    BY <1>7 DEF Apply
  <2>4. controls' \in Settings
    BY <1>1, <2>2, <2>3, CheckedTyped
  <2> QED BY <1>1, <1>7, <2>4, KeepsSound DEF Apply
<1>8. CASE SaveValue
  <2>1. applying \in 1..5
    BY <1>8 DEF SaveValue, SavedNames, Names
  <2>2. Names[applying] \in {"fps", "left", "width", "hwnd", "bTrackDecoration"}
    BY <2>1 DEF Names
  <2>3. registry' \in Settings
    <3> DEFINE name == Names[applying]
    <3>1. registry' = [registry EXCEPT ![name] = controls[name]]
      BY <1>8 DEF SaveValue
    <3>2. /\ controls["fps"] \in UINT /\ controls["left"] \in UINT /\ controls["width"] \in UINT
          /\ controls["hwnd"] \in Windows \cup {NULL} /\ controls["bTrackDecoration"] \in BOOLEAN
      BY <1>1 DEF Settings
    <3> HIDE DEF name
    <3> QED BY <1>1, <2>2, <3>1, <3>2, FieldTyped DEF name
  <2> QED BY <1>1, <1>8, <2>3, KeepsSound DEF SaveValue
<1>9. CASE PutSettings
  <2>1. screen' \in Screens
    <3>1. CASE UNCHANGED screen
      BY <1>1, <3>1
    <3>2. CASE /\ IsWindow(screen, controls.hwnd)
               /\ screen' = [screen EXCEPT ![controls.hwnd].client = Word(@ + 1)]
      <4>1. controls.hwnd \in Windows
        BY <1>1, <3>2 DEF IsWindow, Settings
      <4>2. screen[controls.hwnd].client \in UINT
        BY <1>1, <4>1 DEF Screens
      <4>3. Word(screen[controls.hwnd].client + 1) \in UINT
        BY <4>2, SettingsAssumption, PageAssumption DEF Word, UINT
      <4> QED BY <1>1, <3>2, <4>1, <4>3, ScreenTyped
    <3> QED BY <1>9, <3>1, <3>2 DEF PutSettings
  <2>2. UNCHANGED controls /\ UNCHANGED registry
    BY <1>9 DEF PutSettings
  <2>3. CASE ~m_pCamSettings
    BY <1>1, <1>9, <2>1, <2>2, <2>3, KeepsSound DEF PutSettings
  <2>4. CASE m_pCamSettings
    <3>1. pin' = Put(pin, controls, screen) /\ putFailed' = PutFails(controls, screen) /\ asked' = controls
      BY <1>9, <2>4 DEF PutSettings
    <3>2. Typed'
      BY <1>1, <2>1, <2>2, <3>1, PutTyped DEF IInv, Typed
    <3>3. PinSound'
      BY <1>1, <3>1, PutSound DEF PinSound
    <3> QED BY <3>2, <3>3 DEF IInv
  <2> QED BY <2>3, <2>4
<1>10. CASE WindowChanges
  <2>1. screen' \in Screens
    <3>1. PICK w \in Windows : \/ screen' = [screen EXCEPT ![w].exists = FALSE]
                               \/ \E n \in Widths : screen' = [screen EXCEPT ![w].client = n]
      BY <1>10 DEF WindowChanges
    <3>2. Widths \subseteq UINT
      BY PageAssumption
    <3>3. CASE screen' = [screen EXCEPT ![w].exists = FALSE]
      <4>1. [screen EXCEPT ![w].exists = FALSE] \in Screens
        BY <1>1, ScreenTyped
      <4> QED BY <3>3, <4>1
    <3>4. ASSUME NEW n \in Widths, screen' = [screen EXCEPT ![w].client = n]
          PROVE  screen' \in Screens
      <4>1. n \in UINT
        BY <3>2
      <4>2. [screen EXCEPT ![w].client = n] \in Screens
        BY <1>1, <4>1, ScreenTyped
      <4> QED BY <3>4, <4>2
    <3> QED BY <3>1, <3>3, <3>4
  <2> QED BY <1>1, <1>10, <2>1, KeepsSound DEF WindowChanges
<1>11. CASE UNCHANGED pageVars
  BY <1>2, <1>11 DEF pageVars
<1> QED BY <1>3, <1>4, <1>5, <1>6, <1>7, <1>8, <1>9, <1>10, <1>11 DEF PageNext

\* After every put_Settings that succeeds, with any numbers from the dialog or the
\* registry and any life of the windows: target, device context and rectangle of
\* the pin agree, and get_Settings says what would configure it that way again.
THEOREM PinsConsistent == PageSpec => []PinConsistent
<1>1. PageInit => IInv
  BY InitIInv
<1>2. IInv /\ [PageNext]_pageVars => IInv'
  BY NextIInv
<1>3. IInv => PinConsistent
  BY SoundIsConsistent DEF IInv
<1> QED BY <1>1, <1>2, <1>3, PTL DEF PageSpec

-----------------------------------------------------------------------------
(* What is kept.  Three facts: where the dialog may be, that the registry  *)
(* is the last complete save but for the values the present one has        *)
(* written, and that a load which nobody saves into copies that save.      *)

Fields == {"fps", "left", "width", "hwnd", "bTrackDecoration"}

PageFacts ==
    /\ applying \in 0..6 /\ loading \in 0..6
    /\ m_hwnd => m_bIsInitialized
    /\ trap => m_hwnd
    /\ applying > 0 => m_hwnd

RegistryFollows ==
    \A k \in 1..5 : registry[Names[k]] = IF k < applying THEN controls[Names[k]] ELSE saved[Names[k]]

LoadFollows ==
    loading > 0 /\ ~overlapped =>
       /\ applying < 2
       /\ \A k \in 1..5 : k < loading /\ k # 4 => loaded[Names[k]] = saved[Names[k]]
       /\ loading > 4 => /\ loaded.hwnd \in {saved.hwnd, NULL}
                         /\ IsWindow(screen, saved.hwnd) => loaded.hwnd = saved.hwnd

KeptInv ==
    /\ Typed /\ saved \in Settings /\ loaded \in Settings
    /\ PageFacts /\ NoChangeForgotten /\ RegistryFollows /\ LoadFollows

\* The values in their order, none of them twice.
LEMMA NamesSound ==
    /\ \A k \in 1..5 : Names[k] \in Fields
    /\ \A k, j \in 1..5 : Names[k] = Names[j] => k = j
    /\ \A k \in 1..5 : Names[k] = "hwnd" <=> k = 4
    /\ Len(Names) = 5 /\ SavedNames = 5
    /\ Names[1] = "fps" /\ Names[2] = "left" /\ Names[3] = "width" /\ Names[4] = "hwnd"
    /\ Names[5] = "bTrackDecoration"
<1>1. Len(Names) = 5 /\ SavedNames = 5
  BY DEF Names, SavedNames
<1>2. /\ Names[1] = "fps" /\ Names[2] = "left" /\ Names[3] = "width" /\ Names[4] = "hwnd"
      /\ Names[5] = "bTrackDecoration"
  BY DEF Names
<1>3. \A k \in 1..5 : k = 1 \/ k = 2 \/ k = 3 \/ k = 4 \/ k = 5
  OBVIOUS
<1> QED BY <1>1, <1>2, <1>3 DEF Fields

\* Writing one value leaves the others.
LEMMA OneField ==
    ASSUME NEW s \in Settings, NEW f \in Fields, NEW g \in Fields, NEW v
    PROVE  [s EXCEPT ![f] = v][g] = IF g = f THEN v ELSE s[g]
<1>1. DOMAIN s = Fields
  BY DEF Settings, Fields
<1> QED BY <1>1

\* A value of settings is a value of the next ones.
LEMMA CopyTyped ==
    ASSUME NEW s \in Settings, NEW r \in Settings, NEW f \in Fields
    PROVE  [s EXCEPT ![f] = r[f]] \in Settings
<1>1. /\ r["fps"] \in UINT /\ r["left"] \in UINT /\ r["width"] \in UINT
      /\ r["hwnd"] \in Windows \cup {NULL} /\ r["bTrackDecoration"] \in BOOLEAN
  BY DEF Settings
<1>2. f = "fps" \/ f = "left" \/ f = "width" \/ f = "hwnd" \/ f = "bTrackDecoration"
  BY DEF Fields
<1>3. CASE f = "fps"
  BY <1>1, <1>3, FieldTyped
<1>4. CASE f = "left"
  BY <1>1, <1>4, FieldTyped
<1>5. CASE f = "width"
  BY <1>1, <1>5, FieldTyped
<1>6. CASE f = "hwnd"
  BY <1>1, <1>6, FieldTyped
<1>7. CASE f = "bTrackDecoration"
  BY <1>1, <1>7, FieldTyped
<1> QED BY <1>2, <1>3, <1>4, <1>5, <1>6, <1>7

\* A window that is gone does not come back.
LEMMA WindowsStayGone ==
    ASSUME KeptInv, [PageNext]_pageVars, NEW h \in Windows \cup {NULL}, IsWindow(screen', h)
    PROVE  IsWindow(screen, h)
<1>1. screen \in Screens
  BY DEF KeptInv, Typed
<1>2. CASE UNCHANGED screen
  BY <1>2
<1>3. CASE PutSettings
  <2>1. CASE screen' = [screen EXCEPT ![controls.hwnd].client = Word(@ + 1)]
    BY <1>1, <2>1 DEF Screens, IsWindow
  <2> QED BY <1>2, <1>3, <2>1 DEF PutSettings
<1>4. CASE WindowChanges
  <2>1. PICK w \in Windows : \/ screen' = [screen EXCEPT ![w].exists = FALSE]
                             \/ \E n \in Widths : screen' = [screen EXCEPT ![w].client = n]
    BY <1>4 DEF WindowChanges
  <2> QED BY <1>1, <2>1 DEF Screens, IsWindow
<1> QED BY <1>2, <1>3, <1>4 DEF PageNext, pageVars, SetPageSite, OnConnect, OnDisconnect, OnActivate, Deactivate,
           Edit, SelectWindow, MouseOver, Click, Apply, SaveValue, LoadStart, LoadValue, LoadEnd

LEMMA InitKept == PageInit => KeptInv
<1> SUFFICES ASSUME PageInit PROVE KeptInv
  OBVIOUS
<1>1. Typed
  BY InitIInv DEF IInv
<1>2. registry = Defaults /\ saved = Defaults /\ loaded = Defaults
  BY DEF PageInit
<1>3. saved \in Settings /\ loaded \in Settings
  BY <1>1, <1>2 DEF Typed
<1>4. RegistryFollows
  BY <1>2 DEF PageInit, RegistryFollows
<1> QED BY <1>1, <1>3, <1>4 DEF KeptInv, PageInit, PageFacts, NoChangeForgotten, LoadFollows

\* What every step keeps of the types: NextIInv's, and those of the two copies.
LEMMA CopiesTyped ==
    ASSUME KeptInv, [PageNext]_pageVars
    PROVE  saved' \in Settings /\ loaded' \in Settings
<1>1. controls \in Settings /\ registry \in Settings /\ saved \in Settings /\ loaded \in Settings
  BY DEF KeptInv, Typed
<1>2. CASE UNCHANGED <<saved, loaded>>
  BY <1>1, <1>2
<1>3. CASE PutSettings
  BY <1>1, <1>3 DEF PutSettings, other
<1>4. CASE LoadEnd
  <2>1. Defaults \in Settings
    BY SettingsAssumption, PageAssumption DEF Defaults, Settings, UINT
  <2> QED BY <1>1, <1>4, <2>1 DEF LoadEnd
<1>5. CASE LoadValue
  <2>1. loading \in 1..5
    BY <1>5, NamesSound DEF LoadValue
  <2> DEFINE name == Names[loading]
  <2>2. name \in Fields
    BY <2>1, NamesSound
  <2> HIDE DEF name
  <2>3. ASSUME loaded' = [loaded EXCEPT ![name] = registry[name]]
        PROVE  loaded' \in Settings
    BY <1>1, <2>2, <2>3, CopyTyped
  <2>4. ASSUME name = "hwnd", loaded' = [loaded EXCEPT ![name] = NULL]
        PROVE  loaded' \in Settings
    BY <1>1, <2>4, FieldTyped
  <2>5. loaded' = [loaded EXCEPT ![name] = IF name = "hwnd" /\ ~IsWindow(screen, registry[name])
                                           THEN NULL ELSE registry[name]]
    BY <1>5 DEF LoadValue, name
  <2> QED BY <1>1, <1>5, <2>3, <2>4, <2>5 DEF LoadValue
<1> QED BY <1>2, <1>3, <1>4, <1>5 DEF PageNext, pageVars, SetPageSite, OnConnect, OnDisconnect, OnActivate, Deactivate,
           Edit, SelectWindow, MouseOver, Click, Apply, SaveValue, LoadStart, WindowChanges, other

\* The dialog is there while values are written, and it is initialized.
LEMMA PageFactsKept ==
    ASSUME KeptInv, [PageNext]_pageVars
    PROVE  PageFacts'
<1>1. PageFacts
  BY DEF KeptInv
<1>2. CASE UNCHANGED <<m_hwnd, m_bIsInitialized, trap, applying, loading>>
  BY <1>1, <1>2 DEF PageFacts
<1>3. CASE OnConnect \/ OnActivate \/ Deactivate \/ SelectWindow \/ Click
  BY <1>1, <1>3 DEF PageFacts, OnConnect, OnActivate, MayActivate, Deactivate, SelectWindow, Click, other
<1>4. CASE Apply \/ SaveValue \/ PutSettings
  BY <1>1, <1>4, NamesSound DEF PageFacts, Apply, SaveValue, PutSettings, page, other
<1>5. CASE LoadStart \/ LoadValue \/ LoadEnd
  BY <1>1, <1>5, NamesSound DEF PageFacts, LoadStart, LoadValue, LoadEnd, page
<1> QED BY <1>2, <1>3, <1>4, <1>5 DEF PageNext, pageVars, page, other, SetPageSite, OnDisconnect, Edit, MouseOver,
                                      WindowChanges

\* Whoever changes a control makes the page dirty; Apply and Activate compare anew.
LEMMA NoChangeForgottenKept ==
    ASSUME KeptInv, [PageNext]_pageVars
    PROVE  NoChangeForgotten'
<1>1. PageFacts /\ NoChangeForgotten
  BY DEF KeptInv
<1>2. CASE UNCHANGED <<m_hwnd, m_bDirty, applying, controls, shown>>
  BY <1>1, <1>2 DEF NoChangeForgotten
<1>3. CASE OnActivate \/ Deactivate \/ SelectWindow
  BY <1>1, <1>3 DEF NoChangeForgotten, OnActivate, Deactivate, SelectWindow, Dirty
<1>4. CASE Edit \/ MouseOver
  BY <1>1, <1>4 DEF PageFacts, NoChangeForgotten, Edit, MouseOver, Dirty
<1>5. CASE Apply \/ PutSettings
  BY <1>1, <1>5 DEF NoChangeForgotten, Apply, PutSettings
<1>6. CASE SaveValue
  BY <1>6, NamesSound DEF NoChangeForgotten, SaveValue
<1> QED BY <1>2, <1>3, <1>4, <1>5, <1>6 DEF PageNext, pageVars, page, other, SetPageSite, OnConnect, OnDisconnect,
        Click, LoadStart, LoadValue, LoadEnd, WindowChanges

\* A value is the last save's until it is written, and the dialog's from then on.
LEMMA RegistryFollowsKept ==
    ASSUME KeptInv, [PageNext]_pageVars
    PROVE  RegistryFollows'
<1>1. PageFacts /\ RegistryFollows /\ registry \in Settings /\ controls \in Settings
  BY DEF KeptInv, Typed
<1>2. CASE UNCHANGED <<registry, applying, saved>> /\ (applying = 0 \/ UNCHANGED controls)
  BY <1>1, <1>2 DEF RegistryFollows, PageFacts
<1>3. CASE OnActivate
  BY <1>1, <1>2, <1>3 DEF OnActivate, MayActivate, PageFacts
<1>4. CASE Edit \/ MouseOver
  BY <1>2, <1>4 DEF Edit, MouseOver
<1>5. CASE Apply
  <2>1. applying = 0 /\ applying' = 1 /\ UNCHANGED <<registry, saved>>
    BY <1>5 DEF Apply
  <2> QED BY <1>1, <2>1 DEF RegistryFollows
<1>6. CASE SaveValue
  <2>1. applying \in 1..5 /\ applying' = applying + 1 /\ UNCHANGED <<controls, saved>>
        /\ registry' = [registry EXCEPT ![Names[applying]] = controls[Names[applying]]]
    BY <1>6, NamesSound DEF SaveValue
  <2>2. ASSUME NEW k \in 1..5
        PROVE  registry'[Names[k]] = IF k < applying' THEN controls'[Names[k]] ELSE saved'[Names[k]]
    <3>1. Names[k] \in Fields /\ Names[applying] \in Fields
      BY <2>1, NamesSound
    <3>2. registry'[Names[k]] = IF Names[k] = Names[applying] THEN controls[Names[applying]] ELSE registry[Names[k]]
      BY <1>1, <2>1, <3>1, OneField
    <3>3. Names[k] = Names[applying] <=> k = applying
      BY <2>1, NamesSound
    <3>4. registry[Names[k]] = IF k < applying THEN controls[Names[k]] ELSE saved[Names[k]]
      BY <1>1 DEF RegistryFollows
    <3> QED BY <2>1, <3>2, <3>3, <3>4
  <2> QED BY <2>2 DEF RegistryFollows
<1>7. CASE PutSettings
  <2>1. applying = 6 /\ applying' = 0 /\ saved' = controls /\ UNCHANGED registry
    BY <1>7, NamesSound DEF PutSettings
  <2> QED BY <1>1, <2>1 DEF RegistryFollows
<1> QED BY <1>2, <1>3, <1>4, <1>5, <1>6, <1>7 DEF PageNext, pageVars, page, other, SetPageSite, OnConnect,
        OnDisconnect, Deactivate, SelectWindow, Click, LoadStart, LoadValue, LoadEnd, WindowChanges

\* Each value that is loaded while nobody saves is the last save's; a window may
\* be gone, and be loaded as none.
LEMMA LoadFollowsKept ==
    ASSUME KeptInv, [PageNext]_pageVars
    PROVE  LoadFollows'
<1>1. PageFacts /\ RegistryFollows /\ LoadFollows /\ saved \in Settings /\ loaded \in Settings
  BY DEF KeptInv
<1>2. saved.hwnd \in Windows \cup {NULL}
  BY <1>1 DEF Settings
<1>3. IsWindow(screen', saved.hwnd) => IsWindow(screen, saved.hwnd)
  BY <1>2, WindowsStayGone
<1>4. CASE UNCHANGED <<loading, loaded, overlapped, saved>> /\ (UNCHANGED applying \/ applying' < 2)
  BY <1>1, <1>3, <1>4 DEF LoadFollows
<1>5. CASE Apply
  BY <1>4, <1>5 DEF Apply, other
<1>6. CASE SaveValue
  <2>1. UNCHANGED loading /\ (loading > 0 => overlapped')
    BY <1>6 DEF SaveValue
  <2> QED BY <2>1 DEF LoadFollows
<1>7. CASE PutSettings
  <2>1. UNCHANGED <<loading, overlapped>> /\ applying = 6
    BY <1>7, NamesSound DEF PutSettings, other
  <2>2. ~(loading > 0 /\ ~overlapped)
    BY <1>1, <2>1 DEF LoadFollows
  <2> QED BY <2>1, <2>2 DEF LoadFollows
<1>8. CASE LoadStart
  <2>1. loading' = 1 /\ UNCHANGED applying /\ (applying > 0 => overlapped')
    BY <1>8 DEF LoadStart
  <2> QED BY <1>1, <2>1 DEF LoadFollows, PageFacts
<1>9. CASE LoadEnd
  BY <1>9 DEF LoadFollows, LoadEnd
<1>10. CASE LoadValue
  <2> DEFINE name == Names[loading]
  <2>1. loading \in 1..5 /\ loading' = loading + 1 /\ UNCHANGED <<saved, applying, overlapped, screen>>
        /\ loaded' = [loaded EXCEPT ![name] = IF name = "hwnd" /\ ~IsWindow(screen, registry[name])
                                              THEN NULL ELSE registry[name]]
    BY <1>10, NamesSound DEF LoadValue
  <2> SUFFICES ASSUME ~overlapped PROVE LoadFollows'
    BY <2>1 DEF LoadFollows
  <2>2. applying < 2 /\ name \in Fields
    BY <1>1, <2>1, NamesSound DEF LoadFollows
  <2>3. registry[name] = saved[name]
    BY <1>1, <2>1, <2>2 DEF RegistryFollows, PageFacts
  <2>4. \A k \in 1..5 : loaded'[Names[k]] = IF k = loading
                          THEN IF name = "hwnd" /\ ~IsWindow(screen, saved[name]) THEN NULL ELSE saved[name]
                          ELSE loaded[Names[k]]
    <3> SUFFICES ASSUME NEW k \in 1..5
                 PROVE  loaded'[Names[k]] = IF k = loading
                          THEN IF name = "hwnd" /\ ~IsWindow(screen, saved[name]) THEN NULL ELSE saved[name]
                          ELSE loaded[Names[k]]
      OBVIOUS
    <3>1. Names[k] \in Fields /\ (Names[k] = name <=> k = loading)
      BY <2>1, NamesSound
    <3> HIDE DEF name
    <3> QED BY <1>1, <2>1, <2>2, <2>3, <3>1, OneField
  <2>5. ASSUME NEW k \in 1..5, k < loading', k # 4
        PROVE  loaded'[Names[k]] = saved'[Names[k]]
    <3>1. CASE k = loading
      BY <2>1, <2>4, <2>5, <3>1, NamesSound
    <3>2. CASE k < loading
      <4>1. loaded[Names[k]] = saved[Names[k]]
        BY <1>1, <2>1, <2>5, <3>2 DEF LoadFollows
      <4> QED BY <2>1, <2>4, <3>2, <4>1
    <3> QED BY <2>1, <2>5, <3>1, <3>2
  <2>6. ASSUME loading' > 4
        PROVE  /\ loaded'["hwnd"] \in {saved["hwnd"], NULL}
               /\ IsWindow(screen, saved["hwnd"]) => loaded'["hwnd"] = saved["hwnd"]
    <3>1. Names[4] = "hwnd" /\ 4 \in 1..5
      BY NamesSound
    <3>2. CASE loading = 4
      <4>1. loaded'["hwnd"] = IF ~IsWindow(screen, saved["hwnd"]) THEN NULL ELSE saved["hwnd"]
        BY <2>4, <3>1, <3>2
      <4> QED BY <4>1
    <3>3. CASE loading = 5
      <4>1. loaded'["hwnd"] = loaded["hwnd"]
        BY <2>4, <3>1, <3>3
      <4> QED BY <1>1, <3>3, <4>1 DEF LoadFollows
    <3> QED BY <2>1, <2>6, <3>2, <3>3
  <2> QED BY <2>1, <2>2, <2>5, <2>6 DEF LoadFollows
<1> QED BY <1>4, <1>5, <1>6, <1>7, <1>8, <1>9, <1>10 DEF PageNext, pageVars, page, other, SetPageSite, OnConnect, OnDisconnect,
        OnActivate, Deactivate, Edit, SelectWindow, MouseOver, Click, WindowChanges

LEMMA LoadedSound == KeptInv => LoadedAsSaved
<1> SUFFICES ASSUME KeptInv, loading = Len(Names) + 1, ~overlapped
             PROVE  /\ \A f \in {"fps", "left", "width", "bTrackDecoration"} : loaded[f] = saved[f]
                    /\ loaded.hwnd \in {saved.hwnd, NULL}
                    /\ IsWindow(screen, saved.hwnd) => loaded.hwnd = saved.hwnd
  BY DEF LoadedAsSaved
<1>1. loading = 6 /\ LoadFollows
  BY NamesSound DEF KeptInv
<1>2. \A k \in {1, 2, 3, 5} : loaded[Names[k]] = saved[Names[k]]
  BY <1>1 DEF LoadFollows
<1> QED BY <1>1, <1>2, NamesSound DEF LoadFollows

\* A clean page shows what was last read or applied, whichever way a control was
\* changed; and a pin that is created while nobody saves starts with the settings
\* of the last Apply, whatever windows have gone since: for every sequence of
\* edits, picks, applies and loads, and any size of a word.
THEOREM NothingIsForgotten == PageSpec => []SettingsKept
<1>1. PageInit => IInv /\ KeptInv
  BY InitIInv, InitKept
<1>2. IInv /\ KeptInv /\ [PageNext]_pageVars => IInv' /\ KeptInv'
  BY NextIInv, CopiesTyped, PageFactsKept, NoChangeForgottenKept, RegistryFollowsKept, LoadFollowsKept
     DEF IInv, KeptInv
<1>3. KeptInv => SettingsKept
  BY LoadedSound DEF KeptInv, SettingsKept
<1> QED BY <1>1, <1>2, <1>3, PTL DEF PageSpec

LEMMA PartsOfSeq ==
    ASSUME NEW S, NEW s \in Seq(S)
    PROVE  Len(s) \in Nat /\ DOMAIN s = 1..Len(s) /\ \A k \in 1..Len(s) : s[k] \in S
OBVIOUS
-----------------------------------------------------------------------------
(* The enumerator of pins. *)

PinPlaces == {"none", "count", "idle", "refresh", "refreshcount", "loop"}

PinsTyped ==
    /\ m_paStreams \in Seq(Pins) /\ m_PinVersion \in Nat /\ changed \in BOOLEAN
    /\ m_Version \in [Enums -> Nat] /\ m_PinCount \in [Enums -> Nat] /\ m_Position \in [Enums -> Nat]
    /\ m_PinCache \in [Enums -> SUBSET Pins] /\ pc \in [Enums -> PinPlaces]
    /\ wanted \in [Enums -> Nat] /\ handed \in [Enums -> Seq(Pins)] /\ skipped \in [Enums -> BOOLEAN]

\* What was given out is in the cache, once; Reset empties both.
CacheInv(e) == Pinning!IsInjective(handed[e]) /\ Pinning!Range(handed[e]) = m_PinCache[e]

\* An enumerator whose version is that of the filter took the count after the
\* last change, and all pins up to its position are in the cache.
CaughtUp(e) ==
    /\ m_Version[e] = m_PinVersion /\ ~changed /\ ~skipped[e] /\ pc[e] \in {"idle", "loop"}

PassedInv(e) ==
    /\ m_Version[e] <= m_PinVersion
    /\ CaughtUp(e) =>
          /\ m_PinCount[e] = Len(m_paStreams)
          /\ \A k \in DOMAIN m_paStreams : k <= m_Position[e] => m_paStreams[k] \in m_PinCache[e]

PinInv == PinsTyped /\ \A e \in Enums : CacheInv(e) /\ PassedInv(e)

LEMMA PinInit == Pinning!Init => PinInv
<1> SUFFICES ASSUME Pinning!Init PROVE PinInv
  OBVIOUS
<1> USE DEF Pinning!Init
<1>1. m_paStreams \in Seq(Pins)
  <2>1. m_paStreams \in Pinning!SeqOf(Pins, MaxPins)
    OBVIOUS
  <2>2. PICK m \in 0..MaxPins : m_paStreams \in [1..m -> Pins]
    BY <2>1 DEF Pinning!SeqOf
  <2> QED BY <2>2
<1>2. PinsTyped
  <2>1. /\ m_Version \in [Enums -> Nat] /\ m_PinCount \in [Enums -> Nat] /\ m_Position \in [Enums -> Nat]
        /\ wanted \in [Enums -> Nat] /\ m_PinVersion \in Nat
    OBVIOUS
  <2>2. m_PinCache \in [Enums -> SUBSET Pins] /\ pc \in [Enums -> PinPlaces]
    BY DEF PinPlaces
  <2>3. handed \in [Enums -> Seq(Pins)]
    <3>1. << >> \in Seq(Pins)
      OBVIOUS
    <3> QED BY <3>1
  <2>4. skipped \in [Enums -> BOOLEAN] /\ changed \in BOOLEAN
    BY Zenon
  <2> QED BY <1>1, <2>1, <2>2, <2>3, <2>4 DEF PinsTyped
<1>3. ASSUME NEW e \in Enums PROVE CacheInv(e) /\ PassedInv(e)
  BY DEF CacheInv, PassedInv, CaughtUp, Pinning!IsInjective, Pinning!Range
<1> QED BY <1>2, <1>3 DEF PinInv

\* Giving out one more pin that is not in the cache.
LEMMA HandOut ==
    ASSUME NEW S, NEW s \in Seq(S), NEW p \in S, Pinning!IsInjective(s), p \notin Pinning!Range(s)
    PROVE  /\ Append(s, p) \in Seq(S) /\ Pinning!IsInjective(Append(s, p))
           /\ Pinning!Range(Append(s, p)) = Pinning!Range(s) \cup {p}
<1>1. PICK r : r = Append(s, p)
  OBVIOUS
<1>2. /\ r \in Seq(S) /\ Len(s) \in Nat /\ DOMAIN s = 1..Len(s) /\ DOMAIN r = 1..Len(s) + 1
      /\ r[Len(s) + 1] = p /\ \A k \in 1..Len(s) : r[k] = s[k]
  BY <1>1
<1>3. Pinning!IsInjective(r)
  <2> SUFFICES ASSUME NEW j \in DOMAIN r, NEW k \in DOMAIN r, r[j] = r[k] PROVE j = k
    BY DEF Pinning!IsInjective
  <2>1. CASE j \in DOMAIN s /\ k \in DOMAIN s
    BY <1>2, <2>1 DEF Pinning!IsInjective
  <2>2. CASE j \in DOMAIN s /\ k = Len(s) + 1
    BY <1>2, <2>2 DEF Pinning!Range
  <2>3. CASE k \in DOMAIN s /\ j = Len(s) + 1
    BY <1>2, <2>3 DEF Pinning!Range
  <2> QED BY <1>2, <2>1, <2>2, <2>3
<1>4. Pinning!Range(r) = Pinning!Range(s) \cup {p}
  <2>1. ASSUME NEW x PROVE x \in Pinning!Range(r) <=> x \in Pinning!Range(s) \cup {p}
    BY <1>2 DEF Pinning!Range
  <2> QED BY <2>1
<1> QED BY <1>1, <1>2, <1>3, <1>4

LEMMA FilterKeepsPins ==
    ASSUME PinInv, Pinning!IncrementPinVersion \/ \E p \in Pins : Pinning!AddPin(p) \/ Pinning!RemovePin(p)
    PROVE  PinInv'
<1> USE DEF Pinning!enumVars, Pinning!callVars
<1>1. CASE Pinning!IncrementPinVersion
  <2>1. /\ m_PinVersion' = m_PinVersion + 1
        /\ UNCHANGED << m_paStreams, m_Version, m_PinCount, m_Position, m_PinCache, pc, wanted, handed,
                        skipped >>
        /\ changed' = FALSE
    BY <1>1 DEF Pinning!IncrementPinVersion
  <2>2. PinsTyped'
    <3>1. m_PinVersion' \in Nat
      BY <2>1 DEF PinInv, PinsTyped
    <3>2. changed' \in BOOLEAN
      BY <2>1, Zenon
    <3> QED BY <2>1, <3>1, <3>2, Zenon DEF PinInv, PinsTyped
  <2>3. ASSUME NEW e \in Enums PROVE CacheInv(e)' /\ PassedInv(e)'
    <3>1. m_PinVersion \in Nat /\ m_Version[e] \in Nat /\ m_Version[e] <= m_PinVersion
      BY DEF PinInv, PinsTyped, PassedInv
    <3> QED BY <2>1, <3>1 DEF PinInv, CacheInv, PassedInv, CaughtUp, Pinning!IsInjective, Pinning!Range
  <2> QED BY <2>2, <2>3 DEF PinInv
<1>2. ASSUME NEW p \in Pins, Pinning!AddPin(p) \/ Pinning!RemovePin(p) PROVE PinInv'
  <2>1. /\ UNCHANGED << m_PinVersion, m_Version, m_PinCount, m_Position, m_PinCache, pc, wanted, handed,
                        skipped >>
        /\ changed' = TRUE
    BY <1>2 DEF Pinning!AddPin, Pinning!RemovePin
  <2>2. m_paStreams' \in Seq(Pins)
    <3>0. m_paStreams \in Seq(Pins)
      BY DEF PinInv, PinsTyped
    <3>1. CASE Pinning!AddPin(p)
      BY <3>0, <3>1 DEF Pinning!AddPin
    <3>2. CASE Pinning!RemovePin(p)
      <4>1. PICK k : k = CHOOSE j \in DOMAIN m_paStreams : m_paStreams[j] = p
        OBVIOUS
      <4>2. p \in Pinning!Range(m_paStreams) /\ m_paStreams' = Pinning!RemoveAt(m_paStreams, k)
        BY <3>2, <4>1 DEF Pinning!RemovePin
      <4>3. k \in DOMAIN m_paStreams
        BY <4>1, <4>2 DEF Pinning!Range
      <4>4. /\ Len(m_paStreams) \in Nat /\ DOMAIN m_paStreams = 1..Len(m_paStreams)
            /\ \A j \in 1..Len(m_paStreams) : m_paStreams[j] \in Pins
        BY <3>0, PartsOfSeq
      <4>5. SubSeq(m_paStreams, 1, k - 1) \in Seq(Pins)
        BY <3>0, <4>3, <4>4, SubSeqProperties
      <4>6. SubSeq(m_paStreams, k + 1, Len(m_paStreams)) \in Seq(Pins)
        BY <3>0, <4>3, <4>4, SubSeqProperties
      <4> QED BY <4>2, <4>5, <4>6, ConcatProperties DEF Pinning!RemoveAt
    <3> QED BY <1>2, <3>1, <3>2
  <2>3. PinsTyped'
    BY <2>1, <2>2 DEF PinInv, PinsTyped
  <2>4. ASSUME NEW e \in Enums PROVE CacheInv(e)' /\ PassedInv(e)'
    BY <2>1 DEF PinInv, CacheInv, PassedInv, CaughtUp, Pinning!IsInjective, Pinning!Range
  <2> QED BY <2>3, <2>4 DEF PinInv
<1> QED BY <1>1, <1>2

\* The enumerators but x stay as they are.
OtherPinsStay(x) ==
    \A e \in Enums \ {x} :
       /\ m_Version'[e] = m_Version[e] /\ m_PinCount'[e] = m_PinCount[e]
       /\ m_Position'[e] = m_Position[e] /\ m_PinCache'[e] = m_PinCache[e]
       /\ pc'[e] = pc[e] /\ handed'[e] = handed[e] /\ skipped'[e] = skipped[e]

\* A method of the enumerator x: the others stay.
LEMMA MethodKeepsPins ==
    ASSUME PinInv, NEW x \in Enums, UNCHANGED << m_paStreams, m_PinVersion, changed >>,
           PinsTyped', CacheInv(x)', PassedInv(x)',
           OtherPinsStay(x)
    PROVE  PinInv'
<1>1. ASSUME NEW e \in Enums, e # x PROVE CacheInv(e)' /\ PassedInv(e)'
  BY <1>1 DEF OtherPinsStay, PinInv, CacheInv, PassedInv, CaughtUp, Pinning!IsInjective, Pinning!Range
<1> QED BY <1>1 DEF PinInv

LEMMA BeginKeepsPins ==
    ASSUME PinInv, NEW x \in Enums, Pinning!Begin(x)
    PROVE  PinInv'
<1> USE DEF Pinning!Begin, Pinning!Sync, Pinning!TakeVersion, Pinning!TakeCount,
            Pinning!Goto, Pinning!filterVars, Pinning!enumVars
<1>1. PinsTyped /\ CacheInv(x) /\ PassedInv(x)
  BY DEF PinInv
<1>2. PinsTyped'
  <2>1. m_Version' \in [Enums -> Nat] /\ m_PinCount' \in [Enums -> Nat] /\ m_Position' \in [Enums -> Nat]
    BY <1>1 DEF PinsTyped
  <2>2. wanted' \in [Enums -> Nat] /\ pc' \in [Enums -> PinPlaces]
    BY <1>1 DEF PinsTyped, PinPlaces
  <2>3. m_PinCache' \in [Enums -> SUBSET Pins] /\ handed' \in [Enums -> Seq(Pins)]
    BY <1>1 DEF PinsTyped
  <2>4. skipped' \in [Enums -> BOOLEAN]
    BY <1>1, Zenon DEF PinsTyped
  <2>5. m_paStreams' \in Seq(Pins) /\ m_PinVersion' \in Nat /\ changed' \in BOOLEAN
    BY <1>1, Zenon DEF PinsTyped
  <2> QED BY <2>1, <2>2, <2>3, <2>4, <2>5, Zenon DEF PinsTyped
<1>3. CacheInv(x)' /\ PassedInv(x)'
  BY <1>1, <1>2 DEF PinsTyped, CacheInv, PassedInv, CaughtUp, Pinning!IsInjective, Pinning!Range
<1>8. UNCHANGED << m_paStreams, m_PinVersion, changed >>
  BY <1>1, <1>2, <1>3
<1>9. OtherPinsStay(x)
  BY <1>1, <1>2, <1>3 DEF PinsTyped, OtherPinsStay
<1> QED BY <1>1, <1>2, <1>3, <1>8, <1>9, MethodKeepsPins, Zenon

LEMMA BeginCountKeepsPins ==
    ASSUME PinInv, NEW x \in Enums, Pinning!BeginCount(x)
    PROVE  PinInv'
<1> USE DEF Pinning!BeginCount, Pinning!Sync, Pinning!TakeVersion, Pinning!TakeCount,
            Pinning!Goto, Pinning!filterVars, Pinning!enumVars
<1>1. PinsTyped /\ CacheInv(x) /\ PassedInv(x)
  BY DEF PinInv
<1>2. PinsTyped'
  <2>1. m_Version' \in [Enums -> Nat] /\ m_PinCount' \in [Enums -> Nat] /\ m_Position' \in [Enums -> Nat]
    <3>1. Len(m_paStreams) \in Nat
      BY <1>1 DEF PinsTyped
    <3>2. /\ UNCHANGED m_Version /\ m_PinCount' = [m_PinCount EXCEPT ![x] = Len(m_paStreams)]
          /\ m_Position' = [m_Position EXCEPT ![x] = 0]
      OBVIOUS
    <3> QED BY <1>1, <3>1, <3>2 DEF PinsTyped
  <2>2. wanted' \in [Enums -> Nat] /\ pc' \in [Enums -> PinPlaces]
    BY <1>1 DEF PinsTyped, PinPlaces
  <2>3. m_PinCache' \in [Enums -> SUBSET Pins] /\ handed' \in [Enums -> Seq(Pins)]
    BY <1>1 DEF PinsTyped
  <2>4. skipped' \in [Enums -> BOOLEAN]
    BY <1>1, Zenon DEF PinsTyped
  <2>5. m_paStreams' \in Seq(Pins) /\ m_PinVersion' \in Nat /\ changed' \in BOOLEAN
    BY <1>1, Zenon DEF PinsTyped
  <2> QED BY <2>1, <2>2, <2>3, <2>4, <2>5, Zenon DEF PinsTyped
<1>3. CacheInv(x)' /\ PassedInv(x)'
  BY <1>1, <1>2 DEF PinsTyped, CacheInv, PassedInv, CaughtUp, Pinning!IsInjective, Pinning!Range
<1>8. UNCHANGED << m_paStreams, m_PinVersion, changed >>
  BY <1>1, <1>2, <1>3
<1>9. OtherPinsStay(x)
  BY <1>1, <1>2, <1>3 DEF PinsTyped, OtherPinsStay
<1> QED BY <1>1, <1>2, <1>3, <1>8, <1>9, MethodKeepsPins, Zenon

LEMMA CallNextKeepsPins ==
    ASSUME PinInv, NEW x \in Enums, NEW n \in 1..MaxAsk, Pinning!CallNext(x, n)
    PROVE  PinInv'
<1> USE DEF Pinning!CallNext, Pinning!AreWeOutOfSync, Pinning!Sync, Pinning!TakeVersion, Pinning!TakeCount,
            Pinning!Goto, Pinning!filterVars, Pinning!enumVars
<1>1. PinsTyped /\ CacheInv(x) /\ PassedInv(x)
  BY DEF PinInv
<1>2. PinsTyped'
  <2>1. m_Version' \in [Enums -> Nat] /\ m_PinCount' \in [Enums -> Nat] /\ m_Position' \in [Enums -> Nat]
    BY <1>1 DEF PinsTyped
  <2>2. wanted' \in [Enums -> Nat] /\ pc' \in [Enums -> PinPlaces]
    BY <1>1 DEF PinsTyped, PinPlaces
  <2>3. m_PinCache' \in [Enums -> SUBSET Pins] /\ handed' \in [Enums -> Seq(Pins)]
    BY <1>1 DEF PinsTyped
  <2>4. skipped' \in [Enums -> BOOLEAN]
    BY <1>1, Zenon DEF PinsTyped
  <2>5. m_paStreams' \in Seq(Pins) /\ m_PinVersion' \in Nat /\ changed' \in BOOLEAN
    BY <1>1, Zenon DEF PinsTyped
  <2> QED BY <2>1, <2>2, <2>3, <2>4, <2>5, Zenon DEF PinsTyped
<1>3. CacheInv(x)' /\ PassedInv(x)'
  BY <1>1, <1>2 DEF PinsTyped, CacheInv, PassedInv, CaughtUp, Pinning!IsInjective, Pinning!Range
<1>8. UNCHANGED << m_paStreams, m_PinVersion, changed >>
  BY <1>1, <1>2, <1>3
<1>9. OtherPinsStay(x)
  BY <1>1, <1>2, <1>3 DEF PinsTyped, OtherPinsStay
<1> QED BY <1>1, <1>2, <1>3, <1>8, <1>9, MethodKeepsPins, Zenon

LEMMA RefreshKeepsPins ==
    ASSUME PinInv, NEW x \in Enums, Pinning!Refresh(x)
    PROVE  PinInv'
<1> USE DEF Pinning!Refresh, Pinning!Sync, Pinning!TakeVersion, Pinning!TakeCount,
            Pinning!Goto, Pinning!filterVars, Pinning!enumVars
<1>1. PinsTyped /\ CacheInv(x) /\ PassedInv(x)
  BY DEF PinInv
<1>2. PinsTyped'
  <2>1. m_Version' \in [Enums -> Nat] /\ m_PinCount' \in [Enums -> Nat] /\ m_Position' \in [Enums -> Nat]
    BY <1>1 DEF PinsTyped
  <2>2. wanted' \in [Enums -> Nat] /\ pc' \in [Enums -> PinPlaces]
    BY <1>1 DEF PinsTyped, PinPlaces
  <2>3. m_PinCache' \in [Enums -> SUBSET Pins] /\ handed' \in [Enums -> Seq(Pins)]
    BY <1>1 DEF PinsTyped
  <2>4. skipped' \in [Enums -> BOOLEAN]
    BY <1>1, Zenon DEF PinsTyped
  <2>5. m_paStreams' \in Seq(Pins) /\ m_PinVersion' \in Nat /\ changed' \in BOOLEAN
    BY <1>1, Zenon DEF PinsTyped
  <2> QED BY <2>1, <2>2, <2>3, <2>4, <2>5, Zenon DEF PinsTyped
<1>3. CacheInv(x)' /\ PassedInv(x)'
  BY <1>1, <1>2 DEF PinsTyped, CacheInv, PassedInv, CaughtUp, Pinning!IsInjective, Pinning!Range
<1>8. UNCHANGED << m_paStreams, m_PinVersion, changed >>
  BY <1>1, <1>2, <1>3
<1>9. OtherPinsStay(x)
  BY <1>1, <1>2, <1>3 DEF PinsTyped, OtherPinsStay
<1> QED BY <1>1, <1>2, <1>3, <1>8, <1>9, MethodKeepsPins, Zenon

LEMMA RefreshCountKeepsPins ==
    ASSUME PinInv, NEW x \in Enums, Pinning!RefreshCount(x)
    PROVE  PinInv'
<1> USE DEF Pinning!RefreshCount, Pinning!Sync, Pinning!TakeVersion, Pinning!TakeCount,
            Pinning!Goto, Pinning!filterVars, Pinning!enumVars
<1>1. PinsTyped /\ CacheInv(x) /\ PassedInv(x)
  BY DEF PinInv
<1>2. PinsTyped'
  <2>1. m_Version' \in [Enums -> Nat] /\ m_PinCount' \in [Enums -> Nat] /\ m_Position' \in [Enums -> Nat]
    <3>1. Len(m_paStreams) \in Nat
      BY <1>1 DEF PinsTyped
    <3>2. /\ UNCHANGED m_Version /\ m_PinCount' = [m_PinCount EXCEPT ![x] = Len(m_paStreams)]
          /\ m_Position' = [m_Position EXCEPT ![x] = 0]
      OBVIOUS
    <3> QED BY <1>1, <3>1, <3>2 DEF PinsTyped
  <2>2. wanted' \in [Enums -> Nat] /\ pc' \in [Enums -> PinPlaces]
    BY <1>1 DEF PinsTyped, PinPlaces
  <2>3. m_PinCache' \in [Enums -> SUBSET Pins] /\ handed' \in [Enums -> Seq(Pins)]
    BY <1>1 DEF PinsTyped
  <2>4. skipped' \in [Enums -> BOOLEAN]
    BY <1>1, Zenon DEF PinsTyped
  <2>5. m_paStreams' \in Seq(Pins) /\ m_PinVersion' \in Nat /\ changed' \in BOOLEAN
    BY <1>1, Zenon DEF PinsTyped
  <2> QED BY <2>1, <2>2, <2>3, <2>4, <2>5, Zenon DEF PinsTyped
<1>3. CacheInv(x)' /\ PassedInv(x)'
  BY <1>1, <1>2 DEF PinsTyped, CacheInv, PassedInv, CaughtUp, Pinning!IsInjective, Pinning!Range
<1>8. UNCHANGED << m_paStreams, m_PinVersion, changed >>
  BY <1>1, <1>2, <1>3
<1>9. OtherPinsStay(x)
  BY <1>1, <1>2, <1>3 DEF PinsTyped, OtherPinsStay
<1> QED BY <1>1, <1>2, <1>3, <1>8, <1>9, MethodKeepsPins, Zenon

LEMMA ReturnKeepsPins ==
    ASSUME PinInv, NEW x \in Enums, Pinning!Return(x)
    PROVE  PinInv'
<1> USE DEF Pinning!Return, Pinning!Sync, Pinning!TakeVersion, Pinning!TakeCount,
            Pinning!Goto, Pinning!filterVars, Pinning!enumVars
<1>1. PinsTyped /\ CacheInv(x) /\ PassedInv(x)
  BY DEF PinInv
<1>2. PinsTyped'
  <2>1. m_Version' \in [Enums -> Nat] /\ m_PinCount' \in [Enums -> Nat] /\ m_Position' \in [Enums -> Nat]
    BY <1>1 DEF PinsTyped
  <2>2. wanted' \in [Enums -> Nat] /\ pc' \in [Enums -> PinPlaces]
    BY <1>1 DEF PinsTyped, PinPlaces
  <2>3. m_PinCache' \in [Enums -> SUBSET Pins] /\ handed' \in [Enums -> Seq(Pins)]
    BY <1>1 DEF PinsTyped
  <2>4. skipped' \in [Enums -> BOOLEAN]
    BY <1>1, Zenon DEF PinsTyped
  <2>5. m_paStreams' \in Seq(Pins) /\ m_PinVersion' \in Nat /\ changed' \in BOOLEAN
    BY <1>1, Zenon DEF PinsTyped
  <2> QED BY <2>1, <2>2, <2>3, <2>4, <2>5, Zenon DEF PinsTyped
<1>3. CacheInv(x)' /\ PassedInv(x)'
  BY <1>1, <1>2 DEF PinsTyped, CacheInv, PassedInv, CaughtUp, Pinning!IsInjective, Pinning!Range
<1>8. UNCHANGED << m_paStreams, m_PinVersion, changed >>
  BY <1>1, <1>2, <1>3
<1>9. OtherPinsStay(x)
  BY <1>1, <1>2, <1>3 DEF PinsTyped, OtherPinsStay
<1> QED BY <1>1, <1>2, <1>3, <1>8, <1>9, MethodKeepsPins, Zenon

LEMMA SkipKeepsPins ==
    ASSUME PinInv, NEW x \in Enums, NEW n \in 1..MaxAsk, Pinning!Skip(x, n)
    PROVE  PinInv'
<1> USE DEF Pinning!Skip, Pinning!Sync, Pinning!TakeVersion, Pinning!TakeCount,
            Pinning!Goto, Pinning!filterVars, Pinning!enumVars
<1>1. PinsTyped /\ CacheInv(x) /\ PassedInv(x)
  BY DEF PinInv
<1>2. PinsTyped'
  <2>1. m_Version' \in [Enums -> Nat] /\ m_PinCount' \in [Enums -> Nat] /\ m_Position' \in [Enums -> Nat]
    BY <1>1 DEF PinsTyped
  <2>2. wanted' \in [Enums -> Nat] /\ pc' \in [Enums -> PinPlaces]
    BY <1>1 DEF PinsTyped, PinPlaces
  <2>3. m_PinCache' \in [Enums -> SUBSET Pins] /\ handed' \in [Enums -> Seq(Pins)]
    BY <1>1 DEF PinsTyped
  <2>4. skipped' \in [Enums -> BOOLEAN]
    BY <1>1, Zenon DEF PinsTyped
  <2>5. m_paStreams' \in Seq(Pins) /\ m_PinVersion' \in Nat /\ changed' \in BOOLEAN
    BY <1>1, Zenon DEF PinsTyped
  <2> QED BY <2>1, <2>2, <2>3, <2>4, <2>5, Zenon DEF PinsTyped
<1>3. CacheInv(x)' /\ PassedInv(x)'
  BY <1>1, <1>2 DEF PinsTyped, CacheInv, PassedInv, CaughtUp, Pinning!IsInjective, Pinning!Range
<1>8. UNCHANGED << m_paStreams, m_PinVersion, changed >>
  BY <1>1, <1>2, <1>3
<1>9. OtherPinsStay(x)
  BY <1>1, <1>2, <1>3 DEF PinsTyped, OtherPinsStay
<1> QED BY <1>1, <1>2, <1>3, <1>8, <1>9, MethodKeepsPins, Zenon


\* One pass of the loop, the three ways it ends.
LEMMA FetchKeepsPins ==
    ASSUME PinInv, NEW x \in Enums, Pinning!Fetch(x)
    PROVE  PinInv'
<1> DEFINE at == m_Position[x]
           next == m_paStreams[at + 1]
<1>1. /\ PinsTyped /\ CacheInv(x) /\ PassedInv(x) /\ at \in Nat
      /\ UNCHANGED << m_paStreams, m_PinVersion, changed, m_Version, m_PinCount, skipped >>
      /\ m_Position' = [m_Position EXCEPT ![x] = at + 1]
      /\ pc[x] = "loop" /\ at < m_PinCount[x] /\ wanted[x] > 0
  BY DEF PinInv, PinsTyped, Pinning!Fetch, Pinning!filterVars
<1>2. /\ Len(m_paStreams) \in Nat /\ DOMAIN m_paStreams = 1..Len(m_paStreams)
      /\ \A k \in 1..Len(m_paStreams) : m_paStreams[k] \in Pins
  BY <1>1, PartsOfSeq DEF PinsTyped
<1>3. /\ m_Position' \in [Enums -> Nat] /\ m_Version' \in [Enums -> Nat] /\ m_PinCount' \in [Enums -> Nat]
      /\ m_paStreams' \in Seq(Pins) /\ m_PinVersion' \in Nat
  BY <1>1 DEF PinsTyped
<1>4. skipped' \in [Enums -> BOOLEAN] /\ changed' \in BOOLEAN
  BY <1>1, Zenon DEF PinsTyped
<1>5. CASE at >= Len(m_paStreams)
  <2>1. UNCHANGED << m_PinCache, wanted, handed >> /\ pc' = [pc EXCEPT ![x] = "idle"]
    BY <1>5, <1>1, <1>2 DEF Pinning!Fetch, Pinning!Goto
  <2>2. pc' \in [Enums -> PinPlaces]
    BY <1>1, <2>1 DEF PinsTyped, PinPlaces
  <2>3. PinsTyped'
    BY <1>1, <1>3, <1>4, <2>1, <2>2, Zenon DEF PinsTyped
  <2>4. CacheInv(x)' /\ PassedInv(x)'
    BY <1>1, <1>2, <1>5, <2>1 DEF PinsTyped, CacheInv, PassedInv, CaughtUp, Pinning!IsInjective, Pinning!Range
  <2>8. UNCHANGED << m_paStreams, m_PinVersion, changed >>
    BY <1>1, <2>1, <2>3, <2>4
  <2>9. OtherPinsStay(x)
    BY <1>1, <2>1, <2>3, <2>4 DEF PinsTyped, OtherPinsStay
  <2> QED BY <1>1, <2>1, <2>3, <2>4, <2>8, <2>9, MethodKeepsPins, Zenon
<1>6. CASE at < Len(m_paStreams) /\ next \in m_PinCache[x]
  <2>1. UNCHANGED << pc, m_PinCache, wanted, handed >>
    BY <1>6, <1>1, <1>2 DEF Pinning!Fetch
  <2>2. PinsTyped'
    BY <1>1, <1>3, <1>4, <2>1, Zenon DEF PinsTyped
  <2>3. CacheInv(x)'
    BY <1>1, <2>1 DEF CacheInv, Pinning!IsInjective, Pinning!Range
  <2>4. PassedInv(x)'
    BY <1>1, <1>2, <1>6, <2>1 DEF PinsTyped, PassedInv, CaughtUp
  <2>8. UNCHANGED << m_paStreams, m_PinVersion, changed >>
    BY <1>1, <2>1, <2>2, <2>3, <2>4
  <2>9. OtherPinsStay(x)
    BY <1>1, <2>1, <2>2, <2>3, <2>4 DEF PinsTyped, OtherPinsStay
  <2> QED BY <1>1, <2>1, <2>2, <2>3, <2>4, <2>8, <2>9, MethodKeepsPins, Zenon
<1>7. CASE at < Len(m_paStreams) /\ next \notin m_PinCache[x]
  <2>1. /\ m_PinCache' = [m_PinCache EXCEPT ![x] = m_PinCache[x] \cup {next}]
        /\ handed' = [handed EXCEPT ![x] = Append(handed[x], next)]
        /\ wanted' = [wanted EXCEPT ![x] = wanted[x] - 1] /\ UNCHANGED pc
    BY <1>7, <1>1, <1>2 DEF Pinning!Fetch
  <2>2. next \in Pins /\ handed[x] \in Seq(Pins)
    BY <1>1, <1>2, <1>7 DEF PinsTyped
  <2>3. /\ Append(handed[x], next) \in Seq(Pins) /\ Pinning!IsInjective(Append(handed[x], next))
        /\ Pinning!Range(Append(handed[x], next)) = m_PinCache[x] \cup {next}
    <3> HIDE DEF next
    <3> QED BY <1>1, <1>7, <2>2, HandOut DEF CacheInv
  <2>4. PinsTyped'
    <3>1. m_PinCache' \in [Enums -> SUBSET Pins] /\ handed' \in [Enums -> Seq(Pins)]
      BY <1>1, <2>1, <2>2, <2>3 DEF PinsTyped
    <3>2. wanted' \in [Enums -> Nat]
      BY <1>1, <2>1 DEF PinsTyped
    <3> QED BY <1>1, <1>3, <1>4, <2>1, <3>1, <3>2, Zenon DEF PinsTyped
  <2>5. handed'[x] = Append(handed[x], next) /\ m_PinCache'[x] = m_PinCache[x] \cup {next}
    BY <1>1, <2>1 DEF PinsTyped
  <2>6. CacheInv(x)'
    BY <2>3, <2>5 DEF CacheInv, Pinning!IsInjective, Pinning!Range
  <2>7. PassedInv(x)'
    BY <1>1, <1>2, <1>7, <2>1, <2>5 DEF PinsTyped, PassedInv, CaughtUp
  <2>8. UNCHANGED << m_paStreams, m_PinVersion, changed >>
    BY <1>1, <2>1, <2>4, <2>6, <2>7
  <2>9. OtherPinsStay(x)
    BY <1>1, <2>1, <2>4, <2>6, <2>7 DEF PinsTyped, OtherPinsStay
  <2> QED BY <1>1, <2>1, <2>4, <2>6, <2>7, <2>8, <2>9, MethodKeepsPins, Zenon
<1> QED BY <1>1, <1>2, <1>5, <1>6, <1>7

\* The clone is where the original is, and its owner has seen the same pins.
LEMMA CloneKeepsPins ==
    ASSUME PinInv, NEW e \in Enums, NEW x \in Enums, Pinning!Clone(e, x)
    PROVE  PinInv'
<1> USE DEF Pinning!Clone, Pinning!Goto, Pinning!filterVars, Pinning!AreWeOutOfSync
<1>1. PinsTyped /\ CacheInv(e) /\ PassedInv(e) /\ pc[e] = "idle"
  BY DEF PinInv
<1>2. PinsTyped'
  <2>1. m_Version' \in [Enums -> Nat] /\ m_PinCount' \in [Enums -> Nat] /\ m_Position' \in [Enums -> Nat]
    BY <1>1 DEF PinsTyped
  <2>2. wanted' \in [Enums -> Nat] /\ pc' \in [Enums -> PinPlaces]
    BY <1>1 DEF PinsTyped, PinPlaces
  <2>3. m_PinCache' \in [Enums -> SUBSET Pins] /\ handed' \in [Enums -> Seq(Pins)]
    BY <1>1 DEF PinsTyped
  <2>4. skipped' \in [Enums -> BOOLEAN]
    BY <1>1, Zenon DEF PinsTyped
  <2>5. m_paStreams' \in Seq(Pins) /\ m_PinVersion' \in Nat /\ changed' \in BOOLEAN
    BY <1>1, Zenon DEF PinsTyped
  <2> QED BY <2>1, <2>2, <2>3, <2>4, <2>5, Zenon DEF PinsTyped
<1>3. /\ m_Version'[x] = m_Version[e] /\ m_PinCount'[x] = m_PinCount[e]
      /\ m_Position'[x] = m_Position[e] /\ m_PinCache'[x] = m_PinCache[e]
      /\ pc'[x] = pc[e] /\ handed'[x] = handed[e] /\ skipped'[x] = skipped[e]
  BY <1>1 DEF PinsTyped
<1>4. CacheInv(x)' /\ PassedInv(x)'
  BY <1>1, <1>3 DEF CacheInv, PassedInv, CaughtUp, Pinning!IsInjective, Pinning!Range
<1>8. UNCHANGED << m_paStreams, m_PinVersion, changed >>
  BY <1>1, <1>2, <1>4
<1>9. OtherPinsStay(x)
  BY <1>1, <1>2, <1>4 DEF PinsTyped, OtherPinsStay
<1> QED BY <1>1, <1>2, <1>4, <1>8, <1>9, MethodKeepsPins, Zenon

LEMMA NextKeepsPins == ASSUME PinInv, Pinning!Next PROVE PinInv'
<1>1. CASE Pinning!IncrementPinVersion \/ \E p \in Pins : Pinning!AddPin(p) \/ Pinning!RemovePin(p)
  BY <1>1, FilterKeepsPins
<1>2. ASSUME NEW e \in Enums,
             \/ Pinning!Begin(e) \/ Pinning!BeginCount(e) \/ Pinning!Refresh(e)
             \/ Pinning!RefreshCount(e) \/ Pinning!Fetch(e) \/ Pinning!Return(e)
      PROVE  PinInv'
  BY <1>2, BeginKeepsPins, BeginCountKeepsPins, RefreshKeepsPins, RefreshCountKeepsPins,
     FetchKeepsPins, ReturnKeepsPins
<1>3. ASSUME NEW e \in Enums, NEW n \in 1..MaxAsk, Pinning!CallNext(e, n) \/ Pinning!Skip(e, n)
      PROVE  PinInv'
  BY <1>3, CallNextKeepsPins, SkipKeepsPins
<1>4. ASSUME NEW e \in Enums, NEW new \in Enums, Pinning!Clone(e, new) PROVE PinInv'
  BY <1>4, CloneKeepsPins
<1> QED BY <1>1, <1>2, <1>3, <1>4 DEF Pinning!Next

LEMMA PinInvSound == PinInv => Pinning!NoPinTwice /\ Pinning!EnumerationComplete
<1> SUFFICES ASSUME PinInv, NEW e \in Enums
             PROVE  /\ Pinning!IsInjective(handed[e]) /\ Pinning!Range(handed[e]) = m_PinCache[e]
                    /\ CaughtUp(e) /\ m_Position[e] >= m_PinCount[e]
                         => Pinning!Range(m_paStreams) \subseteq Pinning!Range(handed[e])
  BY DEF Pinning!NoPinTwice, Pinning!EnumerationComplete, CaughtUp, Pinning!AreWeOutOfSync
<1>1. PinsTyped /\ CacheInv(e) /\ PassedInv(e)
  BY DEF PinInv
<1>2. ASSUME CaughtUp(e), m_Position[e] >= m_PinCount[e], NEW k \in DOMAIN m_paStreams
      PROVE  m_paStreams[k] \in m_PinCache[e]
  <2>1. DOMAIN m_paStreams = 1..Len(m_paStreams) /\ Len(m_paStreams) \in Nat
    BY <1>1, PartsOfSeq DEF PinsTyped
  <2>2. m_Position[e] \in Nat /\ m_PinCount[e] \in Nat
    BY <1>1 DEF PinsTyped
  <2>3. k <= m_Position[e]
    BY <1>1, <1>2, <2>1, <2>2 DEF PassedInv
  <2> QED BY <1>1, <1>2, <2>3 DEF PassedInv
<1>3. CaughtUp(e) /\ m_Position[e] >= m_PinCount[e]
        => Pinning!Range(m_paStreams) \subseteq Pinning!Range(handed[e])
  BY <1>1, <1>2 DEF CacheInv, Pinning!Range
<1> QED BY <1>1, <1>3 DEF CacheInv

-----------------------------------------------------------------------------
(* The enumerator of media types. *)

TypePlaces == {"none", "version", "idle", "next", "cloning", "clone"}

TypesTyped ==
    /\ types \in Seq(MediaTypes) /\ m_TypeVersion \in Nat /\ retyped \in BOOLEAN
    /\ typesVersion \in [Enums -> Nat] /\ typesPosition \in [Enums -> Nat]
    /\ typesPc \in [Enums -> TypePlaces] /\ typesWanted \in [Enums -> Nat]
    /\ typesHanded \in [Enums -> Seq(MediaTypes)] /\ gap \in [Enums -> BOOLEAN]

\* An enumerator at position pos has handed out h: the types up to there, or all of them when
\* the position is past the end.
Follows(h, pos) ==
    /\ Len(h) <= Len(types) /\ \A k \in 1..Len(h) : h[k] = types[k]
    /\ pos = Len(h) \/ (pos > Len(h) /\ Len(h) = Len(types))

Trusted(e) == typesVersion[e] = m_TypeVersion /\ ~retyped /\ ~gap[e]

\* Nothing is claimed of an enumerator that is not there, is out of sync or has missed a type.
\* One without a version yet has handed out nothing.
SeenInv(e) ==
    /\ typesVersion[e] <= m_TypeVersion
    /\ typesPc[e] = "version" => typesHanded[e] = << >> /\ typesPosition[e] = 0
    /\ typesPc[e] \in {"idle", "next", "cloning"} /\ Trusted(e)
         => Follows(typesHanded[e], typesPosition[e])

TypeInv == TypesTyped /\ \A e \in Enums : SeenInv(e)

LEMMA TypeListsAre == Typing!TypeLists \subseteq Seq(MediaTypes)
<1> SUFFICES ASSUME NEW s \in Typing!SeqOf(MediaTypes, MaxTypes) PROVE s \in Seq(MediaTypes)
  BY DEF Typing!TypeLists
<1>1. PICK m \in 0..MaxTypes : s \in [1..m -> MediaTypes]
  BY DEF Typing!SeqOf
<1> QED BY <1>1

LEMMA TypesInit == Typing!Init => TypeInv
<1> SUFFICES ASSUME Typing!Init PROVE TypeInv
  OBVIOUS
<1> USE DEF Typing!Init
<1>1. types \in Seq(MediaTypes) /\ << >> \in Seq(MediaTypes)
  BY TypeListsAre
<1>2. /\ m_TypeVersion \in Nat /\ typesVersion \in [Enums -> Nat] /\ typesPosition \in [Enums -> Nat]
      /\ typesWanted \in [Enums -> Nat]
  OBVIOUS
<1>3. typesPc \in [Enums -> TypePlaces]
  BY DEF TypePlaces
<1>4. typesHanded \in [Enums -> Seq(MediaTypes)]
  BY <1>1
<1>5. gap \in [Enums -> BOOLEAN] /\ retyped \in BOOLEAN
  BY Zenon
<1>6. TypesTyped
  BY <1>1, <1>2, <1>3, <1>4, <1>5 DEF TypesTyped
<1>7. ASSUME NEW e \in Enums PROVE SeenInv(e)
  BY DEF SeenInv
<1> QED BY <1>6, <1>7 DEF TypeInv

LEMMA PinKeepsTypes ==
    ASSUME TypeInv, Typing!IncrementTypeVersion \/ \E list \in Typing!TypeLists : Typing!Retype(list)
    PROVE  TypeInv'
<1> USE DEF Typing!enumVars
<1>1. UNCHANGED << typesVersion, typesPosition, typesPc, typesWanted, typesHanded, gap >>
  BY DEF Typing!IncrementTypeVersion, Typing!Retype
<1>2. \/ types' \in Seq(MediaTypes) /\ retyped' = TRUE /\ m_TypeVersion' = m_TypeVersion
      \/ UNCHANGED types /\ retyped' = FALSE /\ m_TypeVersion' = m_TypeVersion + 1
  BY TypeListsAre DEF Typing!IncrementTypeVersion, Typing!Retype
<1>3. TypesTyped'
  <2>1. types' \in Seq(MediaTypes) /\ m_TypeVersion' \in Nat
    BY <1>2 DEF TypeInv, TypesTyped
  <2>2. retyped' \in BOOLEAN
    BY <1>2, Zenon
  <2> QED BY <1>1, <2>1, <2>2, Zenon DEF TypeInv, TypesTyped
<1>4. ASSUME NEW e \in Enums PROVE SeenInv(e)'
  <2>1. m_TypeVersion \in Nat /\ typesVersion[e] \in Nat /\ SeenInv(e)
    BY DEF TypeInv, TypesTyped
  <2> QED BY <1>1, <1>2, <2>1 DEF SeenInv, Trusted
<1> QED BY <1>3, <1>4 DEF TypeInv

\* The enumerators but x stay as they are.
OtherTypesStay(x) ==
    \A e \in Enums \ {x} :
       /\ typesVersion'[e] = typesVersion[e] /\ typesPosition'[e] = typesPosition[e]
       /\ typesPc'[e] = typesPc[e] /\ typesHanded'[e] = typesHanded[e] /\ gap'[e] = gap[e]

\* A method of the enumerator x: the others stay.
LEMMA MethodKeepsTypes ==
    ASSUME TypeInv, NEW x \in Enums, UNCHANGED << types, m_TypeVersion, retyped >>,
           TypesTyped', SeenInv(x)',
           OtherTypesStay(x)
    PROVE  TypeInv'
<1>1. ASSUME NEW e \in Enums, e # x PROVE SeenInv(e)'
  BY <1>1 DEF OtherTypesStay, TypeInv, SeenInv, Trusted, Follows
<1> QED BY <1>1 DEF TypeInv

LEMMA BeginKeepsTypes ==
    ASSUME TypeInv, NEW x \in Enums, Typing!Begin(x)
    PROVE  TypeInv'
<1> USE DEF Typing!Begin, Typing!StartOver, Typing!Goto, Typing!pinVars, Typing!enumVars
<1>1. TypesTyped /\ SeenInv(x)
  BY DEF TypeInv
<1>2. TypesTyped'
  <2>1. typesVersion' \in [Enums -> Nat] /\ typesPosition' \in [Enums -> Nat]
    BY <1>1 DEF TypesTyped
  <2>2. typesWanted' \in [Enums -> Nat] /\ typesPc' \in [Enums -> TypePlaces]
    BY <1>1 DEF TypesTyped, TypePlaces
  <2>3. typesHanded' \in [Enums -> Seq(MediaTypes)]
    BY <1>1 DEF TypesTyped
  <2>4. gap' \in [Enums -> BOOLEAN]
    BY <1>1, Zenon DEF TypesTyped
  <2>5. types' \in Seq(MediaTypes) /\ m_TypeVersion' \in Nat /\ retyped' \in BOOLEAN
    BY <1>1, Zenon DEF TypesTyped
  <2> QED BY <2>1, <2>2, <2>3, <2>4, <2>5, Zenon DEF TypesTyped
<1>3. SeenInv(x)'
  BY <1>1, <1>2 DEF TypesTyped, SeenInv, Trusted, Follows
<1>8. UNCHANGED << types, m_TypeVersion, retyped >>
  BY <1>1, <1>2, <1>3
<1>9. OtherTypesStay(x)
  BY <1>1, <1>2, <1>3 DEF TypesTyped, OtherTypesStay
<1> QED BY <1>1, <1>2, <1>3, <1>8, <1>9, MethodKeepsTypes, Zenon

LEMMA VersionKeepsTypes ==
    ASSUME TypeInv, NEW x \in Enums, Typing!GetMediaTypeVersion(x)
    PROVE  TypeInv'
<1> USE DEF Typing!GetMediaTypeVersion, Typing!Goto, Typing!pinVars, Typing!enumVars
<1>1. TypesTyped /\ SeenInv(x)
  BY DEF TypeInv
<1>2. TypesTyped'
  <2>1. typesVersion' \in [Enums -> Nat] /\ typesPosition' \in [Enums -> Nat]
    BY <1>1 DEF TypesTyped
  <2>2. typesWanted' \in [Enums -> Nat] /\ typesPc' \in [Enums -> TypePlaces]
    BY <1>1 DEF TypesTyped, TypePlaces
  <2>3. typesHanded' \in [Enums -> Seq(MediaTypes)]
    BY <1>1 DEF TypesTyped
  <2>4. gap' \in [Enums -> BOOLEAN]
    BY <1>1, Zenon DEF TypesTyped
  <2>5. types' \in Seq(MediaTypes) /\ m_TypeVersion' \in Nat /\ retyped' \in BOOLEAN
    BY <1>1, Zenon DEF TypesTyped
  <2> QED BY <2>1, <2>2, <2>3, <2>4, <2>5, Zenon DEF TypesTyped
<1>3. SeenInv(x)'
  <2>1. /\ Len(types) \in Nat /\ types' = types
        /\ typesHanded'[x] = << >> /\ typesPosition'[x] = 0
    BY <1>1 DEF TypesTyped, SeenInv
  <2>2. Follows(<< >>, 0)
    BY <2>1 DEF Follows
  <2>3. Follows(typesHanded[x], typesPosition[x])'
    <3>1. Follows(typesHanded'[x], typesPosition'[x])
      BY <2>1, <2>2
    <3> QED BY ONLY <2>1, <3>1 DEF Follows
  <2> QED BY <1>1, <2>3 DEF TypesTyped, SeenInv
<1>8. UNCHANGED << types, m_TypeVersion, retyped >>
  BY <1>1, <1>2, <1>3
<1>9. OtherTypesStay(x)
  BY <1>1, <1>2, <1>3 DEF TypesTyped, OtherTypesStay
<1> QED BY <1>1, <1>2, <1>3, <1>8, <1>9, MethodKeepsTypes, Zenon

LEMMA CallNextKeepsTypes ==
    ASSUME TypeInv, NEW x \in Enums, NEW n \in 1..MaxAsk, Typing!CallNext(x, n)
    PROVE  TypeInv'
<1> USE DEF Typing!CallNext, Typing!AreWeOutOfSync, Typing!Goto, Typing!pinVars, Typing!enumVars
<1>1. TypesTyped /\ SeenInv(x)
  BY DEF TypeInv
<1>2. TypesTyped'
  <2>1. typesVersion' \in [Enums -> Nat] /\ typesPosition' \in [Enums -> Nat]
    BY <1>1 DEF TypesTyped
  <2>2. typesWanted' \in [Enums -> Nat] /\ typesPc' \in [Enums -> TypePlaces]
    BY <1>1 DEF TypesTyped, TypePlaces
  <2>3. typesHanded' \in [Enums -> Seq(MediaTypes)]
    BY <1>1 DEF TypesTyped
  <2>4. gap' \in [Enums -> BOOLEAN]
    BY <1>1, Zenon DEF TypesTyped
  <2>5. types' \in Seq(MediaTypes) /\ m_TypeVersion' \in Nat /\ retyped' \in BOOLEAN
    BY <1>1, Zenon DEF TypesTyped
  <2> QED BY <2>1, <2>2, <2>3, <2>4, <2>5, Zenon DEF TypesTyped
<1>3. SeenInv(x)'
  BY <1>1, <1>2 DEF TypesTyped, SeenInv, Trusted, Follows
<1>8. UNCHANGED << types, m_TypeVersion, retyped >>
  BY <1>1, <1>2, <1>3
<1>9. OtherTypesStay(x)
  BY <1>1, <1>2, <1>3 DEF TypesTyped, OtherTypesStay
<1> QED BY <1>1, <1>2, <1>3, <1>8, <1>9, MethodKeepsTypes, Zenon

LEMMA ReturnKeepsTypes ==
    ASSUME TypeInv, NEW x \in Enums, Typing!Return(x)
    PROVE  TypeInv'
<1> USE DEF Typing!Return, Typing!Goto, Typing!pinVars, Typing!enumVars
<1>1. TypesTyped /\ SeenInv(x)
  BY DEF TypeInv
<1>2. TypesTyped'
  <2>1. typesVersion' \in [Enums -> Nat] /\ typesPosition' \in [Enums -> Nat]
    BY <1>1 DEF TypesTyped
  <2>2. typesWanted' \in [Enums -> Nat] /\ typesPc' \in [Enums -> TypePlaces]
    BY <1>1 DEF TypesTyped, TypePlaces
  <2>3. typesHanded' \in [Enums -> Seq(MediaTypes)]
    BY <1>1 DEF TypesTyped
  <2>4. gap' \in [Enums -> BOOLEAN]
    BY <1>1, Zenon DEF TypesTyped
  <2>5. types' \in Seq(MediaTypes) /\ m_TypeVersion' \in Nat /\ retyped' \in BOOLEAN
    BY <1>1, Zenon DEF TypesTyped
  <2> QED BY <2>1, <2>2, <2>3, <2>4, <2>5, Zenon DEF TypesTyped
<1>3. SeenInv(x)'
  BY <1>1, <1>2 DEF TypesTyped, SeenInv, Trusted, Follows
<1>8. UNCHANGED << types, m_TypeVersion, retyped >>
  BY <1>1, <1>2, <1>3
<1>9. OtherTypesStay(x)
  BY <1>1, <1>2, <1>3 DEF TypesTyped, OtherTypesStay
<1> QED BY <1>1, <1>2, <1>3, <1>8, <1>9, MethodKeepsTypes, Zenon

LEMMA SkipKeepsTypes ==
    ASSUME TypeInv, NEW x \in Enums, NEW n \in 1..MaxAsk, Typing!Skip(x, n)
    PROVE  TypeInv'
<1> USE DEF Typing!Skip, Typing!Goto, Typing!pinVars, Typing!enumVars
<1>1. TypesTyped /\ SeenInv(x)
  BY DEF TypeInv
<1>2. TypesTyped'
  <2>1. typesVersion' \in [Enums -> Nat] /\ typesPosition' \in [Enums -> Nat]
    BY <1>1 DEF TypesTyped
  <2>2. typesWanted' \in [Enums -> Nat] /\ typesPc' \in [Enums -> TypePlaces]
    BY <1>1 DEF TypesTyped, TypePlaces
  <2>3. typesHanded' \in [Enums -> Seq(MediaTypes)]
    BY <1>1 DEF TypesTyped
  <2>4. gap' \in [Enums -> BOOLEAN]
    BY <1>1, Zenon DEF TypesTyped
  <2>5. types' \in Seq(MediaTypes) /\ m_TypeVersion' \in Nat /\ retyped' \in BOOLEAN
    BY <1>1, Zenon DEF TypesTyped
  <2> QED BY <2>1, <2>2, <2>3, <2>4, <2>5, Zenon DEF TypesTyped
<1>3. SeenInv(x)'
  BY <1>1, <1>2 DEF TypesTyped, SeenInv, Trusted, Follows
<1>8. UNCHANGED << types, m_TypeVersion, retyped >>
  BY <1>1, <1>2, <1>3
<1>9. OtherTypesStay(x)
  BY <1>1, <1>2, <1>3 DEF TypesTyped, OtherTypesStay
<1> QED BY <1>1, <1>2, <1>3, <1>8, <1>9, MethodKeepsTypes, Zenon

LEMMA ReleaseKeepsTypes ==
    ASSUME TypeInv, NEW x \in Enums, Typing!Release(x)
    PROVE  TypeInv'
<1> USE DEF Typing!Release, Typing!StartOver, Typing!Goto, Typing!pinVars, Typing!enumVars
<1>1. TypesTyped /\ SeenInv(x)
  BY DEF TypeInv
<1>2. TypesTyped'
  <2>1. typesVersion' \in [Enums -> Nat] /\ typesPosition' \in [Enums -> Nat]
    BY <1>1 DEF TypesTyped
  <2>2. typesWanted' \in [Enums -> Nat] /\ typesPc' \in [Enums -> TypePlaces]
    BY <1>1 DEF TypesTyped, TypePlaces
  <2>3. typesHanded' \in [Enums -> Seq(MediaTypes)]
    BY <1>1 DEF TypesTyped
  <2>4. gap' \in [Enums -> BOOLEAN]
    BY <1>1, Zenon DEF TypesTyped
  <2>5. types' \in Seq(MediaTypes) /\ m_TypeVersion' \in Nat /\ retyped' \in BOOLEAN
    BY <1>1, Zenon DEF TypesTyped
  <2> QED BY <2>1, <2>2, <2>3, <2>4, <2>5, Zenon DEF TypesTyped
<1>3. SeenInv(x)'
  BY <1>1, <1>2 DEF TypesTyped, SeenInv, Trusted, Follows
<1>8. UNCHANGED << types, m_TypeVersion, retyped >>
  BY <1>1, <1>2, <1>3
<1>9. OtherTypesStay(x)
  BY <1>1, <1>2, <1>3 DEF TypesTyped, OtherTypesStay
<1> QED BY <1>1, <1>2, <1>3, <1>8, <1>9, MethodKeepsTypes, Zenon


\* One pass of the loop: the next type, or the end of the call.
LEMMA FetchKeepsTypes ==
    ASSUME TypeInv, NEW x \in Enums, NEW allocated \in BOOLEAN, Typing!Fetch(x, allocated)
    PROVE  TypeInv'
<1> DEFINE at == typesPosition[x]
           h  == typesHanded[x]
<1>1. /\ TypesTyped /\ SeenInv(x) /\ at \in Nat /\ h \in Seq(MediaTypes) /\ gap[x] \in BOOLEAN
      /\ UNCHANGED << types, m_TypeVersion, retyped, typesVersion >>
      /\ typesPosition' = [typesPosition EXCEPT ![x] = at + 1]
      /\ typesPc[x] = "next" /\ typesWanted[x] > 0
  BY DEF TypeInv, TypesTyped, Typing!Fetch, Typing!pinVars
<1>2. /\ Len(types) \in Nat /\ DOMAIN types = 1..Len(types)
      /\ \A k \in 1..Len(types) : types[k] \in MediaTypes
      /\ Len(h) \in Nat
  BY <1>1, PartsOfSeq DEF TypesTyped
<1>3. /\ typesVersion' \in [Enums -> Nat] /\ typesPosition' \in [Enums -> Nat]
      /\ types' \in Seq(MediaTypes) /\ m_TypeVersion' \in Nat
  BY <1>1 DEF TypesTyped
<1>4. retyped' \in BOOLEAN
  BY <1>1, Zenon DEF TypesTyped
<1>5. typesVersion'[x] = typesVersion[x] /\ typesPosition'[x] = at + 1
  BY <1>1 DEF TypesTyped
<1>6. CASE at < Len(types) /\ allocated
  <2>1. /\ typesHanded' = [typesHanded EXCEPT ![x] = Append(h, types[at + 1])]
        /\ typesWanted' = [typesWanted EXCEPT ![x] = typesWanted[x] - 1] /\ UNCHANGED << typesPc, gap >>
    BY <1>6 DEF Typing!Fetch, Typing!Offers
  <2>2. types[at + 1] \in MediaTypes
    BY <1>1, <1>2, <1>6
  <2>3. TypesTyped'
    <3>1. typesHanded' \in [Enums -> Seq(MediaTypes)]
      BY <1>1, <2>1, <2>2 DEF TypesTyped
    <3>2. typesWanted' \in [Enums -> Nat]
      BY <1>1, <2>1 DEF TypesTyped
    <3> QED BY <1>1, <1>3, <1>4, <2>1, <3>1, <3>2, Zenon DEF TypesTyped
  <2>4. typesHanded'[x] = Append(h, types[at + 1]) /\ UNCHANGED << typesPc[x], gap[x] >>
    BY <1>1, <2>1 DEF TypesTyped
  <2>5. /\ Len(Append(h, types[at + 1])) = Len(h) + 1
        /\ \A k \in 1..Len(h) : Append(h, types[at + 1])[k] = h[k]
        /\ Append(h, types[at + 1])[Len(h) + 1] = types[at + 1]
    BY <1>1, <1>2, <2>2
  <2>6. ASSUME Trusted(x)' PROVE Follows(typesHanded[x], typesPosition[x])'
    <3>1. Follows(h, at)
      BY <1>1, <1>5, <2>4, <2>6 DEF SeenInv, Trusted
    <3>2. at = Len(h)
      BY <1>1, <1>2, <1>6, <3>1 DEF Follows
    <3>3. PICK new : new = Append(h, types[at + 1])
      OBVIOUS
    <3>4. /\ Len(new) = Len(h) + 1 /\ Len(h) + 1 <= Len(types)
          /\ \A k \in 1..Len(h) : new[k] = types[k]
          /\ new[Len(h) + 1] = types[Len(h) + 1]
      BY <1>2, <1>6, <2>5, <3>1, <3>2, <3>3 DEF Follows
    <3>5. Follows(new, at + 1)
      <4>1. ASSUME NEW k \in 1..Len(new) PROVE new[k] = types[k]
        <5>1. k \in 1..Len(h) \/ k = Len(h) + 1
          BY <1>2, <3>4
        <5> QED BY <3>4, <5>1
      <4> QED BY <3>2, <3>4, <4>1 DEF Follows
    <3>6. typesHanded'[x] = new /\ typesPosition'[x] = at + 1 /\ types' = types
      BY <1>1, <1>5, <2>4, <3>3
    <3> QED BY <3>5, <3>6 DEF Follows
  <2>7. SeenInv(x)'
    BY <1>1, <1>5, <2>4, <2>6 DEF SeenInv
  <2>8. UNCHANGED << types, m_TypeVersion, retyped >>
    BY <1>1, <2>1, <2>3, <2>7
  <2>9. OtherTypesStay(x)
    BY <1>1, <2>1, <2>3, <2>7 DEF TypesTyped, OtherTypesStay
  <2> QED BY <1>1, <2>1, <2>3, <2>7, <2>8, <2>9, MethodKeepsTypes, Zenon
<1>7. CASE ~(at < Len(types) /\ allocated)
  <2>1. /\ UNCHANGED typesHanded /\ typesWanted' = [typesWanted EXCEPT ![x] = 0]
        /\ typesPc' = [typesPc EXCEPT ![x] = "idle"]
        /\ gap' = [gap EXCEPT ![x] = gap[x] \/ at < Len(types)]
    BY <1>7 DEF Typing!Fetch, Typing!Offers, Typing!Goto
  <2>2. TypesTyped'
    <3>1. typesWanted' \in [Enums -> Nat] /\ typesPc' \in [Enums -> TypePlaces]
      BY <1>1, <2>1 DEF TypesTyped, TypePlaces
    <3>2. gap' \in [Enums -> BOOLEAN]
      BY <1>1, <2>1, Zenon DEF TypesTyped
    <3> QED BY <1>1, <1>3, <1>4, <2>1, <3>1, <3>2, Zenon DEF TypesTyped
  <2>3. typesHanded'[x] = h /\ typesPc'[x] = "idle"
    BY <1>1, <2>1 DEF TypesTyped
  <2>4. gap'[x] = (gap[x] \/ at < Len(types))
    BY <1>1, <2>1, Zenon DEF TypesTyped
  <2>5. ASSUME Trusted(x)' PROVE Follows(typesHanded[x], typesPosition[x])'
    <3>1. ~gap[x] /\ ~(at < Len(types))
      BY <2>4, <2>5, Zenon DEF Trusted
    <3>2. Follows(h, at)
      BY <1>1, <1>5, <2>5, <3>1 DEF SeenInv, Trusted
    <3> QED BY <1>1, <1>2, <1>5, <2>3, <3>1, <3>2 DEF Follows
  <2>6. SeenInv(x)'
    BY <1>1, <1>5, <2>3, <2>5 DEF SeenInv
  <2>8. UNCHANGED << types, m_TypeVersion, retyped >>
    BY <1>1, <2>1, <2>2, <2>6
  <2>9. OtherTypesStay(x)
    BY <1>1, <2>1, <2>2, <2>6 DEF TypesTyped, OtherTypesStay
  <2> QED BY <1>1, <2>1, <2>2, <2>6, <2>8, <2>9, MethodKeepsTypes, Zenon
<1> QED BY <1>6, <1>7

\* Between its test and its copy a clone claims nothing, and the original stays as it is.
LEMMA CloneTestKeepsTypes ==
    ASSUME TypeInv, NEW e \in Enums, NEW x \in Enums, Typing!CloneTest(e, x)
    PROVE  TypeInv'
<1> USE DEF Typing!CloneTest, Typing!pinVars, Typing!enumVars
<1>1. TypesTyped /\ e # x
  BY DEF TypeInv
<1>2. TypesTyped'
  <2>1. typesPc' \in [Enums -> TypePlaces]
    BY <1>1 DEF TypesTyped, TypePlaces
  <2> QED BY <1>1, <2>1, Zenon DEF TypesTyped
<1>3. /\ typesPc[e] = "idle" /\ typesPc'[e] = "cloning" /\ typesPc'[x] = "clone"
      /\ \A y \in Enums \ {e, x} : typesPc'[y] = typesPc[y]
  BY <1>1 DEF TypesTyped
<1>4. ASSUME NEW y \in Enums PROVE SeenInv(y)'
  <2>1. SeenInv(y)
    BY DEF TypeInv
  <2> QED BY <1>3, <2>1 DEF SeenInv, Trusted, Follows
<1> QED BY <1>2, <1>4 DEF TypeInv

LEMMA CloneCopyKeepsTypes ==
    ASSUME TypeInv, NEW e \in Enums, NEW x \in Enums, Typing!CloneCopy(e, x)
    PROVE  TypeInv'
<1> USE DEF Typing!CloneCopy, Typing!Copied, Typing!pinVars
<1>1. TypesTyped /\ e # x /\ SeenInv(e)
  BY DEF TypeInv
<1>2. TypesTyped'
  <2>1. /\ typesVersion' \in [Enums -> Nat] /\ typesPosition' \in [Enums -> Nat]
        /\ typesHanded' \in [Enums -> Seq(MediaTypes)]
    BY <1>1 DEF TypesTyped
  <2>2. typesPc' \in [Enums -> TypePlaces]
    BY <1>1 DEF TypesTyped, TypePlaces
  <2>3. gap' \in [Enums -> BOOLEAN]
    BY <1>1, Zenon DEF TypesTyped
  <2> QED BY <1>1, <2>1, <2>2, <2>3, Zenon DEF TypesTyped
<1>3. /\ typesPc[e] = "cloning" /\ typesPc'[e] = "idle" /\ typesPc'[x] = "idle"
      /\ typesVersion'[x] = typesVersion[e] /\ typesPosition'[x] = typesPosition[e]
      /\ typesHanded'[x] = typesHanded[e] /\ gap'[x] = gap[e]
      /\ \A y \in Enums \ {x} :
            /\ typesVersion'[y] = typesVersion[y] /\ typesPosition'[y] = typesPosition[y]
            /\ typesHanded'[y] = typesHanded[y] /\ gap'[y] = gap[y]
      /\ \A y \in Enums \ {e, x} : typesPc'[y] = typesPc[y]
  BY <1>1 DEF TypesTyped
<1>4. SeenInv(e)' /\ SeenInv(x)'
  BY <1>1, <1>3 DEF SeenInv, Trusted, Follows
<1>5. ASSUME NEW y \in Enums, y # e, y # x PROVE SeenInv(y)'
  <2>1. SeenInv(y)
    BY DEF TypeInv
  <2>2. /\ UNCHANGED << types, m_TypeVersion, retyped, typesVersion[y], typesPosition[y] >>
        /\ UNCHANGED << typesPc[y], typesHanded[y], gap[y] >>
    BY <1>3, <1>5
  <2> QED BY <2>1, <2>2 DEF SeenInv, Trusted, Follows
<1> QED BY <1>2, <1>4, <1>5 DEF TypeInv

LEMMA NextKeepsTypes == ASSUME TypeInv, Typing!Next PROVE TypeInv'
<1>1. CASE Typing!IncrementTypeVersion \/ \E list \in Typing!TypeLists : Typing!Retype(list)
  BY <1>1, PinKeepsTypes
<1>2. ASSUME NEW e \in Enums,
             Typing!Begin(e) \/ Typing!GetMediaTypeVersion(e) \/ Typing!Return(e) \/ Typing!Release(e)
      PROVE  TypeInv'
  BY <1>2, BeginKeepsTypes, VersionKeepsTypes, ReturnKeepsTypes, ReleaseKeepsTypes
<1>3. ASSUME NEW e \in Enums, NEW n \in 1..MaxAsk, Typing!CallNext(e, n) \/ Typing!Skip(e, n)
      PROVE  TypeInv'
  BY <1>3, CallNextKeepsTypes, SkipKeepsTypes
<1>4. ASSUME NEW e \in Enums, NEW allocated \in BOOLEAN, Typing!Fetch(e, allocated) PROVE TypeInv'
  BY <1>4, FetchKeepsTypes
<1>5. ASSUME NEW e \in Enums, NEW x \in Enums, Typing!CloneTest(e, x) \/ Typing!CloneCopy(e, x)
      PROVE  TypeInv'
  BY <1>5, CloneTestKeepsTypes, CloneCopyKeepsTypes
<1> QED BY <1>1, <1>2, <1>3, <1>4, <1>5 DEF Typing!Next

LEMMA TypeInvSound == TypeInv => Typing!TypesInOrder
<1> SUFFICES ASSUME TypeInv, NEW e \in Enums, typesPc[e] = "idle", Trusted(e)
             PROVE  /\ Typing!IsPrefix(typesHanded[e], types)
                    /\ typesPosition[e] > Len(typesHanded[e]) => typesHanded[e] = types
  BY DEF Typing!TypesInOrder, Trusted, Typing!AreWeOutOfSync
<1>1. PICK h : h = typesHanded[e]
  OBVIOUS
<1>2. /\ TypesTyped /\ Follows(h, typesPosition[e])
      /\ types \in Seq(MediaTypes) /\ h \in Seq(MediaTypes) /\ typesPosition[e] \in Nat
  BY <1>1 DEF TypeInv, TypesTyped, SeenInv
<1>3. /\ Len(h) \in Nat /\ DOMAIN h = 1..Len(h) /\ Len(types) \in Nat /\ DOMAIN types = 1..Len(types)
  BY <1>2, PartsOfSeq
<1>4. Typing!IsPrefix(h, types)
  <2>1. SubSeq(h, 1, Len(h)) = SubSeq(types, 1, Len(h))
    <3>1. /\ Len(h) <= Len(types) /\ \A k \in 1..Len(h) : h[k] = types[k]
      BY <1>2 DEF Follows
    <3>2. /\ SubSeq(h, 1, Len(h)) \in Seq(MediaTypes) /\ Len(SubSeq(h, 1, Len(h))) = Len(h)
          /\ \A k \in 1..Len(h) : SubSeq(h, 1, Len(h))[k] = h[k]
      BY <1>2, <1>3, SubSeqProperties
    <3>3. /\ SubSeq(types, 1, Len(h)) \in Seq(MediaTypes) /\ Len(SubSeq(types, 1, Len(h))) = Len(h)
          /\ \A k \in 1..Len(h) : SubSeq(types, 1, Len(h))[k] = types[k]
      BY <1>2, <1>3, <3>1, SubSeqProperties
    <3> QED BY <3>1, <3>2, <3>3, SeqEqual
  <2> QED BY <1>2, <2>1 DEF Typing!IsPrefix, Follows
<1>5. ASSUME typesPosition[e] > Len(h) PROVE h = types
  <2>1. \A k \in 1..Len(h) : h[k] = types[k]
    BY <1>2 DEF Follows
  <2>2. typesPosition[e] = Len(h) \/ (typesPosition[e] > Len(h) /\ Len(h) = Len(types))
    BY <1>2 DEF Follows
  <2>3. typesPosition[e] # Len(h)
    BY <1>3, <1>5
  <2>4. Len(h) = Len(types)
    BY <2>2, <2>3, Zenon
  <2> QED BY <1>2, <2>1, <2>4, SeqEqual
<1> QED BY <1>1, <1>4, <1>5

LEMMA LeastExists ==
    ASSUME NEW T, T \subseteq Nat, T # {}
    PROVE  \E x \in T : \A y \in T : x <= y
<1>1. PICK x \in T : \A y \in T : ~(<<y, x>> \in OpToRel(<, Nat))
  <2>1. \E x \in T : \A y \in T : ~(<<y, x>> \in OpToRel(<, Nat))
    BY NatLessThanWellFounded, WFMin
  <2> QED BY <2>1
<1>2. \A y \in T : ~(y < x)
  BY <1>1 DEF OpToRel
<1> QED BY <1>2

-----------------------------------------------------------------------------
(* The memory of samples and media types. *)

TypeRecords == [at : Blocks \cup {0}, pbFormat : Blocks \cup {0}, pUnk : BOOLEAN, is : BOOLEAN]

MemoryTyped ==
    /\ m_mt \in TypeRecords /\ copy \in TypeRecords /\ m_pMediaType \in TypeRecords
    /\ data \in [Blocks -> Formats \cup { Sample!Nothing }]
    /\ m_mt.at = 0 /\ m_mt.is
    /\ copy.is \/ copy = Sample!None
    /\ m_pMediaType.is \/ m_pMediaType = Sample!None

\* Every block has one owner, and every holder of the interface is counted, but for the copies
\* that failed.
OwnersInv ==
    /\ blocks = (Sample!Owned(m_mt) \cup Sample!Owned(copy)) \cup Sample!Owned(m_pMediaType)
    /\ Sample!Owned(m_mt) \cap Sample!Owned(copy) = {}
    /\ Sample!Owned(m_mt) \cap Sample!Owned(m_pMediaType) = {}
    /\ Sample!Owned(copy) \cap Sample!Owned(m_pMediaType) = {}
    /\ refs \in Int /\ failed \in Nat
    /\ refs + failed = 1 + Sample!Held(m_mt) + Sample!Held(copy) + Sample!Held(m_pMediaType)

\* The flag of the type says whether there is one, and it is the one that was set.
TypeFlagInv ==
    /\ ("Type" \in m_dwFlags) <=> m_pMediaType.is
    /\ ~inUse => m_dwFlags = {}
    /\ intended = (IF m_pMediaType.is THEN << Sample!Contents(m_pMediaType) >> ELSE Sample!Nothing)

\* The flags of the times name only what was set, unless an end was only declared.
TimesInv ==
    /\ "Time" \in m_dwFlags => "start" \in set
    /\ "Stop" \in m_dwFlags => declared \/ {"start", "stop"} \subseteq set

SampleInv == MemoryTyped /\ OwnersInv /\ TypeFlagInv /\ TimesInv

LEMMA NoneOwnsNothing ==
    /\ Sample!None \in TypeRecords /\ ~Sample!None.is
    /\ Sample!Owned(Sample!None) = {} /\ Sample!Held(Sample!None) = 0
BY DEF Sample!None, Sample!Nowhere, Sample!Owned, Sample!Held, TypeRecords

LEMMA HasOrHasNot == ASSUME NEW mt \in TypeRecords PROVE mt.is \in BOOLEAN
BY DEF TypeRecords

LEMMA HeldIsCount == ASSUME NEW mt PROVE Sample!Held(mt) \in Int
BY DEF Sample!Held

LEMMA OwnedBlocks ==
    ASSUME NEW mt \in TypeRecords
    PROVE  /\ Sample!Owned(mt) \subseteq Blocks /\ 0 \notin Sample!Owned(mt)
           /\ mt.pbFormat # 0 => mt.pbFormat \in Sample!Owned(mt) /\ mt.pbFormat \in Blocks
           /\ mt.at = 0 => Sample!Owned(mt) = { mt.pbFormat } \ {0}
BY DEF TypeRecords, Sample!Owned, Sample!Nowhere

LEMMA ContentsTyped ==
    ASSUME MemoryTyped, NEW mt \in TypeRecords
    PROVE  Sample!Contents(mt) \in Formats \cup { Sample!Nothing }
BY OwnedBlocks DEF MemoryTyped, Sample!Contents, Sample!Nowhere

LEMMA SampleInit == Sample!Init => SampleInv
<1> SUFFICES ASSUME Sample!Init PROVE SampleInv
  OBVIOUS
<1> USE DEF Sample!Init
<1>1. /\ m_mt = [at |-> 0, pbFormat |-> 0, pUnk |-> FALSE, is |-> TRUE]
      /\ copy = Sample!None /\ m_pMediaType = Sample!None
  BY DEF Sample!Empty, Sample!None, Sample!Nowhere
<1>2. MemoryTyped
  BY <1>1, NoneOwnsNothing DEF MemoryTyped, TypeRecords
<1>3. Sample!Owned(m_mt) = {} /\ Sample!Held(m_mt) = 0
  BY <1>1 DEF Sample!Owned, Sample!Held, Sample!Nowhere
<1>4. OwnersInv
  BY <1>1, <1>3, NoneOwnsNothing DEF OwnersInv
<1>5. TypeFlagInv /\ TimesInv
  BY <1>1, NoneOwnsNothing DEF TypeFlagInv, TimesInv
<1> QED BY <1>2, <1>4, <1>5 DEF SampleInv

-----------------------------------------------------------------------------
(* Allocating. *)

LEMMA SampleAssumed == Sample!MediaSampleAssumption
BY ToolboxAssumption DEF ToolboxAssumption

LEMMA LeastIsThere ==
    ASSUME NEW T, T \subseteq Blocks, T # {}
    PROVE  Sample!Min(T) \in T
<1>1. \E x \in T : \A y \in T : x <= y
  <2>1. T \subseteq Nat
    BY SampleAssumed DEF Sample!MediaSampleAssumption
  <2> QED BY <2>1, LeastExists
<1> QED BY <1>1 DEF Sample!Min

\* CreateMediaType takes new memory, as much as the type has, or nothing.
LEMMA CreatedIs ==
    ASSUME NEW mt \in TypeRecords, NEW memory \in SUBSET Blocks,
           NEW new, new = Sample!Created(mt, memory)
    PROVE  /\ new \in TypeRecords
           /\ new.is \/ new = Sample!None
           /\ Sample!Owned(new) \cap memory = {}
           /\ new.is => /\ new.pbFormat = 0 <=> mt.pbFormat = 0
                        /\ Sample!Held(new) = Sample!Held(mt)
<1> DEFINE free == Blocks \ memory
<1>1. IsFiniteSet(free)
  <2>1. IsFiniteSet(Blocks)
    BY SampleAssumed DEF Sample!MediaSampleAssumption, Sample!IsFiniteSet, IsFiniteSet
  <2> QED BY <2>1, FS_Subset
<1>2. CASE new = Sample!None
  BY <1>2, NoneOwnsNothing
<1>3. CASE mt.pbFormat = 0 /\ new # Sample!None
  <2>1. free # {}
    <3>1. ~(Sample!Cardinality(free) < 1)
      BY <1>3 DEF Sample!Created, Sample!Nowhere
    <3>2. Sample!Cardinality(free) = Cardinality(free)
      BY DEF Sample!Cardinality, Cardinality
    <3> QED BY <3>1, <3>2, FS_EmptySet
  <2>2. PICK b : b = Sample!Min(free)
    OBVIOUS
  <2>3. b \in Blocks /\ b \notin memory
    BY <2>1, <2>2, LeastIsThere
  <2>4. new = [at |-> b, pUnk |-> mt.pUnk, is |-> TRUE, pbFormat |-> 0]
    BY <1>3, <2>2 DEF Sample!Created, Sample!Nowhere
  <2>5. new \in TypeRecords
    BY <2>3, <2>4 DEF TypeRecords
  <2>6. Sample!Owned(new) \cap memory = {} /\ Sample!Held(new) = Sample!Held(mt) /\ new.pbFormat = 0
    BY <2>3, <2>4 DEF Sample!Owned, Sample!Held, Sample!Nowhere
  <2>7. new.is
    BY <2>4
  <2> QED BY <1>3, <2>5, <2>6, <2>7
<1>4. CASE mt.pbFormat # 0 /\ new # Sample!None
  <2>1. PICK b : b = Sample!Min(free)
    OBVIOUS
  <2>2. PICK c : c = Sample!Min(free \ {b})
    OBVIOUS
  <2>3. free # {} /\ free \ {b} # {}
    <3>1. ~(Sample!Cardinality(free) < 2)
      BY <1>4 DEF Sample!Created, Sample!Nowhere
    <3>2. Sample!Cardinality(free) = Cardinality(free)
      BY DEF Sample!Cardinality, Cardinality
    <3>3. Cardinality(free) # 0 /\ Cardinality(free) # 1
      BY <3>1, <3>2
    <3>4. free # {}
      BY <3>3, FS_EmptySet
    <3>5. free # {b}
      BY <3>3, FS_Singleton
    <3> QED BY <3>4, <3>5
  <2>4. b \in free
    BY <2>1, <2>3, LeastIsThere
  <2>5. c \in free \ {b}
    BY <2>2, <2>3, LeastIsThere
  <2>6. new = [at |-> b, pUnk |-> mt.pUnk, is |-> TRUE, pbFormat |-> c]
    BY <1>4, <2>1, <2>2 DEF Sample!Created, Sample!Nowhere
  <2>7. new \in TypeRecords
    BY <2>4, <2>5, <2>6 DEF TypeRecords
  <2>8. Sample!Owned(new) \cap memory = {} /\ Sample!Held(new) = Sample!Held(mt)
    BY <2>4, <2>5, <2>6 DEF Sample!Owned, Sample!Held, Sample!Nowhere
  <2>9. new.is /\ new.pbFormat # 0
    <3>1. c # 0
      BY <2>5, SampleAssumed DEF Sample!MediaSampleAssumption
    <3> QED BY <2>6, <3>1
  <2> QED BY <1>4, <2>7, <2>8, <2>9
<1> QED BY <1>2, <1>3, <1>4


-----------------------------------------------------------------------------
(* What a step on one of the three types must leave of the others. *)

\* What the format blocks of another type contain stays.
ContentsStay(mt) == \A b \in Sample!Owned(mt) : data'[b] = data[b]

LEMMA SampleTypeStays ==
    ASSUME MemoryTyped, UNCHANGED m_pMediaType, ContentsStay(m_pMediaType)
    PROVE  Sample!Contents(m_pMediaType)' = Sample!Contents(m_pMediaType)
<1>1. m_pMediaType \in TypeRecords
  BY DEF MemoryTyped
<1> QED BY <1>1, OwnedBlocks DEF ContentsStay, Sample!Contents, Sample!Nowhere

\* The client's own type changes.
LEMMA ClientTypeChanges ==
    ASSUME SampleInv, UNCHANGED << copy, inUse, m_dwFlags, m_pMediaType, set, intended, declared >>,
           m_mt' \in TypeRecords, m_mt'.at = 0, m_mt'.is,
           data' \in [Blocks -> Formats \cup { Sample!Nothing }], ContentsStay(m_pMediaType),
           blocks' = (Sample!Owned(m_mt') \cup Sample!Owned(copy)) \cup Sample!Owned(m_pMediaType),
           Sample!Owned(m_mt') \cap Sample!Owned(copy) = {},
           Sample!Owned(m_mt') \cap Sample!Owned(m_pMediaType) = {},
           failed' \in Nat,
           refs' = refs + failed - Sample!Held(m_mt) + Sample!Held(m_mt') - failed'
    PROVE  SampleInv'
<1>1. MemoryTyped /\ OwnersInv /\ TypeFlagInv /\ TimesInv
  BY DEF SampleInv
<1>2. MemoryTyped'
  BY <1>1 DEF MemoryTyped
<1>3. OwnersInv'
  <2>1. /\ Sample!Owned(m_mt)' = Sample!Owned(m_mt') /\ Sample!Owned(copy)' = Sample!Owned(copy)
        /\ Sample!Owned(m_pMediaType)' = Sample!Owned(m_pMediaType)
    BY DEF Sample!Owned
  <2>2. /\ Sample!Held(m_mt)' = Sample!Held(m_mt') /\ Sample!Held(copy)' = Sample!Held(copy)
        /\ Sample!Held(m_pMediaType)' = Sample!Held(m_pMediaType)
    BY DEF Sample!Held
  <2>3. /\ refs' \in Int /\ failed' \in Nat
        /\ refs' + failed' = 1 + Sample!Held(m_mt') + Sample!Held(copy) + Sample!Held(m_pMediaType)
    BY <1>1, HeldIsCount DEF OwnersInv
  <2> QED BY <1>1, <2>1, <2>2, <2>3 DEF OwnersInv
<1>4. TypeFlagInv'
  BY <1>1, SampleTypeStays DEF TypeFlagInv
<1>5. TimesInv'
  BY <1>1 DEF TimesInv
<1> QED BY <1>2, <1>3, <1>4, <1>5 DEF SampleInv

\* The client's copy changes.
LEMMA CopyChanges ==
    ASSUME SampleInv, UNCHANGED << m_mt, failed, inUse, m_dwFlags, m_pMediaType, set, intended, declared >>,
           copy' \in TypeRecords, copy'.is \/ copy' = Sample!None,
           data' \in [Blocks -> Formats \cup { Sample!Nothing }], ContentsStay(m_pMediaType),
           blocks' = (Sample!Owned(m_mt) \cup Sample!Owned(copy')) \cup Sample!Owned(m_pMediaType),
           Sample!Owned(copy') \cap Sample!Owned(m_mt) = {},
           Sample!Owned(copy') \cap Sample!Owned(m_pMediaType) = {},
           refs' = refs - Sample!Held(copy) + Sample!Held(copy')
    PROVE  SampleInv'
<1>1. MemoryTyped /\ OwnersInv /\ TypeFlagInv /\ TimesInv
  BY DEF SampleInv
<1>2. MemoryTyped'
  BY <1>1 DEF MemoryTyped, Sample!None, Sample!Nowhere
<1>3. OwnersInv'
  <2>1. /\ Sample!Owned(copy)' = Sample!Owned(copy') /\ Sample!Owned(m_mt)' = Sample!Owned(m_mt)
        /\ Sample!Owned(m_pMediaType)' = Sample!Owned(m_pMediaType)
    BY DEF Sample!Owned
  <2>2. /\ Sample!Held(copy)' = Sample!Held(copy') /\ Sample!Held(m_mt)' = Sample!Held(m_mt)
        /\ Sample!Held(m_pMediaType)' = Sample!Held(m_pMediaType)
    BY DEF Sample!Held
  <2>3. /\ refs' \in Int /\ failed' \in Nat
        /\ refs' + failed' = 1 + Sample!Held(m_mt) + Sample!Held(copy') + Sample!Held(m_pMediaType)
    BY <1>1, HeldIsCount DEF OwnersInv
  <2> QED BY <1>1, <2>1, <2>2, <2>3 DEF OwnersInv
<1>4. TypeFlagInv'
  BY <1>1, SampleTypeStays DEF TypeFlagInv
<1>5. TimesInv'
  BY <1>1 DEF TimesInv
<1> QED BY <1>2, <1>3, <1>4, <1>5 DEF SampleInv

\* The sample's type changes, with the flag that says whether there is one.
LEMMA SampleTypeChanges ==
    ASSUME SampleInv, UNCHANGED << m_mt, copy, failed >>,
           m_pMediaType' \in TypeRecords, m_pMediaType'.is \/ m_pMediaType' = Sample!None,
           data' \in [Blocks -> Formats \cup { Sample!Nothing }],
           blocks' = (Sample!Owned(m_mt) \cup Sample!Owned(copy)) \cup Sample!Owned(m_pMediaType'),
           Sample!Owned(m_pMediaType') \cap Sample!Owned(m_mt) = {},
           Sample!Owned(m_pMediaType') \cap Sample!Owned(copy) = {},
           refs' = refs - Sample!Held(m_pMediaType) + Sample!Held(m_pMediaType'),
           TypeFlagInv', TimesInv'
    PROVE  SampleInv'
<1>1. MemoryTyped /\ OwnersInv
  BY DEF SampleInv
<1>2. MemoryTyped'
  BY <1>1 DEF MemoryTyped, Sample!None, Sample!Nowhere
<1>3. OwnersInv'
  <2>1. /\ Sample!Owned(copy)' = Sample!Owned(copy) /\ Sample!Owned(m_mt)' = Sample!Owned(m_mt)
        /\ Sample!Owned(m_pMediaType)' = Sample!Owned(m_pMediaType')
    BY DEF Sample!Owned
  <2>2. /\ Sample!Held(copy)' = Sample!Held(copy) /\ Sample!Held(m_mt)' = Sample!Held(m_mt)
        /\ Sample!Held(m_pMediaType)' = Sample!Held(m_pMediaType')
    BY DEF Sample!Held
  <2>3. /\ refs' \in Int /\ failed' \in Nat
        /\ refs' + failed' = 1 + Sample!Held(m_mt) + Sample!Held(copy) + Sample!Held(m_pMediaType')
    BY <1>1, HeldIsCount DEF OwnersInv
  <2> QED BY <1>1, <2>1, <2>2, <2>3 DEF OwnersInv
<1> QED BY <1>2, <1>3 DEF SampleInv

-----------------------------------------------------------------------------
(* The client's type. *)

\* A freed block is forgotten, and the others contain what they did.
LEMMA ContainsIs ==
    ASSUME NEW d \in [Blocks -> Formats \cup { Sample!Nothing }], Sample!Contains(d)
    PROVE  /\ data' \in [Blocks -> Formats \cup { Sample!Nothing }]
           /\ \A b \in Blocks : b \in blocks' => data'[b] = d[b]
BY DEF Sample!Contains

LEMMA SetFormatKeeps ==
    ASSUME SampleInv, NEW f \in Formats, Sample!SetFormat(f)
    PROVE  SampleInv'
<1> DEFINE old == m_mt.pbFormat
<1>1. /\ MemoryTyped /\ OwnersInv /\ m_mt \in TypeRecords /\ m_mt.at = 0 /\ m_mt.is
      /\ data \in [Blocks -> Formats \cup { Sample!Nothing }]
      /\ UNCHANGED << refs, failed, copy, inUse, m_dwFlags, m_pMediaType, set, intended, declared >>
  BY DEF SampleInv, MemoryTyped, Sample!SetFormat
<1>2. /\ Sample!Owned(m_mt) = {old} \ {0}
      /\ Sample!Owned(copy) \subseteq Blocks /\ 0 \notin Sample!Owned(copy)
      /\ Sample!Owned(m_pMediaType) \subseteq Blocks /\ 0 \notin Sample!Owned(m_pMediaType)
  BY <1>1, OwnedBlocks DEF MemoryTyped
<1>3. CASE old # 0 /\ data' = [data EXCEPT ![old] = f] /\ UNCHANGED << blocks, m_mt >>
  <2>1. data' \in [Blocks -> Formats \cup { Sample!Nothing }]
    BY <1>1, <1>3
  <2>2. ContentsStay(m_pMediaType)
    BY <1>1, <1>2, <1>3 DEF ContentsStay, OwnersInv
  <2>3. refs' = refs + failed - Sample!Held(m_mt) + Sample!Held(m_mt') - failed'
    BY <1>1, <1>3, HeldIsCount DEF OwnersInv
  <2> QED BY <1>1, <1>3, <2>1, <2>2, <2>3, ClientTypeChanges DEF OwnersInv
<1>4. ASSUME NEW b \in Blocks \ blocks,
             blocks' = (blocks \ {old}) \cup {b},
             Sample!Contains([data EXCEPT ![b] = f]),
             m_mt' = [m_mt EXCEPT !.pbFormat = b]
      PROVE  SampleInv'
  <2>1. /\ m_mt'.at = 0 /\ m_mt'.pbFormat = b
    BY <1>1, <1>4 DEF TypeRecords
  <2>2. m_mt'.is /\ m_mt'.pUnk = m_mt.pUnk
    BY <1>1, <1>4 DEF TypeRecords
  <2>3. m_mt' \in TypeRecords
    BY <1>1, <1>4 DEF TypeRecords
  <2>4. Sample!Owned(m_mt') = {b} \ {0} /\ Sample!Held(m_mt') = Sample!Held(m_mt)
    BY <2>1, <2>2 DEF Sample!Owned, Sample!Held, Sample!Nowhere
  <2>5. /\ data' \in [Blocks -> Formats \cup { Sample!Nothing }]
        /\ \A c \in Blocks : c \in blocks' => data'[c] = [data EXCEPT ![b] = f][c]
    BY <1>1, <1>4, ContainsIs
  <2>6. b # 0
    BY SampleAssumed DEF Sample!MediaSampleAssumption
  <2>7. /\ blocks' = (Sample!Owned(m_mt') \cup Sample!Owned(copy)) \cup Sample!Owned(m_pMediaType)
        /\ Sample!Owned(m_mt') \cap Sample!Owned(copy) = {}
        /\ Sample!Owned(m_mt') \cap Sample!Owned(m_pMediaType) = {}
    BY <1>1, <1>2, <1>4, <2>4, <2>6 DEF OwnersInv
  <2>8. ContentsStay(m_pMediaType)
    BY <1>1, <1>2, <2>5, <2>7, <2>4, <2>6 DEF ContentsStay
  <2>9. /\ failed' \in Nat
        /\ refs' = refs + failed - Sample!Held(m_mt) + Sample!Held(m_mt') - failed'
    BY <1>1, <2>4, HeldIsCount DEF OwnersInv
  <2> QED BY <1>1, <2>1, <2>2, <2>3, <2>5, <2>7, <2>8, <2>9, ClientTypeChanges
<1> QED BY <1>3, <1>4 DEF Sample!SetFormat, Sample!Nowhere

\* The block is freed, or the interface is counted: no other block is touched.
LEMMA ClientOperationsKeep ==
    ASSUME SampleInv, Sample!ResetFormatBuffer \/ Sample!SetInterface
    PROVE  SampleInv'
<1>1. /\ MemoryTyped /\ OwnersInv /\ m_mt \in TypeRecords /\ m_mt.at = 0 /\ m_mt.is
      /\ data \in [Blocks -> Formats \cup { Sample!Nothing }]
  BY DEF SampleInv, MemoryTyped
<1>2. /\ Sample!Owned(m_mt) = {m_mt.pbFormat} \ {0}
      /\ Sample!Owned(copy) \subseteq Blocks /\ 0 \notin Sample!Owned(copy)
      /\ Sample!Owned(m_pMediaType) \subseteq Blocks /\ 0 \notin Sample!Owned(m_pMediaType)
  BY <1>1, OwnedBlocks DEF MemoryTyped
<1>3. CASE Sample!ResetFormatBuffer
  <2>1. /\ UNCHANGED << refs, failed, copy, inUse, m_dwFlags, m_pMediaType, set, intended, declared >>
        /\ m_mt' = [m_mt EXCEPT !.pbFormat = 0] /\ blocks' = blocks \ { m_mt.pbFormat }
        /\ Sample!Contains(data)
    BY <1>3 DEF Sample!ResetFormatBuffer, Sample!Nowhere
  <2>2. m_mt'.at = 0 /\ m_mt'.pbFormat = 0
    BY <1>1, <2>1 DEF TypeRecords
  <2>3. m_mt'.is /\ m_mt'.pUnk = m_mt.pUnk
    BY <1>1, <2>1 DEF TypeRecords
  <2>4. m_mt' \in TypeRecords
    BY <1>1, <2>1 DEF TypeRecords
  <2>5. Sample!Owned(m_mt') = {} /\ Sample!Held(m_mt') = Sample!Held(m_mt)
    BY <2>2, <2>3 DEF Sample!Owned, Sample!Held, Sample!Nowhere
  <2>6. /\ data' \in [Blocks -> Formats \cup { Sample!Nothing }]
        /\ \A c \in Blocks : c \in blocks' => data'[c] = data[c]
    BY <1>1, <2>1, ContainsIs
  <2>7. /\ blocks' = (Sample!Owned(m_mt') \cup Sample!Owned(copy)) \cup Sample!Owned(m_pMediaType)
        /\ Sample!Owned(m_mt') \cap Sample!Owned(copy) = {}
        /\ Sample!Owned(m_mt') \cap Sample!Owned(m_pMediaType) = {}
    BY <1>1, <1>2, <2>1, <2>5 DEF OwnersInv
  <2>8. ContentsStay(m_pMediaType)
    BY <1>1, <1>2, <2>6, <2>7 DEF ContentsStay
  <2>9. /\ failed' \in Nat
        /\ refs' = refs + failed - Sample!Held(m_mt) + Sample!Held(m_mt') - failed'
    BY <1>1, <2>1, <2>5, HeldIsCount DEF OwnersInv
  <2> QED BY <1>1, <2>1, <2>2, <2>3, <2>4, <2>6, <2>7, <2>8, <2>9, ClientTypeChanges
<1>4. CASE Sample!SetInterface
  <2>1. /\ UNCHANGED << blocks, data, failed, copy, inUse, m_dwFlags, m_pMediaType, set, intended, declared >>
        /\ m_mt' = [m_mt EXCEPT !.pUnk = TRUE] /\ refs' = refs + 1 /\ ~m_mt.pUnk
    BY <1>4 DEF Sample!SetInterface
  <2>2. m_mt'.at = 0 /\ m_mt'.pbFormat = m_mt.pbFormat
    BY <1>1, <2>1 DEF TypeRecords
  <2>3. m_mt'.is /\ m_mt'.pUnk
    BY <1>1, <2>1 DEF TypeRecords
  <2>4. m_mt' \in TypeRecords
    BY <1>1, <2>1 DEF TypeRecords
  <2>5. Sample!Owned(m_mt') = Sample!Owned(m_mt) /\ Sample!Held(m_mt') = 1 /\ Sample!Held(m_mt) = 0
    BY <1>1, <2>1, <2>2, <2>3 DEF Sample!Owned, Sample!Held, Sample!Nowhere
  <2>6. refs' = refs + failed - Sample!Held(m_mt) + Sample!Held(m_mt') - failed'
    BY <1>1, <2>1, <2>5, HeldIsCount DEF OwnersInv
  <2>7. ContentsStay(m_pMediaType)
    BY <2>1 DEF ContentsStay
  <2> QED BY <1>1, <2>1, <2>2, <2>3, <2>4, <2>5, <2>6, <2>7, ClientTypeChanges DEF OwnersInv
<1> QED BY <1>3, <1>4

\* CMediaType::Set.  The interface of a type whose block could not be copied is counted for
\* nobody.
LEMMA SetKeeps ==
    ASSUME SampleInv, Sample!Set
    PROVE  SampleInv'
<1> DEFINE memory == blocks \ Sample!Owned(m_mt)
<1>1. /\ MemoryTyped /\ OwnersInv /\ m_mt \in TypeRecords /\ copy \in TypeRecords /\ copy.is
      /\ data \in [Blocks -> Formats \cup { Sample!Nothing }]
      /\ UNCHANGED << copy, inUse, m_dwFlags, m_pMediaType, set, intended, declared >>
  BY DEF SampleInv, MemoryTyped, Sample!Set
<1>2. /\ Sample!Owned(copy) \subseteq Blocks /\ 0 \notin Sample!Owned(copy)
      /\ Sample!Owned(m_pMediaType) \subseteq Blocks /\ 0 \notin Sample!Owned(m_pMediaType)
      /\ memory = Sample!Owned(copy) \cup Sample!Owned(m_pMediaType)
  BY <1>1, OwnedBlocks DEF MemoryTyped, OwnersInv
<1> DEFINE Taken(b) ==
             /\ b \notin memory /\ blocks' = memory \cup ({b} \ {0})
             /\ m_mt' \in TypeRecords /\ m_mt'.at = 0 /\ m_mt'.pbFormat = b /\ m_mt'.is
             /\ failed' \in Nat
             /\ refs' = refs + failed - Sample!Held(m_mt) + Sample!Held(m_mt') - failed'
             /\ \E d \in [Blocks -> Formats \cup { Sample!Nothing }] :
                   Sample!Contains(d) /\ \A c \in Blocks \ {b} : d[c] = data[c]
<1>3. ASSUME NEW b \in Blocks \ memory,
             blocks' = memory \union { b },
             m_mt' = [copy EXCEPT !.at = 0, !.pbFormat = b],
             Sample!Contains([data EXCEPT ![b] = Sample!Contents(copy)]),
             refs' = refs - Sample!Held(m_mt) + Sample!Held(copy), failed' = failed
      PROVE  Taken(b)
  <2>1. m_mt'.at = 0 /\ m_mt'.pbFormat = b
    BY <1>1, <1>3 DEF TypeRecords
  <2>2. m_mt'.is /\ m_mt'.pUnk = copy.pUnk
    BY <1>1, <1>3 DEF TypeRecords
  <2>3. m_mt' \in TypeRecords
    BY <1>1, <1>3 DEF TypeRecords
  <2>4. Sample!Held(m_mt') = Sample!Held(copy)
    BY <2>2 DEF Sample!Held
  <2>5. b # 0
    BY SampleAssumed DEF Sample!MediaSampleAssumption
  <2>6. PICK d : d = [data EXCEPT ![b] = Sample!Contents(copy)]
    OBVIOUS
  <2>7. d \in [Blocks -> Formats \cup { Sample!Nothing }] /\ \A c \in Blocks \ {b} : d[c] = data[c]
    BY <1>1, <2>6, ContentsTyped
  <2>8. Sample!Contains(d)
    BY <1>3, <2>6
  <2>9. b \notin memory /\ blocks' = memory \cup ({b} \ {0})
    BY <1>3, <2>5
  <2> HIDE DEF memory
  <2>10. failed' \in Nat /\
         refs' = refs + failed - Sample!Held(m_mt) + Sample!Held(m_mt') - failed'
    BY <1>1, <1>3, <2>4, HeldIsCount DEF OwnersInv
  <2> QED BY <2>1, <2>2, <2>3, <2>7, <2>8, <2>9, <2>10
<1>4. ASSUME blocks' = memory, Sample!Contains(data), m_mt' \in TypeRecords,
             m_mt'.at = 0, m_mt'.pbFormat = 0, m_mt'.is, failed' \in Nat,
             refs' = refs + failed - Sample!Held(m_mt) + Sample!Held(m_mt') - failed'
      PROVE  Taken(0)
  <2>1. 0 \notin memory /\ blocks' = memory \cup ({0} \ {0})
    BY <1>2, <1>4
  <2> HIDE DEF memory
  <2> QED BY <1>1, <1>4, <2>1
<1>5. ASSUME copy.pbFormat = 0, blocks' = memory, m_mt' = [copy EXCEPT !.at = 0],
             refs' = refs - Sample!Held(m_mt) + Sample!Held(copy), failed' = failed,
             Sample!Contains(data)
      PROVE  Taken(0)
  <2>1. m_mt'.at = 0 /\ m_mt'.pbFormat = 0
    BY <1>1, <1>5 DEF TypeRecords
  <2>2. m_mt'.is /\ m_mt'.pUnk = copy.pUnk
    BY <1>1, <1>5 DEF TypeRecords
  <2>3. m_mt' \in TypeRecords
    BY <1>1, <1>5 DEF TypeRecords
  <2>4. Sample!Held(m_mt') = Sample!Held(copy)
    BY <2>2 DEF Sample!Held
  <2>5. failed' \in Nat /\
        refs' = refs + failed - Sample!Held(m_mt) + Sample!Held(m_mt') - failed'
    BY <1>1, <1>5, <2>4, HeldIsCount DEF OwnersInv
  <2> HIDE DEF memory, Taken
  <2> QED BY <1>4, <1>5, <2>1, <2>2, <2>3, <2>5
<1>6. ASSUME blocks' = memory, m_mt' = [copy EXCEPT !.at = 0, !.pbFormat = 0],
             refs' = refs - Sample!Held(m_mt), failed' = failed + Sample!Held(copy),
             Sample!Contains(data)
      PROVE  Taken(0)
  <2>1. m_mt'.at = 0 /\ m_mt'.pbFormat = 0
    BY <1>1, <1>6 DEF TypeRecords
  <2>2. m_mt'.is /\ m_mt'.pUnk = copy.pUnk
    BY <1>1, <1>6 DEF TypeRecords
  <2>3. m_mt' \in TypeRecords
    BY <1>1, <1>6 DEF TypeRecords
  <2>4. Sample!Held(m_mt') = Sample!Held(copy) /\ Sample!Held(copy) \in Nat
    BY <2>2 DEF Sample!Held
  <2>5. failed' \in Nat /\
        refs' = refs + failed - Sample!Held(m_mt) + Sample!Held(m_mt') - failed'
    BY <1>1, <1>6, <2>4, HeldIsCount DEF OwnersInv
  <2> HIDE DEF memory, Taken
  <2> QED BY <1>4, <1>6, <2>1, <2>2, <2>3, <2>5
<1>7. \E b \in Blocks \cup {0} : Taken(b)
  <2>1. \/ \E b \in Blocks \ memory :
              /\ blocks' = memory \union { b }
              /\ m_mt' = [copy EXCEPT !.at = 0, !.pbFormat = b]
              /\ Sample!Contains([data EXCEPT ![b] = Sample!Contents(copy)])
              /\ refs' = refs - Sample!Held(m_mt) + Sample!Held(copy) /\ failed' = failed
        \/ /\ copy.pbFormat = 0
           /\ blocks' = memory /\ m_mt' = [copy EXCEPT !.at = 0]
           /\ refs' = refs - Sample!Held(m_mt) + Sample!Held(copy) /\ Sample!Contains(data)
           /\ failed' = failed
        \/ /\ blocks' = memory /\ m_mt' = [copy EXCEPT !.at = 0, !.pbFormat = 0]
           /\ refs' = refs - Sample!Held(m_mt) /\ failed' = failed + Sample!Held(copy)
           /\ Sample!Contains(data)
    BY DEF Sample!Set, Sample!Nowhere
  <2> HIDE DEF memory, Taken
  <2> QED BY <1>3, <1>5, <1>6, <2>1
<1>8. PICK b \in Blocks \cup {0} : Taken(b)
  <2> HIDE DEF Taken
  <2> QED BY <1>7
<1>9. PICK d \in [Blocks -> Formats \cup { Sample!Nothing }] :
               Sample!Contains(d) /\ \A c \in Blocks \ {b} : d[c] = data[c]
  BY <1>8
<1>10. Sample!Owned(m_mt') = {b} \ {0} /\ b \notin memory /\ blocks' = memory \cup ({b} \ {0})
  BY <1>8, OwnedBlocks
<1>11. /\ data' \in [Blocks -> Formats \cup { Sample!Nothing }]
       /\ \A c \in Blocks : c \in blocks' => data'[c] = d[c]
  BY <1>9, ContainsIs
<1>12. /\ blocks' = (Sample!Owned(m_mt') \cup Sample!Owned(copy)) \cup Sample!Owned(m_pMediaType)
       /\ Sample!Owned(m_mt') \cap Sample!Owned(copy) = {}
       /\ Sample!Owned(m_mt') \cap Sample!Owned(m_pMediaType) = {}
  <2> HIDE DEF memory
  <2> QED BY <1>2, <1>10
<1>13. ContentsStay(m_pMediaType)
  <2> HIDE DEF memory
  <2> QED BY <1>2, <1>10, <1>9, <1>11 DEF ContentsStay
<1> QED BY <1>1, <1>8, <1>11, <1>12, <1>13, ClientTypeChanges

-----------------------------------------------------------------------------
(* The copy that the client was given. *)

LEMMA CopiedIs ==
    ASSUME MemoryTyped, NEW to \in TypeRecords, NEW from \in TypeRecords, Sample!Copied(to, from)
    PROVE  /\ data' \in [Blocks -> Formats \cup { Sample!Nothing }]
           /\ \A b \in Blocks : b \in blocks' /\ b # to.pbFormat => data'[b] = data[b]
           /\ to.pbFormat # 0 /\ to.pbFormat \in blocks' => data'[to.pbFormat] = Sample!Contents(from)
<1>1. PICK d : d = IF to.pbFormat = 0 THEN data ELSE [data EXCEPT ![to.pbFormat] = Sample!Contents(from)]
  OBVIOUS
<1>2. data \in [Blocks -> Formats \cup { Sample!Nothing }]
  BY DEF MemoryTyped
<1>3. to.pbFormat # 0 => to.pbFormat \in Blocks
  BY OwnedBlocks
<1>4. /\ d \in [Blocks -> Formats \cup { Sample!Nothing }]
      /\ \A b \in Blocks : b # to.pbFormat => d[b] = data[b]
      /\ to.pbFormat # 0 => d[to.pbFormat] = Sample!Contents(from)
  BY <1>1, <1>2, <1>3, ContentsTyped
<1>5. Sample!Contains(d)
  BY <1>1 DEF Sample!Copied, Sample!Nowhere
<1>6. /\ data' \in [Blocks -> Formats \cup { Sample!Nothing }]
      /\ \A b \in Blocks : b \in blocks' => data'[b] = d[b]
  BY <1>4, <1>5, ContainsIs
<1> QED BY <1>3, <1>4, <1>6

LEMMA CopyOperationsKeep ==
    ASSUME SampleInv, Sample!DeleteCopy \/ Sample!GetMediaType
    PROVE  SampleInv'
<1>1. /\ MemoryTyped /\ OwnersInv /\ copy \in TypeRecords /\ m_pMediaType \in TypeRecords
      /\ m_mt \in TypeRecords /\ data \in [Blocks -> Formats \cup { Sample!Nothing }]
  BY DEF SampleInv, MemoryTyped
<1>2. /\ Sample!Owned(copy) \subseteq Blocks /\ Sample!Owned(m_mt) \subseteq Blocks
      /\ Sample!Owned(m_pMediaType) \subseteq Blocks /\ 0 \notin Sample!Owned(m_pMediaType)
  BY <1>1, OwnedBlocks
<1>3. CASE Sample!DeleteCopy
  <2>1. /\ UNCHANGED << m_mt, failed, inUse, m_dwFlags, m_pMediaType, set, intended, declared >>
        /\ copy' = Sample!None /\ blocks' = blocks \ Sample!Owned(copy)
        /\ refs' = refs - Sample!Held(copy) /\ Sample!Contains(data)
    BY <1>3 DEF Sample!DeleteCopy, Sample!Freed
  <2>2. /\ data' \in [Blocks -> Formats \cup { Sample!Nothing }]
        /\ \A c \in Blocks : c \in blocks' => data'[c] = data[c]
    BY <1>1, <2>1, ContainsIs
  <2>3. /\ blocks' = (Sample!Owned(m_mt) \cup Sample!Owned(copy')) \cup Sample!Owned(m_pMediaType)
        /\ Sample!Owned(copy') \cap Sample!Owned(m_mt) = {}
        /\ Sample!Owned(copy') \cap Sample!Owned(m_pMediaType) = {}
    BY <1>1, <2>1, NoneOwnsNothing DEF OwnersInv
  <2>4. ContentsStay(m_pMediaType)
    BY <1>2, <2>2, <2>3 DEF ContentsStay
  <2>5. refs' = refs - Sample!Held(copy) + Sample!Held(copy')
    BY <1>1, <2>1, HeldIsCount, NoneOwnsNothing DEF OwnersInv
  <2> QED BY <2>1, <2>2, <2>3, <2>4, <2>5, NoneOwnsNothing, CopyChanges
<1>4. CASE Sample!GetMediaType
  <2>1. /\ UNCHANGED << m_mt, failed, inUse, m_dwFlags, m_pMediaType, set, intended, declared >>
        /\ ~copy.is /\ copy' = Sample!Created(m_pMediaType, blocks)
        /\ blocks' = blocks \cup Sample!Owned(copy') /\ refs' = refs + Sample!Held(copy')
        /\ Sample!Copied(copy', m_pMediaType)
    BY <1>4 DEF Sample!GetMediaType
  <2>2. copy = Sample!None
    BY <1>1, <2>1 DEF MemoryTyped
  <2>3. blocks \in SUBSET Blocks
    BY <1>1, <1>2 DEF OwnersInv
  <2>4. /\ copy' \in TypeRecords /\ (copy'.is \/ copy' = Sample!None)
        /\ Sample!Owned(copy') \cap blocks = {}
    BY <1>1, <2>1, <2>3, CreatedIs
  <2>5. /\ data' \in [Blocks -> Formats \cup { Sample!Nothing }]
        /\ \A b \in Blocks : b \in blocks' /\ b # copy'.pbFormat => data'[b] = data[b]
    BY <1>1, <2>1, <2>4, CopiedIs
  <2>6. /\ blocks' = (Sample!Owned(m_mt) \cup Sample!Owned(copy')) \cup Sample!Owned(m_pMediaType)
        /\ Sample!Owned(copy') \cap Sample!Owned(m_mt) = {}
        /\ Sample!Owned(copy') \cap Sample!Owned(m_pMediaType) = {}
    BY <1>1, <2>1, <2>2, <2>4, NoneOwnsNothing DEF OwnersInv
  <2>7. copy'.pbFormat # 0 => copy'.pbFormat \in Sample!Owned(copy')
    BY <2>4, OwnedBlocks
  <2>8. ContentsStay(m_pMediaType)
    BY <1>2, <2>5, <2>6, <2>7 DEF ContentsStay
  <2>9. refs' = refs - Sample!Held(copy) + Sample!Held(copy')
    BY <1>1, <2>1, <2>2, HeldIsCount, NoneOwnsNothing DEF OwnersInv
  <2> QED BY <2>1, <2>4, <2>5, <2>6, <2>8, <2>9, CopyChanges
<1> QED BY <1>3, <1>4

-----------------------------------------------------------------------------
(* The sample. *)

LEMMA FlagOperationsKeep ==
    ASSUME SampleInv, Sample!GetBuffer \/ Sample!SetTime \/ \E b \in BOOLEAN : Sample!SetMediaTime(b)
    PROVE  SampleInv'
<1>1. MemoryTyped /\ OwnersInv /\ TypeFlagInv /\ TimesInv
  BY DEF SampleInv
<1>2. UNCHANGED << blocks, data, refs, failed, m_mt, copy, m_pMediaType, intended >>
  BY DEF Sample!GetBuffer, Sample!SetTime, Sample!SetMediaTime
<1>3. MemoryTyped'
  BY <1>1, <1>2 DEF MemoryTyped, Sample!None, Sample!Nowhere
<1>4. OwnersInv'
  BY <1>1, <1>2 DEF OwnersInv, Sample!Owned, Sample!Held
<1>5. /\ inUse' /\ ("Type" \in m_dwFlags' <=> "Type" \in m_dwFlags)
      /\ "Time" \in m_dwFlags' => \/ "Time" \in m_dwFlags /\ set' = set
                                  \/ "start" \in set'
      /\ "Stop" \in m_dwFlags' => \/ "Stop" \in m_dwFlags /\ set' = set
                                  \/ "start" \in set' /\ "stop" \in set'
      /\ declared' = declared
  BY DEF Sample!GetBuffer, Sample!SetTime, Sample!SetMediaTime
<1>6. TypeFlagInv'
  BY <1>1, <1>2, <1>5 DEF TypeFlagInv, Sample!Contents
<1>7. TimesInv'
  BY <1>1, <1>5 DEF TimesInv
<1> QED BY <1>3, <1>4, <1>6, <1>7 DEF SampleInv

\* The last reference of the sample: the flag finds the type, if there is one.
LEMMA ReleaseKeeps ==
    ASSUME SampleInv, Sample!Release
    PROVE  SampleInv'
<1>1. /\ MemoryTyped /\ OwnersInv /\ TypeFlagInv /\ copy \in TypeRecords /\ m_pMediaType \in TypeRecords
      /\ m_mt \in TypeRecords /\ data \in [Blocks -> Formats \cup { Sample!Nothing }]
  BY DEF SampleInv, MemoryTyped
<1>2. /\ UNCHANGED << m_mt, copy, failed >> /\ ~inUse' /\ m_dwFlags' = {} /\ set' = {}
      /\ intended' = Sample!Nothing
  BY DEF Sample!Release
<1>3. /\ m_pMediaType' = Sample!None /\ blocks' = Sample!Freed(m_pMediaType, blocks)
      /\ refs' = refs - Sample!Held(m_pMediaType)
      /\ data' \in [Blocks -> Formats \cup { Sample!Nothing }]
  <2>1. CASE "Type" \in m_dwFlags
    <3>1. Sample!Contains(data)
      BY <2>1 DEF Sample!Release
    <3> QED BY <1>1, <2>1, <3>1, ContainsIs DEF Sample!Release
  <2>2. CASE "Type" \notin m_dwFlags
    <3>1. m_pMediaType = Sample!None /\ UNCHANGED << blocks, refs, m_pMediaType, data >>
      BY <1>1, <2>2 DEF Sample!Release, TypeFlagInv, MemoryTyped
    <3> QED BY <1>1, <3>1, NoneOwnsNothing, HeldIsCount DEF Sample!Freed, OwnersInv
  <2> QED BY <2>1, <2>2
<1>4. /\ blocks' = (Sample!Owned(m_mt) \cup Sample!Owned(copy)) \cup Sample!Owned(m_pMediaType')
      /\ Sample!Owned(m_pMediaType') \cap Sample!Owned(m_mt) = {}
      /\ Sample!Owned(m_pMediaType') \cap Sample!Owned(copy) = {}
  BY <1>1, <1>3, NoneOwnsNothing DEF OwnersInv, Sample!Freed
<1>5. refs' = refs - Sample!Held(m_pMediaType) + Sample!Held(m_pMediaType')
  BY <1>1, <1>3, NoneOwnsNothing, HeldIsCount DEF OwnersInv
<1>6. TypeFlagInv' /\ TimesInv'
  <2>1. ~m_pMediaType'.is
    BY <1>3, NoneOwnsNothing
  <2> QED BY <1>2, <2>1 DEF TypeFlagInv, TimesInv, Sample!Nothing
<1> QED BY <1>2, <1>3, <1>4, <1>5, <1>6, NoneOwnsNothing, SampleTypeChanges

\* The sample's new type has the format that the client's has.
LEMMA NewContents ==
    ASSUME MemoryTyped, m_pMediaType' \in TypeRecords, Sample!Copied(m_pMediaType', m_mt),
           m_pMediaType'.pbFormat = 0 <=> m_mt.pbFormat = 0,
           Sample!Owned(m_pMediaType') \subseteq blocks'
    PROVE  Sample!Contents(m_pMediaType)' = Sample!Contents(m_mt)
<1>1. m_mt \in TypeRecords
  BY DEF MemoryTyped
<1>2. CASE m_mt.pbFormat = 0
  BY <1>2 DEF Sample!Contents, Sample!Nowhere
<1>3. CASE m_mt.pbFormat # 0
  <2>1. data'[m_pMediaType'.pbFormat] = Sample!Contents(m_mt)
    BY <1>1, <1>3, OwnedBlocks, CopiedIs
  <2> QED BY <1>3, <2>1 DEF Sample!Contents, Sample!Nowhere
<1> QED BY <1>2, <1>3

LEMMA SetMediaTypeKeeps ==
    ASSUME SampleInv, NEW some \in BOOLEAN, NEW fails \in BOOLEAN, Sample!SetMediaType(some, fails)
    PROVE  SampleInv'
<1> DEFINE memory == Sample!Freed(m_pMediaType, blocks)
<1>1. /\ MemoryTyped /\ OwnersInv /\ TypeFlagInv /\ TimesInv
      /\ copy \in TypeRecords /\ m_pMediaType \in TypeRecords
      /\ m_mt \in TypeRecords /\ data \in [Blocks -> Formats \cup { Sample!Nothing }]
  BY DEF SampleInv, MemoryTyped
<1>2. /\ m_pMediaType' = (IF some /\ ~fails THEN Sample!Created(m_mt, memory) ELSE Sample!None)
      /\ blocks' = memory \cup Sample!Owned(m_pMediaType')
      /\ refs' = refs - Sample!Held(m_pMediaType) + Sample!Held(m_pMediaType')
      /\ Sample!Copied(m_pMediaType', m_mt)
      /\ m_dwFlags' = (IF m_pMediaType'.is THEN m_dwFlags \cup {"Type"} ELSE m_dwFlags \ {"Type"})
      /\ intended' = (IF m_pMediaType'.is THEN << Sample!Contents(m_mt) >> ELSE Sample!Nothing)
      /\ inUse /\ UNCHANGED << m_mt, copy, failed, inUse, set, declared >>
  BY DEF Sample!SetMediaType
<1>3. /\ memory = Sample!Owned(m_mt) \cup Sample!Owned(copy) /\ memory \in SUBSET Blocks
  BY <1>1, OwnedBlocks DEF OwnersInv, Sample!Freed
<1>4. /\ m_pMediaType' \in TypeRecords
      /\ m_pMediaType'.is \/ m_pMediaType' = Sample!None
      /\ Sample!Owned(m_pMediaType') \cap memory = {}
      /\ m_pMediaType'.is => (m_pMediaType'.pbFormat = 0 <=> m_mt.pbFormat = 0)
  <2> HIDE DEF memory
  <2>1. CASE some /\ ~fails
    BY <1>1, <1>2, <1>3, <2>1, CreatedIs
  <2>2. CASE ~(some /\ ~fails)
    BY <1>2, <2>2, NoneOwnsNothing
  <2> QED BY <2>1, <2>2
<1>5. /\ blocks' = (Sample!Owned(m_mt) \cup Sample!Owned(copy)) \cup Sample!Owned(m_pMediaType')
      /\ Sample!Owned(m_pMediaType') \cap Sample!Owned(m_mt) = {}
      /\ Sample!Owned(m_pMediaType') \cap Sample!Owned(copy) = {}
  <2> HIDE DEF memory
  <2> QED BY <1>2, <1>3, <1>4
<1>6. data' \in [Blocks -> Formats \cup { Sample!Nothing }]
  BY <1>1, <1>2, <1>4, CopiedIs
<1>7. m_pMediaType'.is => Sample!Contents(m_pMediaType)' = Sample!Contents(m_mt)
  BY <1>1, <1>2, <1>4, <1>5, NewContents
<1>8. TypeFlagInv'
  BY <1>1, <1>2, <1>7 DEF TypeFlagInv, Sample!Nothing
<1>9. TimesInv'
  BY <1>1, <1>2 DEF TimesInv
<1> QED BY <1>2, <1>4, <1>5, <1>6, <1>8, <1>9, SampleTypeChanges

\* A flag of a time says so only after the time was set, or declares an end that nobody gave.
LEMMA SetPropertiesKeeps ==
    ASSUME SampleInv, NEW flags \in SUBSET {"Time", "Stop", "Type"},
           NEW upto \in {"flags", "times", "type"}, Sample!SetProperties(flags, upto)
    PROVE  SampleInv'
<1>1. /\ MemoryTyped /\ OwnersInv /\ TypeFlagInv /\ TimesInv
      /\ copy \in TypeRecords /\ m_pMediaType \in TypeRecords
      /\ m_mt \in TypeRecords /\ data \in [Blocks -> Formats \cup { Sample!Nothing }]
  BY DEF SampleInv, MemoryTyped
<1>2. /\ inUse /\ UNCHANGED << m_mt, copy, failed, inUse >>
      /\ m_dwFlags' = Sample!Corrected(flags \cup (m_dwFlags \cap {"MediaTime"}), m_pMediaType')
      /\ set' = (IF upto = "flags" THEN set ELSE {"start", "stop"})
      /\ Sample!Provided(flags, upto)
  BY DEF Sample!SetProperties
<1>3. TimesInv'
  <2>0. upto = "flags" /\ (declared \/ "Stop" \in flags \ m_dwFlags) => declared'
    BY Zenon DEF Sample!SetProperties
  <2>1. /\ "Time" \in m_dwFlags' => "Time" \in flags
        /\ "Stop" \in m_dwFlags' => "Stop" \in flags
    BY <1>2 DEF Sample!Corrected
  <2>2. CASE upto = "flags"
    BY <1>1, <1>2, <2>0, <2>1, <2>2 DEF TimesInv, Sample!Provided
  <2>3. CASE upto # "flags"
    BY <1>2, <2>3 DEF TimesInv
  <2> QED BY <2>2, <2>3
<1>4. ("Type" \in m_dwFlags') <=> m_pMediaType'.is
  BY <1>2 DEF Sample!Corrected
<1>5. CASE ~(upto = "type" /\ "Type" \in flags)
  <2>1. UNCHANGED << m_pMediaType, blocks, refs, data, intended >>
    BY <1>5 DEF Sample!SetProperties
  <2>2. TypeFlagInv'
    BY <1>1, <1>2, <1>4, <2>1 DEF TypeFlagInv, Sample!Contents, Sample!Nothing, Sample!Nowhere
  <2>3. MemoryTyped'
    BY <1>1, <1>2, <2>1 DEF MemoryTyped, Sample!None, Sample!Nowhere, Sample!Nothing
  <2>4. OwnersInv'
    BY <1>1, <1>2, <2>1 DEF OwnersInv, Sample!Owned, Sample!Held
  <2> QED BY <1>3, <2>2, <2>3, <2>4 DEF SampleInv
<1>6. CASE upto = "type" /\ "Type" \in flags
  <2>1. /\ m_pMediaType' = Sample!Created(m_mt, blocks) /\ m_pMediaType'.is
        /\ blocks' = (blocks \cup Sample!Owned(m_pMediaType')) \ Sample!Owned(m_pMediaType)
        /\ refs' = refs - Sample!Held(m_pMediaType) + Sample!Held(m_pMediaType')
        /\ Sample!Copied(m_pMediaType', m_mt) /\ intended' = << Sample!Contents(m_mt) >>
    BY <1>6 DEF Sample!SetProperties, Sample!Freed
  <2>2. blocks \in SUBSET Blocks
    BY <1>1, OwnedBlocks DEF OwnersInv
  <2>3. /\ m_pMediaType' \in TypeRecords
        /\ Sample!Owned(m_pMediaType') \cap blocks = {}
        /\ m_pMediaType'.pbFormat = 0 <=> m_mt.pbFormat = 0
    BY <1>1, <2>1, <2>2, CreatedIs
  <2>4. /\ blocks' = (Sample!Owned(m_mt) \cup Sample!Owned(copy)) \cup Sample!Owned(m_pMediaType')
        /\ Sample!Owned(m_pMediaType') \cap Sample!Owned(m_mt) = {}
        /\ Sample!Owned(m_pMediaType') \cap Sample!Owned(copy) = {}
    BY <1>1, <2>1, <2>3 DEF OwnersInv
  <2>5. data' \in [Blocks -> Formats \cup { Sample!Nothing }]
    BY <1>1, <2>1, <2>3, CopiedIs
  <2>6. Sample!Contents(m_pMediaType)' = Sample!Contents(m_mt)
    BY <1>1, <2>1, <2>3, <2>4, NewContents
  <2>7. TypeFlagInv'
    BY <1>1, <1>2, <1>4, <2>1, <2>6 DEF TypeFlagInv
  <2> QED BY <1>2, <1>3, <2>1, <2>3, <2>4, <2>5, <2>7, SampleTypeChanges
<1> QED BY <1>5, <1>6

LEMMA NextKeepsSample == ASSUME SampleInv, Sample!Next PROVE SampleInv'
<1>1. ASSUME NEW f \in Formats, Sample!SetFormat(f) PROVE SampleInv'
  BY <1>1, SetFormatKeeps
<1>2. CASE Sample!ResetFormatBuffer \/ Sample!SetInterface \/ Sample!Set
  BY <1>2, ClientOperationsKeep, SetKeeps
<1>3. CASE Sample!DeleteCopy \/ Sample!GetMediaType
  BY <1>3, CopyOperationsKeep
<1>4. CASE Sample!GetBuffer \/ Sample!SetTime \/ \E b \in BOOLEAN : Sample!SetMediaTime(b)
  BY <1>4, FlagOperationsKeep
<1>5. CASE Sample!Release
  BY <1>5, ReleaseKeeps
<1>6. ASSUME NEW some \in BOOLEAN, NEW fails \in BOOLEAN, Sample!SetMediaType(some, fails) PROVE SampleInv'
  BY <1>6, SetMediaTypeKeeps
<1>7. ASSUME NEW flags \in SUBSET {"Time", "Stop", "Type"}, NEW upto \in {"flags", "times", "type"},
             Sample!SetProperties(flags, upto)
      PROVE  SampleInv'
  BY <1>7, SetPropertiesKeeps
<1> QED BY <1>1, <1>2, <1>3, <1>4, <1>5, <1>6, <1>7 DEF Sample!Next

LEMMA SameTruth == ASSUME NEW S, NEW x, NEW b \in BOOLEAN, x \in S <=> b PROVE (x \in S) = b
<1>1. CASE b = TRUE
  BY <1>1
<1>2. CASE b = FALSE
  BY <1>2
<1> QED BY <1>1, <1>2

LEMMA SampleInvSound == SampleInv => Sample!MemorySound /\ Sample!TimesAreThisLifes
<1> SUFFICES ASSUME SampleInv PROVE Sample!MemorySound /\ Sample!TimesAreThisLifes
  OBVIOUS
<1> USE DEF SampleInv
<1>1. /\ Sample!Types[1] = m_mt /\ Sample!Types[2] = copy /\ Sample!Types[3] = m_pMediaType
  BY DEF Sample!Types
<1>2. blocks = UNION { Sample!Owned(Sample!Types[k]) : k \in 1..3 }
  <2>1. 1..3 = {1, 2, 3}
    OBVIOUS
  <2> QED BY <1>1, <2>1 DEF OwnersInv
<1>3. \A j, k \in 1..3 : j # k => Sample!Owned(Sample!Types[j]) \cap Sample!Owned(Sample!Types[k]) = {}
  <2>1. 1..3 = {1, 2, 3}
    OBVIOUS
  <2> QED BY <1>1, <2>1 DEF OwnersInv
<1>4. Sample!MemorySound
  <2>1. ("Type" \in m_dwFlags) = m_pMediaType.is
    <3>0. m_pMediaType \in TypeRecords
      BY DEF MemoryTyped
    <3>1. m_pMediaType.is \in BOOLEAN
      BY <3>0, HasOrHasNot
    <3>2. "Type" \in m_dwFlags <=> m_pMediaType.is
      BY DEF TypeFlagInv
    <3> QED BY <3>1, <3>2, SameTruth
  <2> QED BY <1>2, <1>3, <2>1, Zenon DEF Sample!MemorySound, OwnersInv, TypeFlagInv
<1>5. Sample!TimesAreThisLifes
  BY DEF Sample!TimesAreThisLifes, Sample!GetTime, TimesInv
<1> QED BY <1>4, <1>5

-----------------------------------------------------------------------------
(* Registering the library. *)

Programs == {"screencam", "mapper2", "mapper1", "objects"}
Stages == {"idle", "servers", "mapper", "object", "unmap", "map", "clear"}

\* The keys of the two classes, and the filter's entry with the mapper.
FilterKey == key["ScreenCam"]
PageKey   == key["Settings"]
Entry     == entry["ScreenCam"]

RegistryTyped ==
    /\ impl \in Programs /\ stage \in Stages /\ i \in {1, 2} /\ undisturbed \in BOOLEAN
    /\ key \in [{"ScreenCam", "Settings"} -> 0..5] /\ entry \in [{"ScreenCam"} -> 0..2]

\* The filter is with the mapper only while its server can be created.
ServedInv ==
    Entry > 0 => /\ impl # "screencam" => FilterKey >= 4
                 /\ impl # "objects" => PageKey >= 4

\* The results of a call, in the state that it leaves.
TrueOf(o, ok, calm) ==
    /\ o = "register" =>
         /\ calm => ok /\ FilterKey = 5 /\ PageKey = 5 /\ Entry = 2
         /\ ok /\ impl \in {"mapper1", "mapper2"} => FilterKey = 5 /\ PageKey = 5 /\ Entry = 2
         /\ ok => PageKey = 5
    /\ o = "unregister" =>
         /\ ok /\ calm => FilterKey = 0 /\ PageKey = 0 /\ Entry = 0
         /\ ok => Entry = 0
         /\ calm /\ impl \in {"mapper1", "mapper2"} => ok

LastInv == stage = "idle" => TrueOf(last.op, last.ok, last.undisturbed)

\* What a call has done when it is at a place.  ScreenCam loses the result of all servers but
\* the last, so only a call that was not disturbed knows of the others.
ServersDone == /\ PageKey = 5
               /\ impl # "screencam" \/ undisturbed => FilterKey = 5

RegisterInv ==
    op = "register" =>
      /\ stage \notin {"clear"}
      /\ stage = "servers" /\ i = 2 => /\ impl # "screencam" \/ undisturbed => FilterKey = 5
                                       /\ impl = "objects" /\ undisturbed => Entry = 2
      /\ stage = "mapper" => impl # "objects" /\ ServersDone
      /\ stage = "object" => /\ impl = "objects" /\ FilterKey = 5
                             /\ i = 2 => PageKey = 5 /\ (undisturbed => Entry = 2)
      /\ stage = "unmap" => IF impl = "objects" THEN i = 1 /\ FilterKey = 5
                            ELSE ServersDone /\ (i = 2 => Entry = 2)
      /\ stage = "map" => /\ i = 1 /\ impl # "screencam" /\ FilterKey = 5
                          /\ impl # "objects" => PageKey = 5

UnregisterInv ==
    op = "unregister" =>
      /\ stage \notin {"servers", "map"}
      /\ stage = "mapper" => impl # "objects"
      /\ stage = "object" => impl = "objects" /\ (i = 1 /\ undisturbed => PageKey = 0)
      /\ stage = "unmap" => IF impl = "objects" THEN i = 1 /\ (undisturbed => PageKey = 0)
                            ELSE i = 2 => Entry = 0
      /\ stage = "clear" => IF impl = "objects" THEN i = 1 => Entry = 0 /\ (undisturbed => PageKey = 0)
                            ELSE Entry = 0 /\ (i = 2 /\ undisturbed => FilterKey = 0)

CallInv ==
    /\ stage = "idle" <=> op = "none"
    /\ op \in {"none", "register", "unregister"}
    /\ stage \in {"idle", "mapper"} => i = 1

RegistryInv == RegistryTyped /\ ServedInv /\ LastInv /\ CallInv /\ RegisterInv /\ UnregisterInv

LEMMA TemplatesAre ==
    /\ Registry!N = 2 /\ Registry!Classes = {"ScreenCam", "Settings"}
    /\ i = 1 => Registry!Class = "ScreenCam" /\ Registry!OfFilter
    /\ i = 2 => Registry!Class = "Settings" /\ ~Registry!OfFilter
<1>1. Registry!N = 2
  BY DEF Registry!N, Registry!g_Templates
<1>2. Registry!Classes = {"ScreenCam", "Settings"}
  <2>1. 1..2 = {1, 2}
    OBVIOUS
  <2> QED BY <1>1, <2>1 DEF Registry!Classes, Registry!g_Templates
<1>3. /\ i = 1 => Registry!Class = "ScreenCam" /\ Registry!OfFilter
      /\ i = 2 => Registry!Class = "Settings" /\ ~Registry!OfFilter
  BY DEF Registry!Class, Registry!OfFilter, Registry!Filters, Registry!g_Templates
<1> QED BY <1>1, <1>2, <1>3

LEMMA RegistryInit == Registry!Init => RegistryInv
<1> SUFFICES ASSUME Registry!Init PROVE RegistryInv
  OBVIOUS
<1> USE DEF Registry!Init
<1>1. impl \in Programs
  <2>1. Registry!RegistrationAssumption
    BY ToolboxAssumption DEF ToolboxAssumption
  <2> QED BY <2>1 DEF Registry!RegistrationAssumption, Programs
<1>2. /\ key = [c \in {"ScreenCam", "Settings"} |-> 0] /\ entry = [f \in {"ScreenCam"} |-> 0]
      /\ stage = "idle" /\ i = 1 /\ op = "none" /\ last.op = "none"
  BY TemplatesAre DEF Registry!Filters, Registry!None, Registry!NoCall
<1>3. undisturbed \in BOOLEAN
  BY Zenon
<1>4. RegistryTyped
  BY <1>1, <1>2, <1>3 DEF RegistryTyped, Stages
<1>5. ServedInv /\ LastInv /\ CallInv /\ RegisterInv /\ UnregisterInv
  BY <1>2 DEF ServedInv, LastInv, TrueOf, CallInv, RegisterInv, UnregisterInv, FilterKey, PageKey, Entry
<1> QED BY <1>4, <1>5 DEF RegistryInv

LEMMA RegistryInvSound == RegistryInv => Registry!RegistrySound
<1> SUFFICES ASSUME RegistryInv PROVE Registry!RegistrySound
  OBVIOUS
<1> USE DEF RegistryInv
<1>1. /\ \A c \in Registry!Classes : c \in {"ScreenCam", "Settings"}
      /\ Registry!Filters = {"ScreenCam"} /\ Registry!g_Templates[Registry!N] = "Settings"
      /\ Registry!Whole = 5
  BY TemplatesAre DEF Registry!Filters, Registry!g_Templates, Registry!Whole
<1>2. Registry!Registered <=> FilterKey = 5 /\ PageKey = 5 /\ Entry = 2
  BY <1>1, TemplatesAre DEF Registry!Registered, FilterKey, PageKey, Entry
<1>3. Registry!Unregistered <=> FilterKey = 0 /\ PageKey = 0 /\ Entry = 0
  BY <1>1, TemplatesAre DEF Registry!Unregistered, FilterKey, PageKey, Entry
<1>4. ASSUME NEW f \in Registry!Filters, entry[f] > 0, NEW c \in Registry!Needed(f)
      PROVE  Registry!Creatable(c)
  <2>1. f = "ScreenCam" /\ Entry > 0 /\ impl \in Programs
    BY <1>1, <1>4 DEF Entry, RegistryTyped
  <2>2. /\ impl = "objects" => c = "ScreenCam"
        /\ impl = "screencam" => c = "Settings"
        /\ c \in {"ScreenCam", "Settings"}
    BY <1>1, <1>4, <2>1, TemplatesAre DEF Registry!Needed
  <2> QED BY <2>1, <2>2 DEF ServedInv, Registry!Creatable, FilterKey, PageKey
<1>5. stage = "idle" /\ last.op = "register" =>
         /\ last.undisturbed => last.ok /\ Registry!Registered
         /\ last.ok /\ impl \in {"mapper1", "mapper2"} => Registry!Registered
         /\ last.ok => key[Registry!g_Templates[Registry!N]] = Registry!Whole
  BY <1>1, <1>2 DEF LastInv, TrueOf, PageKey
<1>6. stage = "idle" /\ last.op = "unregister" =>
         /\ last.ok /\ last.undisturbed => Registry!Unregistered
         /\ last.ok => \A f \in Registry!Filters : entry[f] = 0
         /\ last.undisturbed /\ impl \in {"mapper1", "mapper2"} => last.ok
  BY <1>1, <1>3 DEF LastInv, TrueOf, Entry
<1> QED BY <1>4, <1>5, <1>6 DEF Registry!RegistrySound

-----------------------------------------------------------------------------
(* Its steps: the call returns, goes on, or is broken off. *)

LEMMA ReturnKeeps ==
    ASSUME RegistryInv, RegistryTyped', ServedInv', NEW o, o = op, NEW ok \in BOOLEAN, NEW calm \in BOOLEAN,
           Registry!Return(ok, calm), TrueOf(o, ok, calm)'
    PROVE  RegistryInv'
<1>1. /\ stage' = "idle" /\ i' = 1 /\ op' = "none"
      /\ last' = [op |-> o, ok |-> ok, undisturbed |-> calm]
  BY DEF Registry!Return, Registry!None
<1>2. last'.op = o /\ last'.ok = ok /\ last'.undisturbed = calm
  BY <1>1
<1>3. LastInv'
  BY <1>2 DEF LastInv, TrueOf
<1>4. CallInv' /\ RegisterInv' /\ UnregisterInv'
  BY <1>1 DEF CallInv, RegisterInv, UnregisterInv
<1> QED BY <1>3, <1>4 DEF RegistryInv

LEMMA GotoKeeps ==
    ASSUME RegistryInv, RegistryTyped', ServedInv', NEW s \in Stages, NEW n \in {1, 2},
           s # "idle", stage # "idle", s = "mapper" => n = 1,
           Registry!Goto(s, n), RegisterInv', UnregisterInv'
    PROVE  RegistryInv'
<1>1. stage' = s /\ i' = n /\ op' = op /\ op # "none"
  BY DEF Registry!Goto, RegistryInv, CallInv
<1>2. LastInv' /\ CallInv'
  BY <1>1 DEF LastInv, CallInv, RegistryInv
<1> QED BY <1>2 DEF RegistryInv

LEMMA BrokenKeeps ==
    ASSUME RegistryInv, RegistryTyped', ServedInv', Registry!Broken
    PROVE  RegistryInv'
<1>1. stage' = "idle" /\ i' = 1 /\ op' = "none" /\ last'.op = "none"
  BY DEF Registry!Broken, Registry!None, Registry!NoCall
<1>2. LastInv' /\ CallInv' /\ RegisterInv' /\ UnregisterInv'
  BY <1>1 DEF LastInv, TrueOf, CallInv, RegisterInv, UnregisterInv
<1> QED BY <1>2 DEF RegistryInv

LEMMA CallKeeps ==
    ASSUME RegistryInv, NEW o \in {"register", "unregister"}, Registry!Call(o)
    PROVE  RegistryInv'
<1>1. /\ op' = o /\ undisturbed' = TRUE /\ UNCHANGED << impl, key, entry, last >>
      /\ i' = (IF impl = "objects" /\ o = "unregister" THEN 2 ELSE 1)
      /\ impl = "objects" /\ o = "unregister" => stage' = "object"
      /\ o = "register" => stage' = "servers"
      /\ impl # "objects" /\ o = "unregister" => stage' = "mapper"
  BY TemplatesAre DEF Registry!Call
<1>2. undisturbed' \in BOOLEAN
  BY <1>1, Zenon
<1>3. stage' \in {"object", "servers", "mapper"}
  BY <1>1
<1>4. RegistryTyped'
  BY <1>1, <1>2, <1>3 DEF RegistryInv, RegistryTyped, Stages
<1>5. ServedInv' /\ LastInv'
  BY <1>1, <1>3 DEF RegistryInv, ServedInv, LastInv, FilterKey, PageKey, Entry
<1>6. CallInv' /\ RegisterInv' /\ UnregisterInv'
  BY <1>1, <1>3 DEF CallInv, RegisterInv, UnregisterInv, FilterKey, PageKey, Entry
<1> QED BY <1>4, <1>5, <1>6 DEF RegistryInv

\* The keys only rise while servers are registered, and all of a class are there at the end.
LEMMA RegisterServersKeep ==
    ASSUME RegistryInv, Registry!RegisterServers
    PROVE  RegistryInv'
<1>1. PICK n \in 0..5 :
        /\ key' = [key EXCEPT ![Registry!Class] = IF key[Registry!Class] > n THEN key[Registry!Class] ELSE n]
        /\ undisturbed' = (undisturbed /\ n = 5)
        /\ CASE impl = "objects" /\ n = 5 -> Registry!Goto("object", i)
             [] impl # "objects" /\ (n = 5 \/ (impl = "screencam" /\ i < 2)) ->
                  Registry!NextTemplate("servers", Registry!Goto("mapper", 1))
             [] OTHER -> Registry!Return(FALSE, FALSE)
  BY TemplatesAre DEF Registry!RegisterServers, Registry!RegisterServer, Registry!Whole
<1>2. /\ stage = "servers" /\ UNCHANGED << impl, entry >> /\ op = "register"
      /\ RegistryTyped /\ ServedInv /\ RegisterInv
  BY DEF Registry!RegisterServers, Registry!NextTemplate, Registry!Goto, Registry!Return, RegistryInv,
         CallInv, UnregisterInv
<1>3. /\ FilterKey \in 0..5 /\ PageKey \in 0..5 /\ i \in {1, 2}
      /\ i = 1 => FilterKey' = (IF FilterKey > n THEN FilterKey ELSE n) /\ PageKey' = PageKey
      /\ i = 2 => PageKey' = (IF PageKey > n THEN PageKey ELSE n) /\ FilterKey' = FilterKey
      /\ Entry' = Entry
  BY <1>1, <1>2, TemplatesAre DEF RegistryTyped, FilterKey, PageKey, Entry
<1>4. /\ FilterKey' \in 0..5 /\ FilterKey' >= FilterKey
      /\ PageKey' \in 0..5 /\ PageKey' >= PageKey
      /\ i = 1 /\ n = 5 => FilterKey' = 5
      /\ i = 2 /\ n = 5 => PageKey' = 5
      /\ FilterKey = 5 => FilterKey' = 5
  BY <1>3
<1>5. ServedInv'
  BY <1>2, <1>3, <1>4 DEF ServedInv
<1>6. undisturbed' \in BOOLEAN
  BY <1>1, Zenon
<1>7. key' \in [{"ScreenCam", "Settings"} -> 0..5]
  BY <1>1, <1>2, TemplatesAre DEF RegistryTyped
<1>8. ASSUME NEW s \in Stages, NEW m \in {1, 2}, stage' = s, i' = m PROVE RegistryTyped'
  BY <1>2, <1>6, <1>7, <1>8 DEF RegistryTyped
<1>9. CASE impl = "objects" /\ n = 5
  <2>1. Registry!Goto("object", i)
    BY <1>1, <1>9
  <2>2. stage' = "object" /\ i' = i /\ op' = op /\ i \in {1, 2}
    BY <1>2, <2>1 DEF Registry!Goto, RegistryTyped
  <2>3. RegistryTyped'
    BY <1>8, <2>2 DEF Stages
  <2>4. RegisterInv' /\ UnregisterInv'
    BY <1>1, <1>2, <1>3, <1>4, <1>9, <2>2 DEF RegisterInv, UnregisterInv
  <2> QED BY <1>2, <1>5, <2>1, <2>2, <2>3, <2>4, GotoKeeps DEF Stages
<1>10. CASE impl # "objects" /\ (n = 5 \/ (impl = "screencam" /\ i < 2))
  <2>1. Registry!NextTemplate("servers", Registry!Goto("mapper", 1))
    BY <1>1, <1>10
  <2>2. i = 1 => Registry!Goto("servers", 2)
    BY <2>1, TemplatesAre DEF Registry!NextTemplate
  <2>3. i = 2 => Registry!Goto("mapper", 1)
    BY <2>1, TemplatesAre DEF Registry!NextTemplate
  <2>4. CASE i = 1
    <3>1. stage' = "servers" /\ i' = 2 /\ op' = op
      BY <2>2, <2>4 DEF Registry!Goto
    <3>2. RegistryTyped'
      BY <1>8, <3>1 DEF Stages
    <3>3. RegisterInv' /\ UnregisterInv'
      BY <1>1, <1>2, <1>3, <1>4, <1>10, <2>4, <3>1 DEF RegisterInv, UnregisterInv, RegistryTyped
    <3> QED BY <1>2, <1>5, <2>2, <2>4, <3>2, <3>3, GotoKeeps DEF Stages
  <2>5. CASE i = 2
    <3>1. stage' = "mapper" /\ i' = 1 /\ op' = op
      BY <2>3, <2>5 DEF Registry!Goto
    <3>2. RegistryTyped'
      BY <1>8, <3>1 DEF Stages
    <3>3. n = 5
      BY <1>10, <2>5
    <3>4. RegisterInv' /\ UnregisterInv'
      BY <1>1, <1>2, <1>3, <1>4, <1>10, <2>5, <3>1, <3>3 DEF RegisterInv, UnregisterInv, ServersDone
    <3> QED BY <1>2, <1>5, <2>3, <2>5, <3>2, <3>4, GotoKeeps DEF Stages
  <2> QED BY <1>2, <2>4, <2>5 DEF RegistryTyped
<1>11. CASE /\ ~(impl = "objects" /\ n = 5)
            /\ ~(impl # "objects" /\ (n = 5 \/ (impl = "screencam" /\ i < 2)))
  <2>1. Registry!Return(FALSE, FALSE)
    BY <1>1, <1>11
  <2>2. RegistryTyped'
    BY <1>8, <2>1 DEF Stages, Registry!Return
  <2>3. ASSUME NEW o, o = op PROVE TrueOf(o, FALSE, FALSE)'
    BY <1>2, <2>3 DEF TrueOf
  <2> QED BY <1>5, <2>1, <2>2, <2>3, ReturnKeeps
<1> QED BY <1>9, <1>10, <1>11

LEMMA CreateMapperKeeps ==
    ASSUME RegistryInv, Registry!CreateMapper
    PROVE  RegistryInv'
<1>1. /\ stage = "mapper" /\ UNCHANGED << impl, key, entry, undisturbed >> /\ i = 1
      /\ RegistryTyped /\ ServedInv /\ RegisterInv /\ UnregisterInv /\ op \in {"register", "unregister"}
  BY DEF Registry!CreateMapper, Registry!Goto, Registry!Return, RegistryInv, CallInv
<1>2. ServedInv'
  BY <1>1 DEF ServedInv, FilterKey, PageKey, Entry
<1>3. CASE Registry!Goto("unmap", 1)
  <2>1. stage' = "unmap" /\ i' = 1 /\ op' = op
    BY <1>3 DEF Registry!Goto
  <2>2. RegistryTyped'
    BY <1>1, <2>1, Zenon DEF RegistryTyped, Stages
  <2>3. RegisterInv' /\ UnregisterInv'
    BY <1>1, <2>1 DEF RegisterInv, UnregisterInv, ServersDone, FilterKey, PageKey, Entry
  <2> QED BY <1>1, <1>2, <1>3, <2>2, <2>3, GotoKeeps DEF Stages
<1>4. CASE Registry!Return(FALSE, FALSE)
  <2>1. RegistryTyped'
    BY <1>1, <1>4 DEF RegistryTyped, Stages, Registry!Return
  <2>2. ASSUME NEW o, o = op PROVE TrueOf(o, FALSE, FALSE)'
    BY <1>1 DEF TrueOf
  <2> QED BY <1>2, <1>4, <2>1, <2>2, ReturnKeeps
<1> QED BY <1>3, <1>4 DEF Registry!CreateMapper

\* The keys of a class are removed, as far as they may be.
LEMMA UnregisterServersKeep ==
    ASSUME RegistryInv, Registry!UnregisterServers
    PROVE  RegistryInv'
<1>1. PICK n \in Registry!Remains(Registry!Class) :
        /\ key' = [key EXCEPT ![Registry!Class] = n]
        /\ undisturbed' = (undisturbed /\ n = 0)
        /\ IF impl = "objects"
           THEN IF i > 1 THEN Registry!Goto("object", i - 1) ELSE Registry!Return(TRUE, undisturbed')
           ELSE Registry!NextTemplate("clear", Registry!Return(TRUE, undisturbed'))
  BY DEF Registry!UnregisterServers
<1>2. /\ stage = "clear" /\ UNCHANGED << impl, entry >> /\ op = "unregister"
      /\ RegistryTyped /\ ServedInv /\ UnregisterInv /\ i \in {1, 2}
  BY DEF Registry!UnregisterServers, Registry!NextTemplate, Registry!Goto, Registry!Return, RegistryInv,
         CallInv, RegisterInv, RegistryTyped
<1>3. n \in 0..5
  <2>1. key[Registry!Class] \in 0..5
    BY <1>2, TemplatesAre DEF RegistryTyped
  <2> QED BY <2>1 DEF Registry!Remains
<1>4. /\ i = 1 => FilterKey' = n /\ PageKey' = PageKey
      /\ i = 2 => PageKey' = n /\ FilterKey' = FilterKey
      /\ Entry' = Entry
  BY <1>1, <1>2, TemplatesAre DEF RegistryTyped, FilterKey, PageKey, Entry
<1>5. undisturbed' \in BOOLEAN
  BY <1>1, Zenon
<1>6. key' \in [{"ScreenCam", "Settings"} -> 0..5]
  BY <1>1, <1>2, <1>3, TemplatesAre DEF RegistryTyped
<1>7. ASSUME NEW s \in Stages, NEW m \in {1, 2}, stage' = s, i' = m PROVE RegistryTyped'
  BY <1>2, <1>5, <1>6, <1>7 DEF RegistryTyped
<1>8. ServedInv'
  BY <1>2, <1>4 DEF ServedInv, UnregisterInv
<1>9. undisturbed' => undisturbed /\ n = 0
  BY <1>1
<1>10. CASE impl = "objects" /\ i = 2
  <2>1. Registry!Goto("object", 1)
    BY <1>1, <1>10
  <2>2. stage' = "object" /\ i' = 1 /\ op' = op
    BY <2>1 DEF Registry!Goto
  <2>3. RegistryTyped'
    BY <1>7, <2>2 DEF Stages
  <2>4. RegisterInv' /\ UnregisterInv'
    BY <1>2, <1>4, <1>9, <1>10, <2>2 DEF RegisterInv, UnregisterInv
  <2> QED BY <1>2, <1>8, <2>1, <2>3, <2>4, GotoKeeps DEF Stages
<1>11. CASE impl # "objects" /\ i = 1
  <2>1. Registry!Goto("clear", 2)
    BY <1>1, <1>11, TemplatesAre DEF Registry!NextTemplate
  <2>2. stage' = "clear" /\ i' = 2 /\ op' = op
    BY <2>1 DEF Registry!Goto
  <2>3. RegistryTyped'
    BY <1>7, <2>2 DEF Stages
  <2>4. RegisterInv' /\ UnregisterInv'
    BY <1>2, <1>4, <1>9, <1>11, <2>2 DEF RegisterInv, UnregisterInv
  <2> QED BY <1>2, <1>8, <2>1, <2>3, <2>4, GotoKeeps DEF Stages
<1>12. CASE (impl = "objects" /\ i = 1) \/ (impl # "objects" /\ i = 2)
  <2>1. PICK calm \in BOOLEAN : calm = undisturbed'
    BY <1>5
  <2>2. Registry!Return(TRUE, undisturbed')
    <3>1. CASE impl = "objects" /\ i = 1
      <4>1. ~(i > 1)
        BY <3>1
      <4> QED BY <1>1, <3>1, <4>1, Zenon
    <3>2. CASE impl # "objects" /\ i = 2
      <4>1. ~(i < Registry!N)
        BY <3>2, TemplatesAre
      <4>2. Registry!NextTemplate("clear", Registry!Return(TRUE, undisturbed'))
        BY <1>1, <3>2, Zenon
      <4> QED BY <4>1, <4>2, Zenon DEF Registry!NextTemplate
    <3> QED BY <1>12, <3>1, <3>2
  <2>3. Registry!Return(TRUE, calm)
    BY <2>1, <2>2
  <2>4. RegistryTyped'
    BY <1>7, <2>3 DEF Stages, Registry!Return
  <2>5. ASSUME NEW o, o = op PROVE TrueOf(o, TRUE, calm)'
    <3>1. calm => undisturbed /\ n = 0
      BY <1>9, <2>1
    <3> QED BY <1>2, <1>4, <1>12, <2>5, <3>1 DEF TrueOf, UnregisterInv
  <2> QED BY <1>8, <2>3, <2>4, <2>5, ReturnKeeps
<1> QED BY <1>2, <1>10, <1>11, <1>12

-----------------------------------------------------------------------------
(* Its steps with the mapper. *)

\* What follows after the mapper was told of a filter.
LEMMA DoneIs ==
    ASSUME i \in {1, 2}, op \in {"register", "unregister"}, NEW ok \in BOOLEAN, NEW calm \in BOOLEAN,
           Registry!FilterDone(ok, calm)
    PROVE  /\ undisturbed' = calm
           /\ ~ok => Registry!Return(FALSE, calm)
           /\ ok /\ impl = "objects" /\ op = "register" =>
                /\ i = 1 => Registry!Goto("servers", 2)
                /\ i = 2 => Registry!Return(TRUE, calm)
           /\ ok /\ impl = "objects" /\ op = "unregister" => Registry!Goto("clear", i)
           /\ ok /\ impl # "objects" /\ i = 2 =>
                /\ op = "register" => Registry!Return(TRUE, calm)
                /\ op = "unregister" => Registry!Goto("clear", 1)
           /\ ok /\ impl # "objects" /\ i = 1 => Registry!Goto("unmap", 2)
<1> USE DEF Registry!FilterDone
<1>1. undisturbed' = calm
  OBVIOUS
<1>2. ~ok => Registry!Return(FALSE, calm)
  OBVIOUS
<1>3. ok /\ impl = "objects" /\ op = "register" =>
        Registry!NextTemplate("servers", Registry!Return(TRUE, calm))
  OBVIOUS
<1>4. ok /\ impl = "objects" /\ op = "unregister" => Registry!Goto("clear", i)
  OBVIOUS
<1>5. ok /\ impl # "objects" /\ i = 2 =>
                /\ op = "register" => Registry!Return(TRUE, calm)
                /\ op = "unregister" => Registry!Goto("clear", 1)
  BY TemplatesAre
<1>6. ok /\ impl # "objects" /\ i = 1 => Registry!Goto("unmap", 2)
  BY TemplatesAre
<1>7. Registry!NextTemplate("servers", Registry!Return(TRUE, calm)) =>
                /\ i = 1 => Registry!Goto("servers", 2)
                /\ i = 2 => Registry!Return(TRUE, calm)
  <2>1. CASE i = 1
    <3>1. i < Registry!N /\ i + 1 = 2 /\ i # 2
      BY <2>1, TemplatesAre
    <3> QED BY <3>1 DEF Registry!NextTemplate
  <2>2. CASE i = 2
    <3>1. ~(i < Registry!N) /\ i # 1
      BY <2>2, TemplatesAre
    <3> QED BY <3>1, Zenon DEF Registry!NextTemplate
  <2> QED BY <2>1, <2>2
<1> HIDE DEF Registry!FilterDone
<1> QED BY <1>1, <1>2, <1>3, <1>4, <1>5, <1>6, <1>7

\* It keeps the invariant, whatever led to it, when the state is as it must be for what follows.
LEMMA DoneKeeps ==
    ASSUME RegistryInv, ServedInv', UNCHANGED key, entry' \in [{"ScreenCam"} -> 0..2],
           stage # "idle", NEW ok \in BOOLEAN, NEW calm \in BOOLEAN, Registry!FilterDone(ok, calm),
           op = "register" =>
             /\ FilterKey = 5 \/ (impl = "screencam" /\ ~calm)
             /\ impl # "objects" \/ i = 2 => PageKey = 5
             /\ calm => ok /\ Entry' = 2
             /\ impl # "objects" /\ ok => Entry' = 2,
           op = "unregister" =>
             /\ ok /\ (impl # "objects" \/ i = 1) => Entry' = 0
             /\ ~ok /\ impl \in {"mapper1", "mapper2"} => ~calm
             /\ impl = "objects" /\ i = 1 /\ calm => PageKey = 0
    PROVE  RegistryInv'
<1>1. /\ RegistryTyped /\ op \in {"register", "unregister"} /\ i \in {1, 2}
  BY DEF RegistryInv, CallInv, RegistryTyped
<1>2. /\ undisturbed' = calm /\ UNCHANGED << impl, key >>
      /\ FilterKey' = FilterKey /\ PageKey' = PageKey
  BY <1>1, DoneIs DEF Registry!FilterDone, Registry!NextTemplate, Registry!Goto, Registry!Return,
     FilterKey, PageKey
<1>3. ASSUME NEW s \in Stages, NEW m \in {1, 2}, stage' = s, i' = m PROVE RegistryTyped'
  BY <1>1, <1>2, <1>3 DEF RegistryTyped
<1>4. ASSUME Registry!Return(ok, calm), ok => i = 2 /\ op = "register" PROVE RegistryInv'
  <2>1. RegistryTyped'
    BY <1>3, <1>4 DEF Stages, Registry!Return
  <2>2. ASSUME NEW o, o = op PROVE TrueOf(o, ok, calm)'
    BY <1>1, <1>2, <1>4, <2>2 DEF TrueOf, RegistryTyped, Programs
  <2> QED BY <1>4, <2>1, <2>2, ReturnKeeps
<1>5. CASE ~ok
  <2>1. Registry!Return(FALSE, calm) /\ ok = FALSE
    BY <1>1, <1>5, DoneIs
  <2> QED BY <1>4, <1>5, <2>1
<1>6. CASE ok /\ impl = "objects" /\ op = "register" /\ i = 1
  <2>1. Registry!Goto("servers", 2)
    BY <1>1, <1>6, DoneIs
  <2>2. stage' = "servers" /\ i' = 2 /\ op' = op
    BY <2>1 DEF Registry!Goto
  <2>3. RegistryTyped'
    BY <1>3, <2>2 DEF Stages
  <2>4. RegisterInv' /\ UnregisterInv'
    BY <1>2, <1>6, <2>2 DEF RegisterInv, UnregisterInv
  <2> QED BY <2>1, <2>3, <2>4, GotoKeeps DEF Stages
<1>7. CASE ok /\ i = 2 /\ op = "register"
  <2>1. Registry!Return(TRUE, calm) /\ ok = TRUE
    BY <1>1, <1>7, DoneIs
  <2> QED BY <1>4, <1>7, <2>1
<1>8. CASE ok /\ impl = "objects" /\ op = "unregister"
  <2>1. Registry!Goto("clear", i)
    BY <1>1, <1>8, DoneIs
  <2>2. stage' = "clear" /\ i' = i /\ op' = op
    BY <2>1 DEF Registry!Goto
  <2>3. RegistryTyped'
    BY <1>1, <1>3, <2>2 DEF Stages
  <2>4. RegisterInv' /\ UnregisterInv'
    BY <1>2, <1>8, <2>2 DEF RegisterInv, UnregisterInv
  <2> QED BY <1>1, <2>1, <2>3, <2>4, GotoKeeps DEF Stages
<1>9. CASE ok /\ impl # "objects" /\ i = 2 /\ op = "unregister"
  <2>1. Registry!Goto("clear", 1)
    BY <1>1, <1>9, DoneIs
  <2>2. stage' = "clear" /\ i' = 1 /\ op' = op
    BY <2>1 DEF Registry!Goto
  <2>3. RegistryTyped'
    BY <1>3, <2>2 DEF Stages
  <2>4. RegisterInv' /\ UnregisterInv'
    BY <1>2, <1>9, <2>2 DEF RegisterInv, UnregisterInv
  <2> QED BY <2>1, <2>3, <2>4, GotoKeeps DEF Stages
<1>10. CASE ok /\ impl # "objects" /\ i = 1
  <2>1. Registry!Goto("unmap", 2)
    BY <1>1, <1>10, DoneIs
  <2>2. stage' = "unmap" /\ i' = 2 /\ op' = op
    BY <2>1 DEF Registry!Goto
  <2>3. RegistryTyped'
    BY <1>3, <2>2 DEF Stages
  <2>4. RegisterInv' /\ UnregisterInv'
    BY <1>1, <1>2, <1>10, <2>2 DEF RegisterInv, UnregisterInv, ServersDone
  <2> QED BY <2>1, <2>3, <2>4, GotoKeeps DEF Stages
<1> QED BY <1>1, <1>5, <1>6, <1>7, <1>8, <1>9, <1>10

LEMMA CreateObjectKeeps ==
    ASSUME RegistryInv, Registry!CreateObject
    PROVE  RegistryInv'
<1>1. /\ stage = "object" /\ UNCHANGED << impl, key, entry >> /\ impl = "objects"
      /\ RegistryTyped /\ ServedInv /\ RegisterInv /\ UnregisterInv
      /\ op \in {"register", "unregister"} /\ i \in {1, 2}
  BY DEF Registry!CreateObject, Registry!FilterDone, Registry!NextTemplate, Registry!Goto, Registry!Return,
     RegistryInv, CallInv, RegistryTyped, RegisterInv, UnregisterInv
<1>2. ServedInv'
  BY <1>1 DEF ServedInv, FilterKey, PageKey, Entry
<1>3. /\ i = 1 => (Registry!Creatable(Registry!Class) <=> FilterKey >= 4)
      /\ i = 2 => (Registry!Creatable(Registry!Class) <=> PageKey >= 4)
  BY TemplatesAre DEF Registry!Creatable, FilterKey, PageKey
<1>4. CASE ~Registry!Creatable(Registry!Class) /\ Registry!Return(FALSE, undisturbed) /\ UNCHANGED undisturbed
  <2>1. op = "unregister"
    BY <1>1, <1>3, <1>4 DEF RegisterInv
  <2>2. RegistryTyped'
    BY <1>1, <1>4, Zenon DEF RegistryTyped, Stages, Registry!Return
  <2>3. PICK calm \in BOOLEAN : calm = undisturbed
    BY <1>1 DEF RegistryTyped
  <2>4. ASSUME NEW o, o = op PROVE TrueOf(o, FALSE, calm)'
    BY <1>1, <2>1, <2>4 DEF TrueOf
  <2>5. Registry!Return(FALSE, calm)
    BY <1>4, <2>3
  <2> QED BY <1>2, <2>2, <2>4, <2>5, ReturnKeeps
<1>5. CASE /\ Registry!Creatable(Registry!Class) /\ Registry!OfFilter /\ Registry!Goto("unmap", i)
           /\ UNCHANGED undisturbed
  <2>1. i = 1
    BY <1>1, <1>5, TemplatesAre
  <2>2. stage' = "unmap" /\ i' = 1 /\ op' = op
    BY <1>5, <2>1 DEF Registry!Goto
  <2>3. RegistryTyped'
    BY <1>1, <1>5, <2>2, Zenon DEF RegistryTyped, Stages
  <2>4. RegisterInv' /\ UnregisterInv'
    BY <1>1, <1>5, <2>1, <2>2 DEF RegisterInv, UnregisterInv, FilterKey, PageKey, Entry
  <2> QED BY <1>1, <1>2, <1>5, <2>1, <2>3, <2>4, GotoKeeps DEF Stages
<1>6. CASE /\ Registry!Creatable(Registry!Class) /\ ~Registry!OfFilter
           /\ Registry!FilterDone(TRUE, undisturbed)
  <2>1. i = 2
    BY <1>1, <1>6, TemplatesAre
  <2>2. PICK calm \in BOOLEAN : calm = undisturbed
    BY <1>1 DEF RegistryTyped
  <2>3. Registry!FilterDone(TRUE, calm)
    BY <1>6, <2>2
  <2>4. entry' \in [{"ScreenCam"} -> 0..2] /\ Entry' = Entry
    BY <1>1 DEF RegistryTyped, Entry
  <2>5. /\ op = "register" =>
               /\ FilterKey = 5 \/ (impl = "screencam" /\ ~calm)
               /\ impl # "objects" \/ i = 2 => PageKey = 5
               /\ calm => Entry' = 2
               /\ impl # "objects" => Entry' = 2
        /\ op = "unregister" =>
               /\ impl # "objects" \/ i = 1 => Entry' = 0
               /\ impl = "objects" /\ i = 1 /\ calm => PageKey = 0
    BY <1>1, <2>1, <2>2, <2>4 DEF RegisterInv, UnregisterInv
  <2> QED BY <1>1, <1>2, <2>1, <2>3, <2>4, <2>5, DoneKeeps
<1> QED BY <1>4, <1>5, <1>6 DEF Registry!CreateObject

LEMMA NoFilterKeeps ==
    ASSUME RegistryInv, Registry!NoFilter
    PROVE  RegistryInv'
<1>1. /\ stage = "unmap" /\ UNCHANGED << impl, key, entry >>
      /\ RegistryTyped /\ ServedInv /\ RegisterInv /\ UnregisterInv
      /\ op \in {"register", "unregister"} /\ i = 2
  BY TemplatesAre DEF Registry!NoFilter, Registry!FilterDone, Registry!NextTemplate, Registry!Goto,
     Registry!Return, RegistryInv, CallInv, RegistryTyped
<1>2. ServedInv'
  BY <1>1 DEF ServedInv, FilterKey, PageKey, Entry
<1>3. PICK calm \in BOOLEAN : calm = undisturbed
  BY <1>1 DEF RegistryTyped
<1>4. Registry!FilterDone(TRUE, calm)
  BY <1>3 DEF Registry!NoFilter
<1>5. entry' \in [{"ScreenCam"} -> 0..2] /\ Entry' = Entry
  BY <1>1 DEF RegistryTyped, Entry
<1>6. /\ op = "register" =>
             /\ FilterKey = 5 \/ (impl = "screencam" /\ ~calm)
             /\ impl # "objects" \/ i = 2 => PageKey = 5
             /\ calm => Entry' = 2
             /\ impl # "objects" => Entry' = 2
      /\ op = "unregister" =>
             /\ impl # "objects" \/ i = 1 => Entry' = 0
             /\ impl = "objects" /\ i = 1 /\ calm => PageKey = 0
  BY <1>1, <1>3, <1>5 DEF RegisterInv, UnregisterInv, ServersDone
<1> QED BY <1>1, <1>2, <1>4, <1>5, <1>6, DoneKeeps

\* The filter is removed from the mapper, or that is refused; what follows depends on the call.
LEMMA UnmapKeeps ==
    ASSUME RegistryInv, Registry!Unmap
    PROVE  RegistryInv'
<1>1. PICK refused \in BOOLEAN :
        LET ok == ~refused /\ (entry[Registry!Class] > 0 \/ Registry!NotFoundAccepted) IN
         /\ entry' = IF refused THEN entry ELSE [entry EXCEPT ![Registry!Class] = 0]
         /\ \/ op = "register" /\ impl # "objects" /\ Registry!Goto("map", i)
               /\ undisturbed' = (undisturbed /\ ~refused)
            \/ op = "register" /\ impl = "objects"
               /\ undisturbed' = (undisturbed /\ ~refused)
               /\ IF ok THEN Registry!Goto("map", i) ELSE Registry!Return(FALSE, FALSE)
            \/ op = "unregister" /\ Registry!FilterDone(ok, undisturbed /\ ~refused)
  BY DEF Registry!Unmap
<1>2. /\ stage = "unmap" /\ UNCHANGED << impl, key >> /\ i = 1
      /\ ~(impl = "screencam" /\ op = "register")
      /\ RegistryTyped /\ ServedInv /\ RegisterInv /\ UnregisterInv /\ op \in {"register", "unregister"}
  BY TemplatesAre DEF Registry!Unmap, Registry!FilterDone, Registry!NextTemplate, Registry!Goto,
     Registry!Return, RegistryInv, CallInv, RegistryTyped
<1>3. /\ Registry!Class = "ScreenCam" /\ entry' \in [{"ScreenCam"} -> 0..2]
      /\ refused => Entry' = Entry
      /\ ~refused => Entry' = 0
      /\ FilterKey' = FilterKey /\ PageKey' = PageKey
  BY <1>1, <1>2, TemplatesAre DEF RegistryTyped, Entry, FilterKey, PageKey
<1>4. ServedInv'
  BY <1>2, <1>3 DEF ServedInv
<1>5. ASSUME undisturbed' \in BOOLEAN, NEW s \in Stages, stage' = s, i' = 1 PROVE RegistryTyped'
  BY <1>2, <1>3, <1>5 DEF RegistryTyped
<1>6. CASE op = "register" /\ Registry!Goto("map", i) /\ undisturbed' = (undisturbed /\ ~refused)
  <2>1. stage' = "map" /\ i' = 1 /\ op' = op
    BY <1>2, <1>6 DEF Registry!Goto
  <2>2. undisturbed' \in BOOLEAN
    BY <1>6, Zenon
  <2>3. RegistryTyped'
    BY <1>5, <2>1, <2>2 DEF Stages
  <2>4. RegisterInv' /\ UnregisterInv'
    BY <1>2, <1>3, <1>6, <2>1 DEF RegisterInv, UnregisterInv, ServersDone
  <2> QED BY <1>2, <1>4, <1>6, <2>3, <2>4, GotoKeeps DEF Stages
<1>7. CASE /\ op = "register" /\ impl = "objects" /\ undisturbed' = (undisturbed /\ ~refused)
           /\ Registry!Return(FALSE, FALSE) /\ refused
  <2>1. undisturbed' \in BOOLEAN
    BY <1>7, Zenon
  <2>2. RegistryTyped'
    BY <1>5, <1>7, <2>1 DEF Stages, Registry!Return
  <2>3. ASSUME NEW o, o = op PROVE TrueOf(o, FALSE, FALSE)'
    BY <1>7, <2>3 DEF TrueOf
  <2> QED BY <1>4, <1>7, <2>2, <2>3, ReturnKeeps
<1>8. CASE /\ op = "unregister"
           /\ Registry!FilterDone(~refused /\ (entry[Registry!Class] > 0 \/ Registry!NotFoundAccepted),
                                  undisturbed /\ ~refused)
  <2>1. PICK ok \in BOOLEAN :
               ok = (~refused /\ (entry[Registry!Class] > 0 \/ Registry!NotFoundAccepted))
    BY Zenon
  <2>2. PICK calm \in BOOLEAN : calm = (undisturbed /\ ~refused)
    BY Zenon
  <2>3. Registry!FilterDone(ok, calm)
    BY <1>8, <2>1, <2>2
  <2>4. ok => ~refused
    BY <2>1
  <2>5. ~ok /\ impl # "screencam" => refused
    BY <2>1 DEF Registry!NotFoundAccepted
  <2>6. calm => undisturbed /\ ~refused
    BY <2>2
  <2>7. /\ ok /\ (impl # "objects" \/ i = 1) => Entry' = 0
        /\ ~ok /\ impl \in {"mapper1", "mapper2"} => ~calm
        /\ impl = "objects" /\ i = 1 /\ calm => PageKey = 0
    BY <1>2, <1>3, <1>8, <2>4, <2>5, <2>6 DEF UnregisterInv
  <2> QED BY <1>2, <1>3, <1>4, <1>8, <2>3, <2>7, DoneKeeps
<1>9. impl = "objects" => Registry!NotFoundAccepted
  BY DEF Registry!NotFoundAccepted
<1> QED BY <1>1, <1>2, <1>6, <1>7, <1>8, <1>9

\* The mapper is told of the filter, wholly, without its pins, or not at all.
LEMMA MapKeeps ==
    ASSUME RegistryInv, Registry!Map
    PROVE  RegistryInv'
<1>1. PICK n \in 0..2 :
         /\ impl \in {"mapper2", "screencam"} => n # 1
         /\ entry' = [entry EXCEPT ![Registry!Class] = IF entry[Registry!Class] > n THEN entry[Registry!Class]
                                                       ELSE n]
         /\ IF impl = "screencam" /\ n = 0 THEN Registry!Broken /\ undisturbed' = FALSE
            ELSE Registry!FilterDone(n = 2 \/ impl = "objects", undisturbed /\ n = 2)
  BY DEF Registry!Map
<1>2. /\ UNCHANGED << impl, key >> /\ op = "register" /\ i = 1 /\ stage \in {"map", "unmap"}
      /\ stage = "unmap" => impl = "screencam"
      /\ stage = "map" => impl # "screencam"
      /\ RegistryTyped /\ ServedInv /\ RegisterInv
  BY TemplatesAre DEF Registry!Map, Registry!Broken, Registry!FilterDone, Registry!NextTemplate, Registry!Goto,
     Registry!Return, RegistryInv, CallInv, RegistryTyped, RegisterInv, UnregisterInv
<1>3. /\ entry' \in [{"ScreenCam"} -> 0..2] /\ Entry \in 0..2
      /\ Entry' = (IF Entry > n THEN Entry ELSE n)
      /\ FilterKey' = FilterKey /\ PageKey' = PageKey
  BY <1>1, <1>2, TemplatesAre DEF RegistryTyped, Entry, FilterKey, PageKey
<1>4. n = 2 => Entry' = 2
  BY <1>3
<1>5. /\ FilterKey = 5 \/ (impl = "screencam" /\ ~undisturbed)
      /\ impl # "objects" => PageKey = 5
  BY <1>2 DEF RegisterInv, ServersDone
<1>6. ServedInv'
  BY <1>2, <1>3, <1>5 DEF ServedInv
<1>7. CASE impl = "screencam" /\ n = 0
  <2>1. Registry!Broken /\ undisturbed' = FALSE
    BY <1>1, <1>7
  <2>2. undisturbed' \in BOOLEAN
    BY <2>1, Zenon
  <2>3. RegistryTyped'
    BY <1>2, <1>3, <2>1, <2>2 DEF RegistryTyped, Stages, Registry!Broken
  <2> QED BY <1>6, <2>1, <2>3, BrokenKeeps
<1>8. CASE ~(impl = "screencam" /\ n = 0)
  <2>1. PICK ok \in BOOLEAN : ok = (n = 2 \/ impl = "objects")
    BY Zenon
  <2>2. PICK calm \in BOOLEAN : calm = (undisturbed /\ n = 2)
    BY Zenon
  <2>3. Registry!FilterDone(ok, calm)
    BY <1>1, <1>8, <2>1, <2>2
  <2>4. calm => undisturbed /\ n = 2
    BY <2>2
  <2>5. /\ n = 2 => ok
        /\ ok => n = 2 \/ impl = "objects"
    BY <2>1
  <2>6. /\ FilterKey = 5 \/ (impl = "screencam" /\ ~calm)
        /\ impl # "objects" \/ i = 2 => PageKey = 5
        /\ calm => ok /\ Entry' = 2
        /\ impl # "objects" /\ ok => Entry' = 2
    BY <1>2, <1>4, <1>5, <2>4, <2>5
  <2> QED BY <1>2, <1>3, <1>6, <2>3, <2>6, DoneKeeps
<1> QED BY <1>7, <1>8

LEMMA CrashKeeps ==
    ASSUME RegistryInv, Registry!Crash
    PROVE  RegistryInv'
<1>1. Registry!Broken /\ UNCHANGED << impl, key, entry, undisturbed >>
  BY DEF Registry!Crash, Registry!Broken
<1>2. ServedInv'
  BY <1>1 DEF RegistryInv, ServedInv, FilterKey, PageKey, Entry
<1>3. RegistryTyped'
  BY <1>1, Zenon DEF RegistryInv, RegistryTyped, Stages, Registry!Broken
<1> QED BY <1>1, <1>2, <1>3, BrokenKeeps

LEMMA NextKeepsRegistry == ASSUME RegistryInv, Registry!Next PROVE RegistryInv'
BY CallKeeps, RegisterServersKeep, CreateMapperKeeps, UnregisterServersKeep, CreateObjectKeeps,
   NoFilterKeeps, UnmapKeeps, MapKeeps, CrashKeeps DEF Registry!Next

-----------------------------------------------------------------------------
(* Long arithmetic: quotients and remainders. *)

\* What division leaves.
LEMMA EuclidIs ==
    ASSUME NEW x \in Int, NEW b \in Nat, b > 0
    PROVE  /\ x = (b * (x \div b)) + (x % b)
           /\ x % b \in 0..b-1 /\ x \div b \in Int /\ (x >= 0 => x \div b \in Nat)
OBVIOUS

\* There is only one quotient.
LEMMA QuotientIs ==
    ASSUME NEW n \in Int, NEW c \in Nat, c > 0, NEW q \in Int, NEW r \in 0..c-1, n = (q * c) + r
    PROVE  n \div c = q /\ n % c = r
OBVIOUS

\* The product of two numbers of two digits.
LEMMA ProductOfDigits ==
    ASSUME NEW h \in Int, NEW l \in Int, NEW g \in Int, NEW k \in Int, NEW b \in Int
    PROVE  ((h * b) + l) * ((g * b) + k)
              = ((h * g) * (b * b)) + (((l * g) + (h * k)) * b) + (l * k)
OBVIOUS

\* Products grow with their factors.
LEMMA ProductsGrow ==
    ASSUME NEW x \in Nat, NEW y \in Nat, NEW a \in Nat, NEW b \in Nat, x <= a, y <= b
    PROVE  x * y \in Nat /\ x * y <= a * b
OBVIOUS

-----------------------------------------------------------------------------
(* The powers of two. *)

\* What a function that doubles with every number is.
Doubled(N, f) == f = [n \in 0..N |-> IF n = 0 THEN 1 ELSE 2 * f[n - 1]]

\* The recursive function Power exists.
LEMMA PowersExist ==
    ASSUME NEW N \in Nat
    PROVE  \E f : Doubled(N, f)
<1> DEFINE Bad == { n \in Nat : ~\E f : Doubled(n, f) }
<1> SUFFICES ASSUME Bad # {} PROVE FALSE
  OBVIOUS
<1>1. PICK n \in Bad : \A y \in Bad : n <= y
  BY LeastExists
<1>2. n # 0
  <2>1. Doubled(0, [k \in 0..0 |-> 1])
    BY DEF Doubled
  <2> QED BY <2>1
<1>3. n \in Nat /\ n - 1 \in Nat /\ n - 1 \notin Bad
  BY <1>1, <1>2
<1>4. PICK f : Doubled(n - 1, f)
  BY <1>3
<1> DEFINE g == [k \in 0..n |-> IF k = 0 THEN 1 ELSE 2 * f[k - 1]]
<1>5. \A k \in 0..n - 1 : f[k] = g[k]
  BY <1>3, <1>4 DEF Doubled
<1>6. \A k \in 0..n : g[k] = IF k = 0 THEN 1 ELSE 2 * g[k - 1]
  <2> SUFFICES ASSUME NEW k \in 0..n, k # 0 PROVE f[k - 1] = g[k - 1]
    OBVIOUS
  <2>1. k - 1 \in 0..n - 1
    BY <1>3
  <2> HIDE DEF g
  <2> QED BY <1>5, <2>1
<1>7. g = [k \in 0..n |-> IF k = 0 THEN 1 ELSE 2 * g[k - 1]]
  <2>1. g = [k \in 0..n |-> g[k]]
    OBVIOUS
  <2> HIDE DEF g
  <2> QED BY <1>6, <2>1
<1>8. Doubled(n, g)
  BY <1>7 DEF Doubled
<1> QED BY <1>8

\* The width.
LEMMA WIs == W \in Nat /\ W > 1
BY ToolboxAssumption DEF ToolboxAssumption, Arithmetic!WAssumption

\* What Power is: doubled with every bit.
LEMMA PowerIs ==
    /\ Arithmetic!Power[0] = 1
    /\ \A n \in 0..2 * W : n # 0 => Arithmetic!Power[n] = 2 * Arithmetic!Power[n - 1]
<1>1. 2 * W \in Nat
  BY WIs
<1>2. Doubled(2 * W, Arithmetic!Power)
  <2>1. \E f : Doubled(2 * W, f)
    BY <1>1, PowersExist
  <2>2. Arithmetic!Power = CHOOSE f : Doubled(2 * W, f)
    BY DEF Arithmetic!Power, Doubled
  <2> QED BY <2>1, <2>2
<1>3. PICK f : f = Arithmetic!Power
  OBVIOUS
<1>4. f = [n \in 0..2 * W |-> IF n = 0 THEN 1 ELSE 2 * f[n - 1]]
  BY <1>2, <1>3 DEF Doubled
<1> QED BY <1>1, <1>3, <1>4

\* Powers are positive, and those of W and more are as many times that of W.
LEMMA PowersAre ==
    /\ \A n \in 0..2 * W : Arithmetic!Power[n] \in Nat /\ Arithmetic!Power[n] > 0
    /\ \A n \in 0..W : Arithmetic!Power[W + n] = Arithmetic!Power[W] * Arithmetic!Power[n]
<1>1. PICK f : f = Arithmetic!Power
  OBVIOUS
<1>2. f[0] = 1 /\ \A n \in 0..2 * W : n # 0 => f[n] = 2 * f[n - 1]
  BY <1>1, PowerIs
<1>3. ASSUME NEW n \in 0..2 * W, f[n] \notin Nat \/ f[n] = 0 PROVE FALSE
  <2> DEFINE Bad == { k \in 0..2 * W : f[k] \notin Nat \/ f[k] = 0 }
  <2>1. Bad \subseteq Nat /\ Bad # {}
    BY <1>3
  <2>2. PICK k \in Bad : \A y \in Bad : k <= y
    BY <2>1, LeastExists
  <2>3. k # 0 /\ k \in 0..2 * W
    BY <1>2, <2>2
  <2>4. k - 1 \in 0..2 * W /\ k - 1 \notin Bad
    <3>1. k \in Nat /\ k - 1 \in 0..2 * W /\ ~(k <= k - 1)
      BY <2>3, WIs
    <3> QED BY <2>2, <3>1
  <2>5. f[k - 1] \in Nat /\ f[k - 1] # 0
    BY <2>4
  <2>6. f[k] = 2 * f[k - 1]
    BY <1>2, <2>3
  <2>7. f[k] \in Nat /\ f[k] # 0
    BY <2>5, <2>6
  <2> QED BY <2>2, <2>7
<1>4. ASSUME NEW n \in 0..W, f[W + n] # f[W] * f[n] PROVE FALSE
  <2> DEFINE Bad == { k \in 0..W : f[W + k] # f[W] * f[k] }
  <2>1. Bad \subseteq Nat /\ Bad # {}
    BY <1>4
  <2>2. PICK k \in Bad : \A y \in Bad : k <= y
    BY <2>1, LeastExists
  <2>3. W \in 0..2 * W /\ f[W] \in Nat
    BY <1>3, WIs
  <2>4. k # 0 /\ k \in 0..W /\ W + k \in 0..2 * W /\ W + k # 0 /\ k \in 0..2 * W
    BY <1>2, <2>2, <2>3, WIs
  <2>5. k - 1 \in 0..W /\ k - 1 \notin Bad /\ k - 1 \in 0..2 * W
    <3>1. k \in Nat /\ k - 1 \in 0..W /\ k - 1 \in 0..2 * W /\ ~(k <= k - 1)
      BY <2>4, WIs
    <3> QED BY <2>2, <3>1
  <2>6. f[W + (k - 1)] = f[W] * f[k - 1]
    BY <2>5
  <2>7. f[k] = 2 * f[k - 1] /\ f[W + k] = 2 * f[(W + k) - 1] /\ (W + k) - 1 = W + (k - 1)
    BY <1>2, <2>4, WIs
  <2>8. f[k - 1] \in Nat
    BY <1>3, <2>5
  <2>9. \A x, y \in Nat : 2 * (x * y) = x * (2 * y)
    OBVIOUS
  <2>10. f[W + k] = f[W] * f[k]
    BY <2>3, <2>6, <2>7, <2>8, <2>9
  <2> QED BY <2>2, <2>10
<1> QED BY <1>1, <1>3, <1>4

\* The digits: even, with room for two bits, and 2 * W of them make a long number.
LEMMA DigitIs ==
    \E b \in Nat : /\ b > 1 /\ Arithmetic!B = 2 * b /\ Arithmetic!B \in Nat /\ Arithmetic!B >= 4
                   /\ Arithmetic!D = (2 * b) * (2 * b) /\ Arithmetic!D = Arithmetic!Power[2 * W]
<1>1. Arithmetic!B = Arithmetic!Power[W] /\ Arithmetic!D = Arithmetic!B * Arithmetic!B
  BY DEF Arithmetic!B, Arithmetic!D
<1>2. PICK f : f = Arithmetic!Power
  OBVIOUS
<1>3. W \in 0..2 * W /\ W - 1 \in 0..2 * W /\ W - 2 \in 0..2 * W /\ W # 0 /\ W - 1 # 0 /\ W \in 0..W /\ W \in Int
  BY WIs
<1>4. f[W] = 2 * f[W - 1] /\ f[W - 1] = 2 * f[(W - 1) - 1] /\ (W - 1) - 1 = W - 2
  BY <1>2, <1>3, PowerIs
<1>5. f[W - 2] \in Nat /\ f[W - 2] > 0
  BY <1>2, <1>3, PowersAre
<1>6. f[W + W] = f[W] * f[W]
  BY <1>2, <1>3, PowersAre
<1>7. W + W = 2 * W
  BY <1>3
<1> QED BY <1>1, <1>2, <1>4, <1>5, <1>6, <1>7

-----------------------------------------------------------------------------
(* Digits. *)

\* A digit is b2 + b2, and what follows from that alone.
LEMMA DigitsFit ==
    ASSUME NEW b \in Nat, b > 1, NEW h \in Nat, NEW l \in Nat, NEW g \in Nat, NEW k \in Nat,
           h <= b, g <= b, l < 2 * b, k < 2 * b, NEW u \in Nat, u <= 2 * b
    PROVE  /\ l * k < (2 * b) * (2 * b)
           /\ ((l * g) + (h * k)) + u < ((2 * b) * (2 * b)) + 1
           /\ u < 2 * b => ((l * g) + (h * k)) + u < (2 * b) * (2 * b)
           /\ (h * g) + u < (2 * b) * (2 * b)
           /\ l * k \in Nat /\ l * g \in Nat /\ h * k \in Nat /\ h * g \in Nat
<1>1. l <= 2 * b - 1 /\ k <= 2 * b - 1 /\ 2 * b - 1 \in Nat
  OBVIOUS
<1>2. /\ l * k \in Nat /\ l * k <= (2 * b - 1) * (2 * b - 1)
      /\ l * g \in Nat /\ l * g <= (2 * b - 1) * b
      /\ h * k \in Nat /\ h * k <= b * (2 * b - 1)
      /\ h * g \in Nat /\ h * g <= b * b
  BY <1>1, ProductsGrow
<1>3. PICK s \in Nat : s = b * b
  OBVIOUS
<1>4. /\ (2 * b) * (2 * b) = 4 * s /\ (2 * b - 1) * b = 2 * s - b /\ b * (2 * b - 1) = 2 * s - b
      /\ (2 * b - 1) * (2 * b - 1) = (4 * s - 4 * b) + 1 /\ s >= 2 * b
  <2>1. s >= 2 * b
    BY <1>3, ProductsGrow
  <2> QED BY <1>3, <2>1
<1> QED BY <1>2, <1>3, <1>4

\* A number of two digits.
LEMMA HiLo ==
    ASSUME NEW x \in Nat, x < Arithmetic!D
    PROVE  /\ Arithmetic!Lo(x) \in Nat /\ Arithmetic!Lo(x) < Arithmetic!B
           /\ Arithmetic!Hi(x) \in Nat /\ Arithmetic!Hi(x) < Arithmetic!B
           /\ x = (Arithmetic!Hi(x) * Arithmetic!B) + Arithmetic!Lo(x)
<1>1. PICK b \in Nat : b > 1 /\ Arithmetic!B = 2 * b /\ Arithmetic!D = (2 * b) * (2 * b)
  BY DigitIs
<1>2. PICK h, l : h = x \div (2 * b) /\ l = x % (2 * b)
  OBVIOUS
<1>3. h \in Nat /\ l \in Nat /\ l < 2 * b /\ x = (h * (2 * b)) + l
  <2>1. 2 * b \in Nat /\ 2 * b > 0
    BY <1>1
  <2>2. x = ((2 * b) * h) + l /\ l \in 0..(2 * b) - 1 /\ h \in Nat
    BY <1>2, <2>1, EuclidIs
  <2>3. (2 * b) * h = h * (2 * b)
    BY <2>1, <2>2
  <2> QED BY <2>2, <2>3
<1>4. h < 2 * b
  <2> SUFFICES ASSUME 2 * b <= h PROVE FALSE
    BY <1>3
  <2>1. (2 * b) * (2 * b) <= h * (2 * b)
    BY <1>3, ProductsGrow
  <2> QED BY <1>1, <1>3, <2>1
<1> QED BY <1>1, <1>2, <1>3, <1>4 DEF Arithmetic!Lo, Arithmetic!Hi

\* The digit above of a number that is at most half of the range.
LEMMA HalfHi ==
    ASSUME NEW b \in Nat, b > 1, NEW h \in Nat, NEW l \in Nat, (h * (2 * b)) + l <= ((2 * b) * (2 * b)) \div 2
    PROVE  h <= b
<1>1. ((2 * b) * (2 * b)) \div 2 = b * (2 * b)
  <2>1. (2 * b) * (2 * b) = (2 * b) * b * 2 + 0
    OBVIOUS
  <2>2. (2 * b) * b \in Int
    OBVIOUS
  <2>3. PICK s \in Int : s = (2 * b) * b
    BY <2>2
  <2>4. (2 * b) * (2 * b) = (s * 2) + 0
    BY <2>1, <2>3
  <2>5. (2 * b) * (2 * b) \in Int /\ 0 \in 0..2 - 1
    OBVIOUS
  <2>6. ((2 * b) * (2 * b)) \div 2 = s
    BY <2>4, <2>5, QuotientIs
  <2> QED BY <2>3, <2>6
<1> SUFFICES ASSUME b + 1 <= h PROVE FALSE
  OBVIOUS
<1>2. (b + 1) * (2 * b) <= h * (2 * b)
  BY ProductsGrow
<1>3. (b + 1) * (2 * b) = (b * (2 * b)) + 2 * b
  OBVIOUS
<1> QED BY <1>1, <1>2, <1>3

-----------------------------------------------------------------------------
(* Long multiplication, and the addition to the product. *)

\* The digits of a product: the middle sum m carries u from below and hands on y.
LEMMA Carried ==
    ASSUME NEW b \in Int, NEW m \in Int, NEW e \in Int, NEW a \in Int, NEW u \in Int, NEW v \in Int,
           NEW y \in Int, NEW z \in Int, a = (u * b) + v, m + u = (y * b) + z
    PROVE  (((e + y) * (b * b)) + (z * b)) + v = ((e * (b * b)) + (m * b)) + a
<1>1. (m + u) * b = ((y * b) + z) * b
  OBVIOUS
<1>2. (m + u) * b = (m * b) + (u * b)
  OBVIOUS
<1>3. ((y * b) + z) * b = (y * (b * b)) + (z * b)
  OBVIOUS
<1>4. (e + y) * (b * b) = (e * (b * b)) + (y * (b * b))
  OBVIOUS
<1>5. PICK bb \in Int : bb = b * b
  OBVIOUS
<1>6. PICK r1, r2, r3, r4, r5 \in Int : r1 = m * b /\ r2 = u * b /\ r3 = z * b /\ r4 = e * bb /\ r5 = y * bb
  BY <1>5
<1> QED BY <1>1, <1>2, <1>3, <1>4, <1>5, <1>6

\* A remainder of a smaller number is the number.
LEMMA SmallModulo ==
    ASSUME NEW x \in Nat, NEW c \in Nat, x < c
    PROVE  x % c = x
OBVIOUS

\* The long multiplication loses no carry.
LEMMA ProductIs ==
    ASSUME NEW ua \in Nat, NEW ub \in Nat, ua <= Arithmetic!D \div 2, ub <= Arithmetic!D \div 2
    PROVE  Arithmetic!Product(ua, ub) = ua * ub
<1>1. PICK b \in Nat : b > 1 /\ Arithmetic!B = 2 * b /\ Arithmetic!D = (2 * b) * (2 * b)
  BY DigitIs
<1>2. PICK c, dd \in Nat : c = 2 * b /\ dd = c * c /\ Arithmetic!B = c /\ Arithmetic!D = dd /\ c > 0 /\ dd > 0
  BY <1>1, ProductsGrow
<1>3. ua < Arithmetic!D /\ ub < Arithmetic!D
  <2>1. Arithmetic!D \div 2 < Arithmetic!D
    BY <1>2
  <2> QED BY <1>2, <2>1
<1>4. PICK l, h \in Nat : l = Arithmetic!Lo(ua) /\ h = Arithmetic!Hi(ua) /\ l < c /\ ua = (h * c) + l
  BY <1>2, <1>3, HiLo
<1>5. PICK k, g \in Nat : k = Arithmetic!Lo(ub) /\ g = Arithmetic!Hi(ub) /\ k < c /\ ub = (g * c) + k
  BY <1>2, <1>3, HiLo
<1>6. h <= b /\ g <= b
  BY <1>1, <1>2, <1>4, <1>5, HalfHi
<1>7. /\ l * k < dd /\ l * k \in Nat /\ l * g \in Nat /\ h * k \in Nat /\ h * g \in Nat
      /\ \A u \in Nat : u < c => ((l * g) + (h * k)) + u < dd /\ (h * g) + u < dd
  <2>1. l < 2 * b /\ k < 2 * b /\ c = 2 * b /\ dd = (2 * b) * (2 * b)
    BY <1>2, <1>4, <1>5
  <2>2. ASSUME NEW u \in Nat, u < c
        PROVE  /\ l * k < dd /\ l * k \in Nat /\ l * g \in Nat /\ h * k \in Nat /\ h * g \in Nat
               /\ ((l * g) + (h * k)) + u < dd /\ (h * g) + u < dd
    <3>1. u < 2 * b /\ u <= 2 * b
      BY <2>1, <2>2
    <3>2. /\ l * k < (2 * b) * (2 * b)
          /\ ((l * g) + (h * k)) + u < (2 * b) * (2 * b)
          /\ (h * g) + u < (2 * b) * (2 * b)
          /\ l * k \in Nat /\ l * g \in Nat /\ h * k \in Nat /\ h * g \in Nat
      BY <1>1, <1>6, <2>1, <3>1, DigitsFit
    <3> QED BY <2>1, <3>2
  <2>3. 0 \in Nat /\ 0 < c
    BY <1>2
  <2> QED BY <2>2, <2>3
<1>8. PICK a, m, e \in Nat : a = l * k /\ m = (l * g) + (h * k) /\ e = h * g
  BY <1>7
<1>9. PICK v, u \in Nat : v = Arithmetic!Lo(a) /\ u = Arithmetic!Hi(a) /\ u < c /\ a = (u * c) + v
  BY <1>2, <1>7, <1>8, HiLo
<1>10. PICK x \in Nat : x = m + u /\ x < dd
  BY <1>7, <1>8, <1>9
<1>11. PICK z, y \in Nat : z = Arithmetic!Lo(x) /\ y = Arithmetic!Hi(x) /\ y < c /\ x = (y * c) + z
  BY <1>2, <1>10, HiLo
<1>12. e + y \in Nat /\ e + y < dd
  <2>1. (h * g) + y < dd
    BY <1>7, <1>11
  <2> QED BY <1>8, <2>1
<1>13. x % dd = x /\ (e + y) % dd = e + y
  BY <1>10, <1>12, SmallModulo
<1>14. Arithmetic!Product(ua, ub) = (((e + y) * dd) + (z * c)) + v
  <2>1. Arithmetic!Product(ua, ub)
          = (((h * g) + Arithmetic!Hi((((l * g) + (h * k)) + Arithmetic!Hi(l * k)) % dd)) % dd) * dd
              + Arithmetic!Lo((((l * g) + (h * k)) + Arithmetic!Hi(l * k)) % dd) * c + Arithmetic!Lo(l * k)
    BY <1>2, <1>4, <1>5 DEF Arithmetic!Product
  <2>2. Arithmetic!Product(ua, ub)
          = ((e + Arithmetic!Hi((m + u) % dd)) % dd) * dd + Arithmetic!Lo((m + u) % dd) * c + v
    BY <1>8, <1>9, <2>1
  <2>3. (m + u) % dd = x
    BY <1>10, <1>13
  <2>4. Arithmetic!Product(ua, ub) = ((e + y) % dd) * dd + z * c + v
    BY <1>11, <2>2, <2>3
  <2> QED BY <1>13, <2>4
<1>15. (((e + y) * dd) + (z * c)) + v = ((e * dd) + (m * c)) + a
  <2>1. a = (u * c) + v /\ m + u = (y * c) + z /\ dd = c * c
    BY <1>2, <1>9, <1>10, <1>11
  <2>2. (((e + y) * (c * c)) + (z * c)) + v = ((e * (c * c)) + (m * c)) + a
    BY <2>1, Carried
  <2> QED BY <2>1, <2>2
<1>16. ua * ub = ((e * dd) + (m * c)) + a
  <2>1. ((h * c) + l) * ((g * c) + k) = ((h * g) * (c * c)) + (((l * g) + (h * k)) * c) + (l * k)
    BY ProductOfDigits
  <2> QED BY <1>2, <1>4, <1>5, <1>8, <2>1
<1> QED BY <1>14, <1>15, <1>16

\* Adding d to a product p with a sign: m is the magnitude and the sign of the sum.
IsSum(p, d, s, m) ==
    /\ m.p \in Nat /\ m.bSign \in BOOLEAN
    /\ (IF s THEN -p ELSE p) + d = IF m.bSign THEN -m.p ELSE m.p

\* The sum of the product and d is what Magnitude says, when it fits: no carry is lost.
LEMMA MagnitudeIs ==
    ASSUME NEW half \in Nat, NEW size, size = 2 * half, NEW p \in Nat, NEW d \in Int, NEW s \in BOOLEAN,
           p + d < half, p - d < half, NEW m, m = Arithmetic!Magnitude(p, d, s, size)
    PROVE  IsSum(p, d, s, m)
<1>1. PICK t \in Int : t = IF s THEN -d ELSE d
  OBVIOUS
<1>2. PICK w \in Int : w = p + t
  OBVIOUS
<1>3. -half < w /\ w < half /\ size \in Nat /\ size > 0 /\ half > 0
  BY <1>1, <1>2
<1>4. (p + (t % size)) % size = IF w < 0 THEN w + size ELSE w
  <2>1. PICK r, q : r = t % size /\ q = t \div size
    OBVIOUS
  <2>2. t = (size * q) + r /\ q \in Int /\ r \in 0..size - 1
    BY <1>3, <2>1, EuclidIs
  <2>3. PICK y : y = IF w < 0 THEN w + size ELSE w
    OBVIOUS
  <2>4. y \in 0..size - 1
    BY <1>3, <2>3
  <2>5. CASE w < 0
    <3>1. p + r = ((-q - 1) * size) + y
      BY <1>2, <1>3, <2>2, <2>3, <2>5
    <3> QED BY <1>3, <2>1, <2>2, <2>3, <2>4, <3>1, QuotientIs
  <2>6. CASE ~(w < 0)
    <3>1. p + r = (-q * size) + y
      BY <1>2, <1>3, <2>2, <2>3, <2>6
    <3> QED BY <1>3, <2>1, <2>2, <2>3, <2>4, <3>1, QuotientIs
  <2> QED BY <2>5, <2>6
<1>5. size \div 2 = half
  BY <1>3, QuotientIs
<1>6. PICK y : y = (p + (t % size)) % size
  OBVIOUS
<1>7. m = IF y >= half THEN [p |-> size - y, bSign |-> ~s] ELSE [p |-> y, bSign |-> s]
  BY <1>1, <1>5, <1>6 DEF Arithmetic!Magnitude, Arithmetic!Extended
<1>8. CASE w < 0
  <2>1. y = w + size
    BY <1>4, <1>6, <1>8
  <2>2. y >= half /\ size - y = -w
    BY <1>3, <2>1
  <2>3. m.p = -w /\ m.bSign = ~s
    BY <1>7, <2>2
  <2>4. CASE s
    <3>1. m.p \in Nat /\ (-p) + d = m.p
      <4>1. t = -d
        BY <1>1, <2>4
      <4> QED BY <1>2, <1>8, <2>3, <4>1
    <3>2. (IF s THEN -p ELSE p) + d = m.p
      BY <2>4, <3>1
    <3>3. m.bSign \in BOOLEAN /\ ~m.bSign
      BY <2>3, <2>4, Zenon
    <3> QED BY <3>1, <3>2, <3>3, Zenon DEF IsSum
  <2>5. CASE ~s
    <3>1. m.p \in Nat /\ p + d = -m.p
      BY <1>1, <1>2, <1>8, <2>3, <2>5
    <3>2. (IF s THEN -p ELSE p) + d = -m.p
      BY <2>5, <3>1
    <3>3. m.bSign \in BOOLEAN /\ m.bSign
      BY <2>3, <2>5, Zenon
    <3> QED BY <3>1, <3>2, <3>3, Zenon DEF IsSum
  <2> QED BY <2>4, <2>5
<1>9. CASE ~(w < 0)
  <2>1. y = w /\ ~(y >= half)
    BY <1>3, <1>4, <1>6, <1>9
  <2>2. m.p = w /\ m.bSign = s
    BY <1>7, <2>1
  <2> QED BY <1>1, <1>2, <1>9, <2>2 DEF IsSum
<1> QED BY <1>8, <1>9

-----------------------------------------------------------------------------
(* Division. *)

\* The division by a divisor of one digit.
LEMMA ShortIs ==
    ASSUME NEW p \in Nat, NEW uc \in Nat, uc > 0, uc < Arithmetic!B, p \div Arithmetic!D < uc
    PROVE  Arithmetic!ShortDivide(p, uc) = p \div uc
<1>1. PICK c, dd \in Nat : c = Arithmetic!B /\ dd = Arithmetic!D /\ dd = c * c /\ c > 0 /\ dd > 0
  <2>1. PICK b \in Nat : b > 1 /\ Arithmetic!B = 2 * b /\ Arithmetic!D = (2 * b) * (2 * b)
    BY DigitIs
  <2>2. (2 * b) * (2 * b) \in Nat /\ (2 * b) * (2 * b) > 0
    BY <2>1
  <2> QED BY <2>1, <2>2
<1>2. PICK p1 \in Nat, r0 \in Nat : p1 = p \div dd /\ r0 = p % dd /\ p = (dd * p1) + r0 /\ r0 < dd /\ p1 < uc
  <2>1. p = (dd * (p \div dd)) + (p % dd) /\ p % dd \in 0..dd-1 /\ p \div dd \in Nat
    BY <1>1, EuclidIs
  <2> QED BY <1>1, <2>1
<1>3. PICK l0, h0 \in Nat : l0 = Arithmetic!Lo(r0) /\ h0 = Arithmetic!Hi(r0) /\ l0 < c /\ h0 < c /\ r0 = (h0 * c) + l0
  BY <1>1, <1>2, HiLo
<1>4. PICK n \in Nat : n = (p1 * c) + h0
  BY <1>1
<1>5. p = (n * c) + l0
  <2>1. (n * c) = ((p1 * c) * c) + (h0 * c)
    BY <1>4
  <2>2. (p1 * c) * c = dd * p1
    BY <1>1
  <2>3. PICK e1, e2, e3 \in Nat : e1 = dd * p1 /\ e2 = h0 * c /\ e3 = n * c
    BY <1>1
  <2>4. e3 = e1 + e2 /\ p = e1 + (e2 + l0)
    BY <1>2, <1>3, <2>1, <2>2, <2>3
  <2> QED BY <2>3, <2>4
<1>6. Arithmetic!Lo(p) = l0
  <2>1. l0 \in 0..c - 1
    BY <1>1, <1>3
  <2>2. p % c = l0
    BY <1>1, <1>5, <2>1, QuotientIs
  <2> QED BY <1>1, <2>2 DEF Arithmetic!Lo
<1>7. Arithmetic!Lo(p1) = p1
  BY <1>1, <1>2, SmallModulo DEF Arithmetic!Lo
<1>8. n < uc * c
  <2>1. (p1 + 1) * c <= uc * c
    BY <1>1, <1>2, ProductsGrow
  <2>2. (p1 + 1) * c = (p1 * c) + c
    OBVIOUS
  <2>3. PICK e1, e2 \in Nat : e1 = p1 * c /\ e2 = uc * c
    BY <1>1
  <2>4. e1 + c <= e2 /\ n = e1 + h0
    BY <1>4, <2>1, <2>2, <2>3
  <2>5. c \in Nat /\ h0 \in Nat /\ h0 < c /\ e1 \in Nat /\ e2 \in Nat
    BY <1>1, <1>3, <2>3
  <2>6. n < e2
    BY <2>4, <2>5
  <2> QED BY <2>3, <2>6
<1>9. PICK q1 \in Nat, r1 \in Nat : q1 = n \div uc /\ r1 = n % uc /\ n = (uc * q1) + r1 /\ r1 < uc
  <2>1. n = (uc * (n \div uc)) + (n % uc) /\ n % uc \in 0..uc-1 /\ n \div uc \in Nat
    BY EuclidIs
  <2> QED BY <2>1
<1>10. q1 % c = q1
  <2>1. q1 < c
    <3> SUFFICES ASSUME c <= q1 PROVE FALSE
      BY <1>1
    <3>1. uc * c <= uc * q1
      BY <1>1, ProductsGrow
    <3> QED BY <1>8, <1>9, <3>1
  <2> QED BY <1>1, <2>1, SmallModulo
<1>11. PICK q2 \in Nat, r2 \in Nat : q2 = ((r1 * c) + l0) \div uc /\ (r1 * c) + l0 = (uc * q2) + r2 /\ r2 < uc
  <2>1. PICK y \in Nat : y = (r1 * c) + l0
    BY <1>1, <1>3, <1>9
  <2>2. y = (uc * (y \div uc)) + (y % uc) /\ y % uc \in 0..uc-1 /\ y \div uc \in Nat
    BY EuclidIs
  <2> QED BY <2>1, <2>2
<1>12. Arithmetic!ShortDivide(p, uc) = (q1 * c) + q2
  <2>1. Arithmetic!ShortDivide(p, uc)
          = (((Arithmetic!Lo(p \div dd) * c + Arithmetic!Hi(p % dd)) \div uc) % c) * c
              + (((Arithmetic!Lo(p \div dd) * c + Arithmetic!Hi(p % dd)) % uc) * c + Arithmetic!Lo(p)) \div uc
    BY <1>1 DEF Arithmetic!ShortDivide
  <2>2. Arithmetic!Lo(p \div dd) * c + Arithmetic!Hi(p % dd) = n
    BY <1>2, <1>3, <1>4, <1>7
  <2>3. Arithmetic!ShortDivide(p, uc) = ((n \div uc) % c) * c + ((n % uc) * c + Arithmetic!Lo(p)) \div uc
    BY <2>1, <2>2
  <2>4. Arithmetic!ShortDivide(p, uc) = (q1 % c) * c + ((r1 * c) + l0) \div uc
    BY <1>6, <1>9, <2>3
  <2> QED BY <1>10, <1>11, <2>4
<1>13. p = (((q1 * c) + q2) * uc) + r2
  <2>1. n * c = ((uc * q1) * c) + (r1 * c)
    BY <1>1, <1>9
  <2>2. ((q1 * c) + q2) * uc = ((uc * q1) * c) + (uc * q2)
    BY <1>1, <1>9, <1>11
  <2> QED BY <1>5, <1>11, <2>1, <2>2
<1>14. p \div uc = (q1 * c) + q2
  <2>1. (q1 * c) + q2 \in Int /\ r2 \in 0..uc - 1
    BY <1>1, <1>11
  <2> QED BY <1>13, <2>1, QuotientIs
<1> QED BY <1>12, <1>14

\* The recursion of the long division.
Bit(uc, was) ==
    IF uc <= ((2 * was.p) % (Arithmetic!D * Arithmetic!D)) \div Arithmetic!D
    THEN [p |-> ((2 * was.p) % (Arithmetic!D * Arithmetic!D)) - uc * Arithmetic!D, q |-> 2 * was.q + 1]
    ELSE [p |-> (2 * was.p) % (Arithmetic!D * Arithmetic!D), q |-> 2 * was.q]

\* The remainders and quotients of a long division, bit by bit.
Bits(N, p, uc, f) ==
    f = [n \in 0..N |-> IF n = 0 THEN [p |-> p, q |-> 0] ELSE Bit(uc, f[n - 1])]

\* The recursive function of LongDivide exists.
LEMMA BitsExist ==
    ASSUME NEW p, NEW uc, NEW N \in Nat
    PROVE  \E f : Bits(N, p, uc, f)
<1> DEFINE Bad == { n \in Nat : ~\E f : Bits(n, p, uc, f) }
<1> SUFFICES ASSUME Bad # {} PROVE FALSE
  OBVIOUS
<1>1. PICK n \in Bad : \A y \in Bad : n <= y
  BY LeastExists
<1>2. n # 0
  <2>1. Bits(0, p, uc, [k \in 0..0 |-> [p |-> p, q |-> 0]])
    BY DEF Bits
  <2> QED BY <2>1
<1>3. n \in Nat /\ n - 1 \in Nat /\ n - 1 \notin Bad
  BY <1>1, <1>2
<1>4. PICK f : Bits(n - 1, p, uc, f)
  BY <1>3
<1> DEFINE g == [k \in 0..n |-> IF k = 0 THEN [p |-> p, q |-> 0] ELSE Bit(uc, f[k - 1])]
<1>5. \A k \in 0..n - 1 : f[k] = g[k]
  BY <1>3, <1>4 DEF Bits
<1>6. \A k \in 0..n : g[k] = IF k = 0 THEN [p |-> p, q |-> 0] ELSE Bit(uc, g[k - 1])
  <2> SUFFICES ASSUME NEW k \in 0..n, k # 0 PROVE f[k - 1] = g[k - 1]
    OBVIOUS
  <2>1. k - 1 \in 0..n - 1
    BY <1>3
  <2> HIDE DEF g
  <2> QED BY <1>5, <2>1
<1>7. g = [k \in 0..n |-> IF k = 0 THEN [p |-> p, q |-> 0] ELSE Bit(uc, g[k - 1])]
  <2>1. g = [k \in 0..n |-> g[k]]
    OBVIOUS
  <2> HIDE DEF g
  <2> QED BY <1>6, <2>1
<1>8. Bits(n, p, uc, g)
  BY <1>7 DEF Bits
<1> QED BY <1>8

\* After n bits: what was shifted in, and what remains to be divided.
BitInv(p, uc, dd, two, was) ==
    /\ was.p \in Nat /\ was.q \in Nat /\ was.p < uc * dd
    /\ p * two = (was.q * (uc * dd)) + was.p

\* A remainder that is doubled, and less the divisor.
LEMMA Shifted ==
    ASSUME NEW p \in Nat, NEW uc \in Nat, NEW dd \in Nat, NEW two \in Nat, NEW was, BitInv(p, uc, dd, two, was),
           NEW x, x = 2 * was.p, NEW next,
           next = IF uc * dd <= x THEN [p |-> x - uc * dd, q |-> 2 * was.q + 1] ELSE [p |-> x, q |-> 2 * was.q]
    PROVE  BitInv(p, uc, dd, 2 * two, next)
<1>1. PICK e \in Nat : e = uc * dd
  BY ProductsGrow
<1>2. PICK r, q \in Nat : r = was.p /\ q = was.q
  BY DEF BitInv
<1>3. r < e /\ p * two = (q * e) + r
  BY <1>1, <1>2 DEF BitInv
<1>4. p * (2 * two) = 2 * (p * two) /\ (2 * q) * e = 2 * (q * e) /\ (2 * q + 1) * e = 2 * (q * e) + e
  BY <1>1, <1>2
<1>5. PICK s, t \in Nat : s = p * two /\ t = q * e
  BY <1>1, <1>2
<1>6. CASE e <= x
  <2>1. next.p = x - e /\ next.q = 2 * q + 1
    BY <1>1, <1>2, <1>6
  <2>2. next.p \in Nat /\ next.p < e /\ next.q \in Nat
    BY <1>2, <1>3, <1>6, <2>1
  <2>3. 2 * s = (2 * t + e) + next.p
    BY <1>2, <1>3, <1>5, <2>1
  <2>4. p * (2 * two) = (next.q * e) + next.p
    BY <1>4, <1>5, <2>1, <2>3
  <2> QED BY <1>1, <2>2, <2>4 DEF BitInv
<1>7. CASE ~(e <= x)
  <2>1. next.p = x /\ next.q = 2 * q
    BY <1>1, <1>2, <1>7
  <2>2. next.p \in Nat /\ next.p < e /\ next.q \in Nat
    BY <1>2, <1>3, <1>7, <2>1
  <2>3. 2 * s = 2 * t + next.p
    BY <1>2, <1>3, <1>5, <2>1
  <2>4. p * (2 * two) = (next.q * e) + next.p
    BY <1>4, <1>5, <2>1, <2>3
  <2> QED BY <1>1, <2>2, <2>4 DEF BitInv
<1> QED BY <1>6, <1>7

\* A quotient reaches uc when the dividend reaches uc times the divisor.
LEMMA QuotientReaches ==
    ASSUME NEW x \in Nat, NEW c \in Nat, c > 0, NEW uc \in Nat
    PROVE  uc <= x \div c <=> uc * c <= x
<1>1. PICK q, r \in Nat : q = x \div c /\ x = (c * q) + r /\ r < c
  <2>1. x = (c * (x \div c)) + (x % c) /\ x % c \in 0..c-1 /\ x \div c \in Nat
    BY EuclidIs
  <2> QED BY <2>1
<1>2. CASE uc <= q
  <2>1. uc * c <= q * c
    BY <1>2, ProductsGrow
  <2>2. q * c = c * q
    OBVIOUS
  <2> QED BY <1>1, <1>2, <2>1, <2>2
<1>3. CASE q + 1 <= uc
  <2>1. (q + 1) * c <= uc * c
    BY <1>3, ProductsGrow
  <2>2. (q + 1) * c = (c * q) + c
    OBVIOUS
  <2>3. PICK e, f \in Nat : e = c * q /\ f = uc * c
    BY ProductsGrow
  <2>4. x < f
    BY <1>1, <2>1, <2>2, <2>3
  <2> QED BY <1>1, <1>3, <2>3, <2>4
<1> QED BY <1>2, <1>3

\* One bit of the division, of a divisor that is at most half of the range.
LEMMA BitKeeps ==
    ASSUME NEW p \in Nat, NEW uc \in Nat, NEW two \in Nat, NEW was,
           BitInv(p, uc, Arithmetic!D, two, was), uc <= Arithmetic!D \div 2
    PROVE  BitInv(p, uc, Arithmetic!D, 2 * two, Bit(uc, was))
<1>1. PICK dd \in Nat : dd = Arithmetic!D /\ dd > 0 /\ 2 * uc <= dd
  <2>1. PICK b \in Nat : b > 1 /\ Arithmetic!D = (2 * b) * (2 * b)
    BY DigitIs
  <2>2. PICK dd \in Nat : dd = (2 * b) * (2 * b) /\ dd > 0
    BY <2>1
  <2> QED BY <2>1, <2>2
<1>2. PICK r \in Nat : r = was.p /\ r < uc * dd
  BY <1>1 DEF BitInv
<1>3. PICK x \in Nat : x = 2 * was.p
  BY <1>2
<1>4. x % (dd * dd) = x
  <2>1. (2 * uc) * dd <= dd * dd
    BY <1>1, ProductsGrow
  <2>2. (2 * uc) * dd = 2 * (uc * dd)
    OBVIOUS
  <2>3. PICK e, f \in Nat : e = uc * dd /\ f = dd * dd
    BY ProductsGrow
  <2>4. x < f
    BY <1>2, <1>3, <2>1, <2>2, <2>3
  <2> QED BY <2>3, <2>4, SmallModulo
<1>5. uc <= x \div dd <=> uc * dd <= x
  BY <1>1, QuotientReaches
<1>6. Bit(uc, was) = IF uc <= x \div dd THEN [p |-> x - uc * dd, q |-> 2 * was.q + 1]
                                        ELSE [p |-> x, q |-> 2 * was.q]
  BY <1>1, <1>3, <1>4 DEF Bit
<1>7. Bit(uc, was) = IF uc * dd <= x THEN [p |-> x - uc * dd, q |-> 2 * was.q + 1]
                                     ELSE [p |-> x, q |-> 2 * was.q]
  BY <1>5, <1>6
<1>8. BitInv(p, uc, dd, two, was)
  BY <1>1
<1>9. BitInv(p, uc, dd, 2 * two, Bit(uc, was))
  BY <1>3, <1>7, <1>8, Shifted
<1> QED BY <1>1, <1>9

\* The long division gives the quotient.
LEMMA LongIs ==
    ASSUME NEW p \in Nat, NEW uc \in Nat, uc > 0, uc <= Arithmetic!D \div 2, p \div Arithmetic!D < uc
    PROVE  Arithmetic!LongDivide(p, uc) = p \div uc
<1>1. 2 * W \in Nat /\ 0 \in 0..2 * W /\ 2 * W \in 0..2 * W
  BY WIs
<1>2. PICK f : Bits(2 * W, p, uc, f) /\ Arithmetic!LongDivide(p, uc) = f[2 * W].q
  <2>1. \E f : Bits(2 * W, p, uc, f)
    BY <1>1, BitsExist
  <2>2. Arithmetic!LongDivide(p, uc) = (CHOOSE f : Bits(2 * W, p, uc, f))[2 * W].q
    BY DEF Arithmetic!LongDivide, Bits, Bit
  <2> QED BY <2>1, <2>2
<1>3. f[0] = [p |-> p, q |-> 0] /\ \A n \in 0..2 * W : n # 0 => f[n] = Bit(uc, f[n - 1])
  BY <1>1, <1>2 DEF Bits
<1>4. PICK g : g = Arithmetic!Power
  OBVIOUS
<1>5. /\ g[0] = 1 /\ \A n \in 0..2 * W : n # 0 => g[n] = 2 * g[n - 1]
      /\ \A n \in 0..2 * W : g[n] \in Nat
  BY <1>4, PowerIs, PowersAre
<1>6. PICK dd \in Nat : dd = Arithmetic!D /\ dd > 0 /\ g[2 * W] = dd
  <2>1. PICK b \in Nat : b > 1 /\ Arithmetic!D = (2 * b) * (2 * b) /\ Arithmetic!D = g[2 * W]
    BY <1>4, DigitIs
  <2>2. PICK dd \in Nat : dd = (2 * b) * (2 * b) /\ dd > 0
    BY <2>1
  <2> QED BY <2>1, <2>2
<1>7. p < uc * dd
  <2>1. ~(uc <= p \div dd)
    <3>1. p \div dd \in Int
      BY <1>6, EuclidIs
    <3> QED BY <1>6, <3>1
  <2>2. ~(uc * dd <= p) /\ uc * dd \in Nat
    BY <1>6, <2>1, QuotientReaches, ProductsGrow
  <2> QED BY <2>2
<1>8. ASSUME NEW n \in 0..2 * W, ~BitInv(p, uc, dd, g[n], f[n]) PROVE FALSE
  <2> DEFINE Bad == { k \in 0..2 * W : ~BitInv(p, uc, dd, g[k], f[k]) }
  <2>1. Bad \subseteq Nat /\ Bad # {}
    BY <1>8
  <2>2. PICK k \in Bad : \A y \in Bad : k <= y
    BY <2>1, LeastExists
  <2>3. BitInv(p, uc, dd, g[0], f[0])
    <3>1. /\ f[0].p = p /\ f[0].q = 0 /\ g[0] = 1
      BY <1>3, <1>5
    <3>2. p * 1 = (0 * (uc * dd)) + p
      BY <1>6
    <3> QED BY <1>7, <3>1, <3>2 DEF BitInv
  <2>4. k # 0 /\ k \in 0..2 * W
    BY <2>2, <2>3
  <2>5. k - 1 \in 0..2 * W /\ k - 1 \notin Bad
    <3>1. k - 1 \in 0..2 * W /\ k \in Nat /\ ~(k <= k - 1)
      BY <1>1, <2>4
    <3> QED BY <2>2, <3>1
  <2>6. BitInv(p, uc, dd, g[k - 1], f[k - 1]) /\ g[k - 1] \in Nat
    BY <1>5, <2>5
  <2>7. BitInv(p, uc, dd, 2 * g[k - 1], Bit(uc, f[k - 1]))
    BY <1>6, <2>6, BitKeeps
  <2>8. BitInv(p, uc, dd, g[k], f[k])
    BY <1>3, <1>5, <2>4, <2>7
  <2> QED BY <2>2, <2>8
<1>9. BitInv(p, uc, dd, dd, f[2 * W])
  BY <1>1, <1>6, <1>8
<1>10. PICK q, r \in Nat : q = f[2 * W].q /\ r < uc * dd /\ p * dd = (q * (uc * dd)) + r
  BY <1>9 DEF BitInv
<1>11. r = (p - q * uc) * dd
  <2>1. q * (uc * dd) = (q * uc) * dd /\ (p - q * uc) * dd = (p * dd) - ((q * uc) * dd)
    BY <1>6, <1>10
  <2>2. PICK e, s \in Int : e = p * dd /\ s = (q * uc) * dd
    BY <1>6
  <2> QED BY <1>10, <2>1, <2>2
<1>12. PICK y \in Int : y = p - q * uc
  OBVIOUS
<1>13. y \in 0..uc - 1
  <2>1. y >= 0
    <3> SUFFICES ASSUME y <= -1 PROVE FALSE
      OBVIOUS
    <3>1. PICK z \in Nat : y = -z /\ 1 <= z
      OBVIOUS
    <3>2. 1 * dd <= z * dd
      BY <1>6, <3>1, ProductsGrow
    <3>3. y * dd = -(z * dd)
      BY <3>1
    <3>4. PICK e \in Nat : e = z * dd
      BY ProductsGrow
    <3> QED BY <1>6, <1>10, <1>11, <1>12, <3>2, <3>3, <3>4
  <2>2. y < uc
    <3> SUFFICES ASSUME uc <= y PROVE FALSE
      OBVIOUS
    <3>1. uc * dd <= y * dd
      BY <2>1, ProductsGrow
    <3> QED BY <1>10, <1>11, <1>12, <3>1
  <2> QED BY <2>1, <2>2
<1>14. p = (q * uc) + y
  BY <1>12
<1>15. p \div uc = q
  BY <1>13, <1>14, QuotientIs
<1> QED BY <1>2, <1>10, <1>15

-----------------------------------------------------------------------------
(* The answers. *)

\* Half of the range, and the two ends.
LEMMA EndsAre ==
    \E half \in Nat : /\ half > 1 /\ Arithmetic!D = 2 * half /\ Arithmetic!D \div 2 = half
                      /\ Arithmetic!Least = -half /\ Arithmetic!Greatest = half - 1
                      /\ Arithmetic!B <= half /\ Arithmetic!B \in Nat /\ Arithmetic!B >= 4
                      /\ Arithmetic!B \div 2 <= half /\ Arithmetic!B \div 2 < Arithmetic!B
                      /\ Arithmetic!B = 2 * (Arithmetic!B \div 2) /\ Arithmetic!B \div 2 \in Nat
                      /\ Arithmetic!D = Arithmetic!B * Arithmetic!B
<1>1. PICK b \in Nat : b > 1 /\ Arithmetic!B = 2 * b /\ Arithmetic!D = (2 * b) * (2 * b)
  BY DigitIs
<1>2. PICK half \in Nat : half = b * (2 * b)
  OBVIOUS
<1>3. (2 * b) * (2 * b) = 2 * (b * (2 * b))
  OBVIOUS
<1>4. 2 * b <= half
  <2>1. 1 * (2 * b) <= b * (2 * b)
    BY <1>1, ProductsGrow
  <2> QED BY <1>2, <2>1
<1>5. Arithmetic!D = 2 * half /\ Arithmetic!D \div 2 = half
  <2>1. Arithmetic!D = 2 * half
    BY <1>1, <1>2, <1>3
  <2> QED BY <2>1
<1>6. Arithmetic!Least = -half /\ Arithmetic!Greatest = half - 1
  BY <1>5 DEF Arithmetic!Least, Arithmetic!Greatest
<1>7. Arithmetic!B \div 2 = b
  BY <1>1
<1>8. /\ half > 1 /\ Arithmetic!B <= half /\ Arithmetic!B \in Nat /\ Arithmetic!B >= 4
      /\ Arithmetic!B \div 2 <= half /\ Arithmetic!B \div 2 < Arithmetic!B
      /\ Arithmetic!B = 2 * (Arithmetic!B \div 2) /\ Arithmetic!B \div 2 \in Nat
  <2>1. Arithmetic!B = 2 * b /\ b > 1 /\ 2 * b <= half /\ Arithmetic!B \div 2 = b
    BY <1>1, <1>4, <1>7
  <2> QED BY <2>1
<1> QED BY <1>1, <1>5, <1>6, <1>8

\* The result of a sign and a magnitude, when it can be represented.
LEMMA WithSignIs ==
    ASSUME NEW r \in Nat, r < Arithmetic!D, NEW s \in BOOLEAN, NEW v, v = (IF s THEN -r ELSE r),
           v \in Arithmetic!Least..Arithmetic!Greatest
    PROVE  Arithmetic!WithSign(r, s) = v
<1>1. PICK half \in Nat : /\ half > 1 /\ Arithmetic!D = 2 * half /\ Arithmetic!D \div 2 = half
                          /\ Arithmetic!Least = -half /\ Arithmetic!Greatest = half - 1
  BY EndsAre
<1>2. CASE ~s
  <2>1. v = r /\ r < half
    BY <1>1, <1>2
  <2>2. r % (2 * half) = r
    BY <1>1, <2>1, SmallModulo
  <2>3. Arithmetic!Signed(r) = r
    BY <1>1, <2>1 DEF Arithmetic!Signed
  <2> QED BY <1>1, <1>2, <2>1, <2>2, <2>3 DEF Arithmetic!WithSign
<1>3. CASE s
  <2>1. v = -r /\ r <= half
    BY <1>1, <1>3
  <2>2. PICK y : y = (-r) % (2 * half)
    OBVIOUS
  <2>3. y = IF r = 0 THEN 0 ELSE 2 * half - r
    BY <1>1, <2>1, <2>2
  <2>4. Arithmetic!Signed(y) = -r
    BY <1>1, <2>1, <2>3 DEF Arithmetic!Signed
  <2> QED BY <1>1, <1>3, <2>1, <2>2, <2>4 DEF Arithmetic!WithSign
<1> QED BY <1>2, <1>3

\* The magnitude of a number of a given size.
LEMMA AbsIs ==
    ASSUME NEW x \in Int, NEW size \in Nat, x < size, -x < size
    PROVE  /\ Arithmetic!Abs(x, size) = IF x >= 0 THEN x ELSE -x
           /\ Arithmetic!Abs(x, size) \in Nat
<1>1. PICK y \in Nat : y = (IF x >= 0 THEN x ELSE -x) /\ y < size
  OBVIOUS
<1>2. y % size = y
  BY <1>1, SmallModulo
<1> QED BY <1>1, <1>2 DEF Arithmetic!Abs

\* The answer r of a function that adds d to the product p with the sign s and divides by c.
Answered(p, d, s, c, r) ==
    \E m, uc : /\ IsSum(p, d, s, m) /\ uc = (IF c >= 0 THEN c ELSE -c)
               /\ r = IF uc <= m.p \div Arithmetic!D
                      THEN IF m.bSign # (c < 0) THEN Arithmetic!Least ELSE Arithmetic!Greatest
                      ELSE Arithmetic!WithSign(m.p \div uc, m.bSign # (c < 0))

\* Such an answer is right: the quotient when it can be represented, or the end of the
\* range on its side.
LEMMA AnswerIsRight ==
    ASSUME args.c \in Int, Arithmetic!Numerator \in Int,
           Arithmetic!Numerator < Arithmetic!D * Arithmetic!D * Arithmetic!D,
           -Arithmetic!Numerator < Arithmetic!D * Arithmetic!D * Arithmetic!D,
           args.c < Arithmetic!D * Arithmetic!D, -args.c < Arithmetic!D * Arithmetic!D,
           NEW p \in Nat, NEW d \in Int, NEW s \in BOOLEAN, NEW r, Answered(p, d, s, args.c, r),
           (IF s THEN -p ELSE p) + d = Arithmetic!Numerator
    PROVE  Arithmetic!RightFor(r)
<1>1. PICK n, c \in Int : n = Arithmetic!Numerator /\ c = args.c
  OBVIOUS
<1>2. PICK half \in Nat : /\ half > 1 /\ Arithmetic!D = 2 * half
                          /\ Arithmetic!Least = -half /\ Arithmetic!Greatest = half - 1
  BY EndsAre
<1>3. PICK m, uc : /\ IsSum(p, d, s, m) /\ uc = (IF c >= 0 THEN c ELSE -c)
                   /\ r = IF uc <= m.p \div Arithmetic!D
                          THEN IF m.bSign # (c < 0) THEN Arithmetic!Least ELSE Arithmetic!Greatest
                          ELSE Arithmetic!WithSign(m.p \div uc, m.bSign # (c < 0))
  BY <1>1 DEF Answered
<1>4. PICK a \in Nat, e \in BOOLEAN : a = m.p /\ e = m.bSign
  BY <1>3 DEF IsSum
<1>5. n = IF e THEN -a ELSE a
  <2>1. (IF s THEN -p ELSE p) + d = IF m.bSign THEN -m.p ELSE m.p
    BY <1>3 DEF IsSum
  <2> QED BY <1>1, <1>4, <2>1
<1>6. PICK bs \in BOOLEAN : bs <=> (e # (c < 0))
  OBVIOUS
<1>7. r = IF uc <= a \div Arithmetic!D THEN IF bs THEN -half ELSE half - 1 ELSE Arithmetic!WithSign(a \div uc, bs)
  <2>1. bs = (m.bSign # (c < 0))
    BY <1>4, <1>6
  <2> QED BY <1>2, <1>3, <1>4, <2>1
<1>8. uc \in Nat /\ (uc = 0 <=> c = 0)
  BY <1>3
<1>9. CASE c = 0
  <2>1. a \div Arithmetic!D \in Nat /\ uc = 0
    BY <1>2, <1>8, <1>9, EuclidIs
  <2>2. r = IF bs THEN -half ELSE half - 1
    BY <1>7, <2>1
  <2>3. bs <=> e
    BY <1>6, <1>9
  <2>4. r \in {-half, half - 1} /\ (r = -half <=> e)
    BY <1>2, <2>2, <2>3
  <2>5. n # 0 => (e <=> n < 0)
    BY <1>5
  <2>6. n # 0 => (r = -half <=> n < 0)
    BY <2>4, <2>5
  <2>7. n # 0 => (r = -half) = (n < 0)
    BY <2>6
  <2> QED BY <1>1, <1>2, <1>9, <2>4, <2>7 DEF Arithmetic!RightFor
<1>10. CASE c # 0
  <2>1. PICK k \in Nat : k = a \div uc
    BY <1>8, <1>10, EuclidIs
  <2>2. PICK q : q = Arithmetic!Quotient(n, c)
    OBVIOUS
  <2>3. q = IF (n < 0) # (c < 0) THEN -k ELSE k
    <3>1. a = IF n >= 0 THEN n ELSE -n
      BY <1>5
    <3>2. Arithmetic!Abs(n, Arithmetic!D * Arithmetic!D * Arithmetic!D) = a
      <4>1. PICK z \in Nat : z = Arithmetic!D * Arithmetic!D * Arithmetic!D
        BY <1>2
      <4> QED BY <1>1, <3>1, <4>1, AbsIs
    <3>3. Arithmetic!Abs(c, Arithmetic!D * Arithmetic!D) = uc
      <4>1. PICK z \in Nat : z = Arithmetic!D * Arithmetic!D
        BY <1>2
      <4> QED BY <1>1, <1>3, <4>1, AbsIs
    <3> QED BY <2>1, <2>2, <3>2, <3>3 DEF Arithmetic!Quotient
  <2>4. q = IF bs THEN -k ELSE k
    <3>1. CASE n = 0
      <4>1. a = 0
        BY <1>5, <3>1
      <4>2. k = 0
        BY <1>8, <1>10, <2>1, <4>1
      <4> QED BY <2>3, <4>2
    <3>2. CASE n # 0
      <4>1. e <=> n < 0
        BY <1>5, <3>2
      <4>2. bs <=> ((n < 0) # (c < 0))
        BY <1>6, <4>1
      <4> QED BY <2>3, <4>2
    <3> QED BY <3>1, <3>2
  <2>5. uc <= a \div Arithmetic!D <=> Arithmetic!D <= k
    <3>1. PICK dd \in Nat : dd = Arithmetic!D /\ dd > 0
      BY <1>2
    <3>2. uc <= a \div dd <=> uc * dd <= a
      BY <1>8, <3>1, QuotientReaches
    <3>3. dd <= a \div uc <=> dd * uc <= a
      BY <1>8, <1>10, <3>1, QuotientReaches
    <3>4. dd * uc = uc * dd
      BY <1>8
    <3> QED BY <2>1, <3>1, <3>2, <3>3, <3>4
  <2>6. CASE Arithmetic!D <= k
    <3>1. r = IF bs THEN -half ELSE half - 1
      BY <1>7, <2>5, <2>6
    <3>2. ~(q \in (-half)..(half - 1))
      BY <1>2, <2>4, <2>6
    <3>3. (q >= Arithmetic!D => r = half - 1) /\ (q <= -Arithmetic!D => r = -half)
      BY <1>2, <2>4, <2>6, <3>1
    <3> QED BY <1>1, <1>2, <1>10, <2>2, <3>2, <3>3 DEF Arithmetic!RightFor
  <2>7. CASE ~(Arithmetic!D <= k)
    <3>1. r = Arithmetic!WithSign(k, bs)
      BY <1>7, <2>1, <2>5, <2>7
    <3>2. k < Arithmetic!D
      BY <1>2, <2>7
    <3>3. q \in Arithmetic!Least..Arithmetic!Greatest => r = q
      BY <2>4, <3>1, <3>2, WithSignIs
    <3>4. ~(q >= Arithmetic!D) /\ ~(q <= -Arithmetic!D)
      BY <1>2, <2>4, <2>7
    <3> QED BY <1>1, <1>10, <2>2, <3>3, <3>4 DEF Arithmetic!RightFor
  <2> QED BY <2>6, <2>7
<1> QED BY <1>9, <1>10

-----------------------------------------------------------------------------
(* The two functions answer. *)

\* A signed number of the given size.
Fits(x, size) == x \in Int /\ x >= -(size \div 2) /\ x < size \div 2

\* The magnitude of a number that fits.
MagnitudeOf(x) == IF x >= 0 THEN x ELSE -x

\* The product of the magnitudes has the magnitude of the product, and its sign.
LEMMA SignOfProduct ==
    ASSUME NEW a \in Int, NEW b \in Int, NEW s, s = ((a < 0) # (b < 0)),
           NEW p, p = MagnitudeOf(a) * MagnitudeOf(b)
    PROVE  p \in Nat /\ s \in BOOLEAN /\ (IF s THEN -p ELSE p) = a * b
<1>1. PICK x, y \in Nat : /\ x = MagnitudeOf(a) /\ y = MagnitudeOf(b)
                          /\ a = (IF a < 0 THEN -x ELSE x) /\ b = (IF b < 0 THEN -y ELSE y)
  BY DEF MagnitudeOf
<1>2. PICK e \in Nat : e = x * y
  BY ProductsGrow
<1>3. p = e
  BY <1>1, <1>2
<1>4. a * b = IF (a < 0) # (b < 0) THEN -e ELSE e
  <2>1. /\ x * y = e /\ (-x) * y = -e /\ x * (-y) = -e /\ (-x) * (-y) = e
    BY <1>2
  <2>2. CASE a < 0 /\ b < 0
    <3>1. a = -x /\ b = -y
      BY <1>1, <2>2
    <3> QED BY <2>1, <2>2, <3>1
  <2>3. CASE a < 0 /\ ~(b < 0)
    <3>1. a = -x /\ b = y
      BY <1>1, <2>3
    <3> QED BY <2>1, <2>3, <3>1
  <2>4. CASE ~(a < 0) /\ b < 0
    <3>1. a = x /\ b = -y
      BY <1>1, <2>4
    <3> QED BY <2>1, <2>4, <3>1
  <2>5. CASE ~(a < 0) /\ ~(b < 0)
    <3>1. a = x /\ b = y
      BY <1>1, <2>5
    <3> QED BY <2>1, <2>5, <3>1
  <2> QED BY <2>2, <2>3, <2>4, <2>5
<1>5. s \in BOOLEAN
  OBVIOUS
<1> QED BY <1>2, <1>3, <1>4, <1>5

\* The magnitude of a number that fits is what Abs says, at most half of the range.
LEMMA AbsFits ==
    ASSUME NEW size \in Nat, NEW h \in Nat, h > 0, size = 2 * h, NEW x, Fits(x, size)
    PROVE  /\ Arithmetic!Abs(x, size) = MagnitudeOf(x) /\ MagnitudeOf(x) \in Nat
           /\ MagnitudeOf(x) <= h /\ x \in Int /\ x >= -h /\ x < h
<1>1. size \div 2 = h
  OBVIOUS
<1>2. x \in Int /\ x >= -h /\ x < h
  BY <1>1 DEF Fits
<1>3. x < size /\ -x < size
  BY <1>2
<1>4. Arithmetic!Abs(x, size) = MagnitudeOf(x)
  BY <1>2, <1>3, AbsIs DEF MagnitudeOf
<1> QED BY <1>2, <1>4 DEF MagnitudeOf

\* llMulDiv answers.
LEMMA LongAnswers ==
    ASSUME NEW a, NEW b, NEW c, NEW d, Fits(a, Arithmetic!D), Fits(b, Arithmetic!D),
           Fits(c, Arithmetic!D), Fits(d, Arithmetic!D)
    PROVE  Answered(MagnitudeOf(a) * MagnitudeOf(b), d, (a < 0) # (b < 0), c, Arithmetic!llMulDiv(a, b, c, d))
<1>1. PICK h \in Nat : /\ h > 1 /\ Arithmetic!D = 2 * h /\ Arithmetic!D \div 2 = h
                       /\ Arithmetic!B \in Nat /\ Arithmetic!B >= 4
  BY EndsAre
<1>2. Arithmetic!D \in Nat /\ h > 0
  BY <1>1
<1>3. PICK ua, ub, uc \in Nat :
         /\ ua = MagnitudeOf(a) /\ ua = Arithmetic!Abs(a, Arithmetic!D) /\ ua <= h
         /\ ub = MagnitudeOf(b) /\ ub = Arithmetic!Abs(b, Arithmetic!D) /\ ub <= h
         /\ uc = MagnitudeOf(c) /\ uc = Arithmetic!Abs(c, Arithmetic!D) /\ uc <= h
  BY <1>1, <1>2, AbsFits
<1>4. d \in Int /\ d >= -h /\ d < h /\ c \in Int
  BY <1>1, <1>2, AbsFits
<1>5. PICK p \in Nat : p = ua * ub /\ p <= h * h
  BY <1>3, ProductsGrow
<1>6. Arithmetic!Product(ua, ub) = p
  BY <1>1, <1>3, <1>5, ProductIs
<1>7. PICK s \in BOOLEAN : s = ((a < 0) # (b < 0))
  OBVIOUS
<1>8. PICK m : m = Arithmetic!Magnitude(p, d, s, Arithmetic!D * Arithmetic!D)
  OBVIOUS
<1>9. IsSum(p, d, s, m)
  <2>1. PICK e \in Nat : e = h * h /\ 2 * h <= e
    BY <1>1, ProductsGrow
  <2>2. PICK g \in Nat : g = 2 * e
    OBVIOUS
  <2>3. Arithmetic!D * Arithmetic!D = 2 * g
    <3>1. (2 * h) * (2 * h) = 2 * (2 * (h * h))
      OBVIOUS
    <3> QED BY <1>1, <2>1, <2>2, <3>1
  <2>4. p + d < g /\ p - d < g
    BY <1>1, <1>4, <1>5, <2>1, <2>2
  <2>5. PICK size : size = Arithmetic!D * Arithmetic!D
    OBVIOUS
  <2>6. size = 2 * g /\ m = Arithmetic!Magnitude(p, d, s, size)
    BY <1>8, <2>3, <2>5
  <2> QED BY <1>4, <2>4, <2>6, MagnitudeIs
<1>10. PICK mp \in Nat : mp = m.p
  BY <1>9 DEF IsSum
<1>11. PICK p1 \in Nat : p1 = mp \div Arithmetic!D
  BY <1>1, <1>2, EuclidIs
<1>12. PICK q : q = (CASE p1 = 0     -> mp \div uc
                       [] p1 # 0 /\ Arithmetic!Hi(uc) = 0 -> Arithmetic!ShortDivide(mp, uc)
                       [] OTHER      -> Arithmetic!LongDivide(mp, uc))
  OBVIOUS
<1>13. Arithmetic!llMulDiv(a, b, c, d)
          = IF uc <= p1 THEN IF m.bSign # (c < 0) THEN Arithmetic!Least ELSE Arithmetic!Greatest
                        ELSE Arithmetic!WithSign(q, m.bSign # (c < 0))
  BY <1>3, <1>6, <1>7, <1>8, <1>10, <1>11, <1>12 DEF Arithmetic!llMulDiv
<1>14. ASSUME ~(uc <= p1) PROVE q = mp \div uc
  <2>1. uc > 0 /\ mp \div Arithmetic!D < uc
    BY <1>11, <1>14
  <2>2. CASE p1 = 0
    BY <1>12, <2>2
  <2>3. CASE p1 # 0 /\ Arithmetic!Hi(uc) = 0
    <3>1. uc < Arithmetic!B
      <4>1. PICK l, k : l = Arithmetic!Lo(uc) /\ k = Arithmetic!Hi(uc)
        OBVIOUS
      <4>2. uc < Arithmetic!D
        BY <1>1, <1>3
      <4>3. l \in Nat /\ l < Arithmetic!B /\ uc = (k * Arithmetic!B) + l
        BY <4>1, <4>2, HiLo
      <4>4. k = 0
        BY <2>3, <4>1
      <4> QED BY <1>1, <4>3, <4>4
    <3>2. Arithmetic!ShortDivide(mp, uc) = mp \div uc
      BY <2>1, <3>1, ShortIs
    <3> QED BY <1>12, <2>3, <3>2
  <2>4. CASE p1 # 0 /\ ~(Arithmetic!Hi(uc) = 0)
    <3>1. Arithmetic!LongDivide(mp, uc) = mp \div uc
      BY <1>1, <1>3, <2>1, LongIs
    <3>2. q = Arithmetic!LongDivide(mp, uc)
      BY <1>12, <2>4
    <3> QED BY <3>1, <3>2
  <2> QED BY <2>2, <2>3, <2>4
<1>15. Arithmetic!llMulDiv(a, b, c, d)
          = IF uc <= m.p \div Arithmetic!D THEN IF m.bSign # (c < 0) THEN Arithmetic!Least ELSE Arithmetic!Greatest
                        ELSE Arithmetic!WithSign(m.p \div uc, m.bSign # (c < 0))
  BY <1>10, <1>11, <1>13, <1>14
<1>16. Answered(p, d, s, c, Arithmetic!llMulDiv(a, b, c, d))
  <2>1. uc = (IF c >= 0 THEN c ELSE -c)
    BY <1>3 DEF MagnitudeOf
  <2> QED BY <1>9, <1>15, <2>1 DEF Answered
<1> QED BY <1>3, <1>5, <1>7, <1>16

\* The product of three digits.
LEMMA ThreeDigits ==
    ASSUME NEW ua \in Nat, NEW ub \in Nat, ua < Arithmetic!D, ub <= Arithmetic!B \div 2,
           NEW low, low = Arithmetic!Lo(ua) * ub, NEW x, x = Arithmetic!Hi(ua) * ub + Arithmetic!Hi(low)
    PROVE  Arithmetic!Hi(x) * Arithmetic!D + Arithmetic!Lo(x) * Arithmetic!B + Arithmetic!Lo(low) = ua * ub
<1>1. PICK b, g \in Nat : /\ b = Arithmetic!B /\ g = b \div 2 /\ b = 2 * g /\ g >= 2
                          /\ Arithmetic!D = b * b
  BY EndsAre
<1>2. PICK h, l \in Nat : /\ h = Arithmetic!Hi(ua) /\ l = Arithmetic!Lo(ua) /\ h < b /\ l < b
                          /\ ua = (h * b) + l
  BY <1>1, HiLo
<1>3. PICK t \in Nat : t = b - 1
  BY <1>1
<1>4. PICK tg \in Nat : tg = t * g /\ tg + t < b * b
  <2>1. PICK e \in Nat : e = t * g
    BY ProductsGrow
  <2>2. b * b = (t + 1) * (2 * g)
    BY <1>1, <1>3
  <2>3. (t + 1) * (2 * g) = (2 * (t * g)) + (2 * g)
    OBVIOUS
  <2>4. t < 2 * g
    BY <1>1, <1>3
  <2>5. b * b = (2 * e) + (2 * g)
    BY <2>1, <2>2, <2>3
  <2>6. e + t < (2 * e) + (2 * g)
    BY <2>4
  <2> QED BY <2>1, <2>5, <2>6
<1>5. low \in Nat /\ low = l * ub /\ low <= tg
  <2>1. l <= t /\ ub <= g
    BY <1>1, <1>2, <1>3
  <2>2. l * ub \in Nat /\ l * ub <= t * g
    BY <2>1, ProductsGrow
  <2> QED BY <1>2, <1>4, <2>2
<1>6. low < Arithmetic!D
  BY <1>1, <1>3, <1>4, <1>5
<1>7. PICK u, v \in Nat : /\ u = Arithmetic!Hi(low) /\ v = Arithmetic!Lo(low) /\ u < b /\ low = (u * b) + v
  BY <1>1, <1>5, <1>6, HiLo
<1>8. x \in Nat /\ x = (h * ub) + u /\ x < Arithmetic!D
  <2>1. h <= t /\ ub <= g /\ u <= t
    BY <1>1, <1>2, <1>3, <1>7
  <2>2. PICK e \in Nat : e = h * ub /\ e <= tg
    BY <1>4, <2>1, ProductsGrow
  <2>3. x = e + u
    BY <1>2, <1>7, <2>2
  <2> QED BY <1>1, <1>4, <2>1, <2>2, <2>3
<1>9. PICK y, z \in Nat : y = Arithmetic!Hi(x) /\ z = Arithmetic!Lo(x) /\ x = (y * b) + z
  BY <1>1, <1>8, HiLo
<1>10. ((y * (b * b)) + (z * b)) + v = ua * ub
  <2>1. (y * (b * b)) + (z * b) = ((y * b) + z) * b
    OBVIOUS
  <2>2. ((y * b) + z) * b = ((h * ub) + u) * b
    BY <1>8, <1>9
  <2>3. ((h * ub) + u) * b + v = ((h * b) * ub) + ((u * b) + v)
    OBVIOUS
  <2>4. ((h * b) * ub) + (l * ub) = ((h * b) + l) * ub
    OBVIOUS
  <2>5. (u * b) + v = l * ub
    BY <1>5, <1>7
  <2>6. PICK e1, e2, e3 \in Int :
           /\ e1 = (y * (b * b)) + (z * b) /\ e2 = ((h * ub) + u) * b /\ e3 = (h * b) * ub
    OBVIOUS
  <2>7. e1 = e2
    BY <2>1, <2>2, <2>6
  <2>8. e2 + v = e3 + (l * ub)
    BY <2>3, <2>5, <2>6
  <2>9. e3 + (l * ub) = ua * ub
    BY <1>2, <2>4, <2>6
  <2> QED BY <2>6, <2>7, <2>8, <2>9
<1> QED BY <1>1, <1>7, <1>9, <1>10

\* Int64x32Div32 answers.
LEMMA ShortAnswers ==
    ASSUME NEW a, NEW b, NEW c, NEW d, Fits(a, Arithmetic!D), Fits(b, Arithmetic!B),
           Fits(c, Arithmetic!B), Fits(d, Arithmetic!B)
    PROVE  Answered(MagnitudeOf(a) * MagnitudeOf(b), d, (a < 0) # (b < 0), c, Arithmetic!Int64x32Div32(a, b, c, d))
<1>1. PICK h, g \in Nat : /\ h > 1 /\ Arithmetic!D = 2 * h
                          /\ g = Arithmetic!B \div 2 /\ Arithmetic!B = 2 * g /\ g >= 2
  BY EndsAre
<1>2. Arithmetic!D \in Nat /\ h > 0 /\ Arithmetic!B \in Nat /\ g > 0
  BY <1>1
<1>3. PICK ua, ub, uc \in Nat :
         /\ ua = MagnitudeOf(a) /\ ua = Arithmetic!Abs(a, Arithmetic!D) /\ ua <= h
         /\ ub = MagnitudeOf(b) /\ ub = Arithmetic!Abs(b, Arithmetic!B) /\ ub <= g
         /\ uc = MagnitudeOf(c) /\ uc = Arithmetic!Abs(c, Arithmetic!B) /\ uc <= g
  BY <1>1, <1>2, AbsFits
<1>4. d \in Int /\ d >= -g /\ d < g /\ c \in Int
  BY <1>1, <1>2, AbsFits
<1>5. PICK p \in Nat : p = ua * ub /\ p <= h * g
  BY <1>3, ProductsGrow
<1>6. PICK low, x : low = Arithmetic!Lo(ua) * ub /\ x = Arithmetic!Hi(ua) * ub + Arithmetic!Hi(low)
  OBVIOUS
<1>7. Arithmetic!Hi(x) * Arithmetic!D + Arithmetic!Lo(x) * Arithmetic!B + Arithmetic!Lo(low) = p
  <2>1. ua < Arithmetic!D /\ ub <= Arithmetic!B \div 2
    BY <1>1, <1>3
  <2> QED BY <1>5, <1>6, <2>1, ThreeDigits
<1>8. PICK s \in BOOLEAN : s = ((a < 0) # (b < 0))
  OBVIOUS
<1>9. PICK m : m = Arithmetic!Magnitude(p, d, s, Arithmetic!D * Arithmetic!B)
  OBVIOUS
<1>10. IsSum(p, d, s, m)
  <2>1. PICK e \in Nat : e = h * g /\ 2 * g <= e
    BY <1>1, ProductsGrow
  <2>2. PICK half \in Nat : half = 2 * e
    OBVIOUS
  <2>3. Arithmetic!D * Arithmetic!B = 2 * half
    <3>1. (2 * h) * (2 * g) = 2 * (2 * (h * g))
      OBVIOUS
    <3> QED BY <1>1, <2>1, <2>2, <3>1
  <2>4. p + d < half /\ p - d < half
    BY <1>1, <1>4, <1>5, <2>1, <2>2
  <2>5. PICK size : size = Arithmetic!D * Arithmetic!B
    OBVIOUS
  <2>6. size = 2 * half /\ m = Arithmetic!Magnitude(p, d, s, size)
    BY <1>9, <2>3, <2>5
  <2> QED BY <1>4, <2>4, <2>6, MagnitudeIs
<1>11. PICK mp \in Nat : mp = m.p
  BY <1>10 DEF IsSum
<1>12. PICK p1 \in Nat : p1 = mp \div Arithmetic!D
  BY <1>1, <1>2, EuclidIs
<1>13. Arithmetic!Int64x32Div32(a, b, c, d)
          = IF uc <= p1 THEN IF m.bSign # (c < 0) THEN Arithmetic!Least ELSE Arithmetic!Greatest
                        ELSE Arithmetic!WithSign(Arithmetic!ShortDivide(mp, uc), m.bSign # (c < 0))
  BY <1>3, <1>6, <1>7, <1>8, <1>9, <1>11, <1>12 DEF Arithmetic!Int64x32Div32
<1>14. ASSUME ~(uc <= p1) PROVE Arithmetic!ShortDivide(mp, uc) = mp \div uc
  <2>1. uc > 0 /\ mp \div Arithmetic!D < uc /\ uc < Arithmetic!B
    BY <1>1, <1>3, <1>12, <1>14
  <2> QED BY <2>1, ShortIs
<1>15. Arithmetic!Int64x32Div32(a, b, c, d)
          = IF uc <= m.p \div Arithmetic!D THEN IF m.bSign # (c < 0) THEN Arithmetic!Least ELSE Arithmetic!Greatest
                        ELSE Arithmetic!WithSign(m.p \div uc, m.bSign # (c < 0))
  BY <1>11, <1>12, <1>13, <1>14
<1>16. Answered(p, d, s, c, Arithmetic!Int64x32Div32(a, b, c, d))
  <2>1. uc = (IF c >= 0 THEN c ELSE -c)
    BY <1>3 DEF MagnitudeOf
  <2> QED BY <1>10, <1>15, <2>1 DEF Answered
<1> QED BY <1>3, <1>5, <1>8, <1>16

-----------------------------------------------------------------------------
(* The invariant of the arithmetic. *)

\* The arguments have their width.
ArgumentsFit ==
    /\ Fits(args.a, Arithmetic!D) /\ Fits(args.b, Arithmetic!D)
    /\ Fits(args.c, Arithmetic!D) /\ Fits(args.d, Arithmetic!D)

\* The arguments have their width, and what was computed from them is right.
ArithmeticInv ==
    ArgumentsFit /\ done \in BOOLEAN /\ Arithmetic!QuotientsRight

\* What an answer needs to be right: numbers that fit.
LEMMA AnswersAreRight ==
    ASSUME ArgumentsFit, NEW r,
           Answered(MagnitudeOf(args.a) * MagnitudeOf(args.b), args.d, (args.a < 0) # (args.b < 0), args.c, r)
    PROVE  Arithmetic!RightFor(r)
<1>1. PICK h \in Nat : h > 1 /\ Arithmetic!D = 2 * h
  BY EndsAre
<1>2. PICK a, b, c, d : a = args.a /\ b = args.b /\ c = args.c /\ d = args.d
  OBVIOUS
<1>3. /\ a \in Int /\ b \in Int
      /\ c \in Int /\ c >= -h /\ c < h /\ d \in Int /\ d >= -h /\ d < h
      /\ MagnitudeOf(a) \in Nat /\ MagnitudeOf(a) <= h /\ MagnitudeOf(b) \in Nat /\ MagnitudeOf(b) <= h
  <2>1. Fits(a, Arithmetic!D) /\ Fits(b, Arithmetic!D) /\ Fits(c, Arithmetic!D) /\ Fits(d, Arithmetic!D)
    BY <1>2 DEF ArgumentsFit
  <2>2. Arithmetic!D \in Nat /\ h > 0
    BY <1>1
  <2> QED BY <1>1, <2>1, <2>2, AbsFits
<1>4. PICK p, s : p = MagnitudeOf(a) * MagnitudeOf(b) /\ s = ((a < 0) # (b < 0))
  OBVIOUS
<1>5. p \in Nat /\ s \in BOOLEAN /\ (IF s THEN -p ELSE p) = a * b
  BY <1>3, <1>4, SignOfProduct
<1>6. PICK e \in Nat : e = h * h /\ 2 * h <= e
  BY <1>1, ProductsGrow
<1>7. p <= e
  BY <1>3, <1>4, <1>6, ProductsGrow
<1>8. PICK n \in Int : n = Arithmetic!Numerator /\ n = (IF s THEN -p ELSE p) + d
  <2>1. (IF s THEN -p ELSE p) + d \in Int
    BY <1>3, <1>5
  <2>2. Arithmetic!Numerator = (IF s THEN -p ELSE p) + d
    BY <1>2, <1>5 DEF Arithmetic!Numerator
  <2> QED BY <2>1, <2>2
<1>9. n < 2 * e /\ -n < 2 * e
  BY <1>1, <1>3, <1>5, <1>6, <1>7, <1>8
<1>10. PICK dd, ddd \in Nat : /\ dd = Arithmetic!D * Arithmetic!D /\ ddd = Arithmetic!D * Arithmetic!D * Arithmetic!D
                              /\ 2 * e <= ddd /\ h <= dd
  <2>1. Arithmetic!D * Arithmetic!D = 4 * e
    <3>1. (2 * h) * (2 * h) = 4 * (h * h)
      OBVIOUS
    <3> QED BY <1>1, <1>6, <3>1
  <2>2. PICK k \in Nat : k = e * h /\ e <= k
    <3>1. e * 1 <= e * h
      BY <1>1, ProductsGrow
    <3>2. e * h \in Nat /\ e * 1 = e
      BY ProductsGrow
    <3> QED BY <3>1, <3>2
  <2>3. Arithmetic!D * Arithmetic!D * Arithmetic!D = 8 * k
    <3>1. (4 * e) * (2 * h) = 8 * (e * h)
      OBVIOUS
    <3> QED BY <1>1, <2>1, <2>2, <3>1
  <2> QED BY <1>1, <1>6, <2>1, <2>2, <2>3
<1>11. /\ c \in Int /\ n < ddd /\ -n < ddd /\ c < dd /\ -c < dd
  BY <1>1, <1>3, <1>9, <1>10
<1>12. Answered(p, d, s, c, r)
  BY <1>2, <1>4
<1>13. /\ args.c \in Int /\ Arithmetic!Numerator \in Int
       /\ Arithmetic!Numerator < Arithmetic!D * Arithmetic!D * Arithmetic!D
       /\ -Arithmetic!Numerator < Arithmetic!D * Arithmetic!D * Arithmetic!D
       /\ args.c < Arithmetic!D * Arithmetic!D /\ -args.c < Arithmetic!D * Arithmetic!D
  BY <1>2, <1>8, <1>10, <1>11
<1>14. Answered(p, d, s, args.c, r) /\ (IF s THEN -p ELSE p) + d = Arithmetic!Numerator
  BY <1>2, <1>8, <1>12
<1> QED BY <1>3, <1>5, <1>13, <1>14, AnswerIsRight

\* The numbers near some places, of a size, fit it.
LEMMA NearFits ==
    ASSUME NEW places, places \subseteq Int, NEW size, NEW x \in Arithmetic!Near(places, size)
    PROVE  Fits(x, size)
<1>1. x \in { p + e : p \in places, e \in -1..1 } /\ x >= -(size \div 2) /\ x < size \div 2
  BY DEF Arithmetic!Near
<1>2. PICK p \in places, e \in -1..1 : x = p + e
  BY <1>1
<1>3. p \in Int /\ e \in Int
  BY <1>2
<1>4. x \in Int
  BY <1>2, <1>3
<1> QED BY <1>1, <1>4 DEF Fits

\* The arguments fit.
LEMMA ArgumentsStart ==
    ASSUME Arithmetic!Init \/ Arithmetic!Asked({ Zero })
    PROVE  ArithmeticInv
<1>1. PICK h, g \in Nat : /\ h > 1 /\ Arithmetic!D = 2 * h /\ Arithmetic!D \div 2 = h
                          /\ Arithmetic!B \in Nat /\ Arithmetic!B \div 2 = g
  BY EndsAre
<1>2. done = FALSE
  BY DEF Arithmetic!Init, Arithmetic!Asked
<1>3. ASSUME NEW x \in Arithmetic!LongLongs PROVE Fits(x, Arithmetic!D)
  <2> DEFINE places == { -(Arithmetic!D \div 2), -Arithmetic!B, 0, Arithmetic!B \div 2, Arithmetic!B,
                         Arithmetic!D \div 4, Arithmetic!D \div 2 }
  <2>1. places \subseteq Int
    BY <1>1
  <2>2. x \in Arithmetic!Near(places, Arithmetic!D)
    BY <1>3 DEF Arithmetic!LongLongs
  <2> HIDE DEF places
  <2> QED BY <2>1, <2>2, NearFits
<1>4. Fits(0, Arithmetic!D)
  BY <1>1 DEF Fits
<1>5. ArgumentsFit
  <2>1. CASE Arithmetic!Init
    <3>1. /\ args.a \in Arithmetic!LongLongs /\ args.b \in Arithmetic!LongLongs
          /\ args.c \in Arithmetic!LongLongs /\ args.d \in Arithmetic!LongLongs
      BY <2>1 DEF Arithmetic!Init, Arithmetic!Asked
    <3> QED BY <1>3, <3>1 DEF ArgumentsFit
  <2>2. CASE Arithmetic!Asked({ Zero })
    <3>1. args.a = 0 /\ args.b = 0 /\ args.c = 0 /\ args.d = 0
      BY <2>2 DEF Arithmetic!Asked, Zero
    <3> QED BY <1>4, <3>1 DEF ArgumentsFit
  <2> QED BY <2>1, <2>2
<1> QED BY <1>2, <1>5 DEF ArithmeticInv, Arithmetic!QuotientsRight

\* The arithmetic keeps its invariant: what it computes is right.
LEMMA ArithmeticStep ==
    ASSUME ArithmeticInv, Arithmetic!Next
    PROVE  ArithmeticInv'
<1>1. /\ done' = TRUE /\ args' = args
      /\ long' = Arithmetic!llMulDiv(args.a, args.b, args.c, args.d)
      /\ short' = IF Arithmetic!Small THEN Arithmetic!Int64x32Div32(args.a, args.b, args.c, args.d) ELSE 0
  BY DEF Arithmetic!Next, Arithmetic!Compute
<1>2. ArgumentsFit
  BY DEF ArithmeticInv
<1>3. ArgumentsFit'
  BY <1>1, <1>2 DEF ArgumentsFit
<1>4. Arithmetic!RightFor(Arithmetic!llMulDiv(args.a, args.b, args.c, args.d))
  <2>1. /\ Fits(args.a, Arithmetic!D) /\ Fits(args.b, Arithmetic!D)
        /\ Fits(args.c, Arithmetic!D) /\ Fits(args.d, Arithmetic!D)
    BY <1>2 DEF ArgumentsFit
  <2> QED BY <1>2, <2>1, LongAnswers, AnswersAreRight
<1>5. ASSUME Arithmetic!Small
      PROVE  Arithmetic!RightFor(Arithmetic!Int64x32Div32(args.a, args.b, args.c, args.d))
  <2>1. /\ args.b \in Arithmetic!Longs /\ args.c \in Arithmetic!Longs /\ args.d \in Arithmetic!Longs
    BY <1>5 DEF Arithmetic!Small
  <2>2. ASSUME NEW x \in Arithmetic!Longs PROVE Fits(x, Arithmetic!B)
    <3> DEFINE places == { -(Arithmetic!B \div 2), 0, Arithmetic!B \div 2 }
    <3>1. places \subseteq Int
      BY EndsAre
    <3>2. x \in Arithmetic!Near(places, Arithmetic!B)
      BY <2>2 DEF Arithmetic!Longs
    <3> HIDE DEF places
    <3> QED BY <3>1, <3>2, NearFits
  <2>3. Fits(args.a, Arithmetic!D) /\ Fits(args.b, Arithmetic!B) /\ Fits(args.c, Arithmetic!B) /\ Fits(args.d, Arithmetic!B)
    BY <1>2, <2>1, <2>2 DEF ArgumentsFit
  <2> QED BY <1>2, <2>3, ShortAnswers, AnswersAreRight
<1>6. Arithmetic!RightFor(long)' /\ (Arithmetic!Small' => Arithmetic!RightFor(short)')
  <2>1. /\ Arithmetic!RightFor(long)' = Arithmetic!RightFor(long')
        /\ Arithmetic!RightFor(short)' = Arithmetic!RightFor(short') /\ Arithmetic!Small' = Arithmetic!Small
    BY <1>1 DEF Arithmetic!RightFor, Arithmetic!Numerator, Arithmetic!Small
  <2> QED BY <1>1, <1>4, <1>5, <2>1
<1> QED BY <1>1, <1>3, <1>6 DEF ArithmeticInv, Arithmetic!QuotientsRight

\* The arithmetic stays as it is while its arguments and results do.
LEMMA ArithmeticAtRest == ArithmeticInv /\ UNCHANGED argVars => ArithmeticInv'
BY DEF ArithmeticInv, ArgumentsFit, argVars, Arithmetic!QuotientsRight, Arithmetic!RightFor,
       Arithmetic!Numerator, Arithmetic!Small

-----------------------------------------------------------------------------
(* The tools together. *)

\* What is true of the four, whichever is at work.
ToolsInv == PinInv /\ TypeInv /\ RegistryInv /\ SampleInv /\ ArithmeticInv

\* A tool at rest stays as it is.
LEMMA PinsAtRest == PinInv /\ UNCHANGED pinVars => PinInv'
BY DEF PinInv, pinVars, PinsTyped, CacheInv, PassedInv, CaughtUp

LEMMA TypesAtRest == TypeInv /\ UNCHANGED typeVars => TypeInv'
BY DEF TypeInv, typeVars, TypesTyped, SeenInv, Trusted, Follows

LEMMA RegistryAtRest == RegistryInv /\ UNCHANGED registryVars => RegistryInv'
BY DEF RegistryInv, registryVars, RegistryTyped, ServedInv, LastInv, TrueOf, CallInv, RegisterInv,
       UnregisterInv, ServersDone, FilterKey, PageKey, Entry

LEMMA SampleAtRest == SampleInv /\ UNCHANGED sampleVars => SampleInv'
BY DEF SampleInv, sampleVars, MemoryTyped, OwnersInv, TypeFlagInv, TimesInv, Sample!Contents

LEMMA ToolsStep ==
    ASSUME ToolsInv, [MCNext]_<< part, vars, pageVars, toolVars >>
    PROVE  ToolsInv'
<1> USE DEF ToolsInv, toolVars
<1>1. CASE UNCHANGED toolVars
  BY <1>1, PinsAtRest, TypesAtRest, RegistryAtRest, SampleAtRest, ArithmeticAtRest
<1>2. CASE Listing!Next /\ UNCHANGED << pinVars, typeVars, registryVars, sampleVars, argVars >>
  BY <1>2, PinsAtRest, TypesAtRest, RegistryAtRest, SampleAtRest, ArithmeticAtRest
<1>3. CASE Pinning!Next /\ UNCHANGED << listVars, typeVars, registryVars, sampleVars, argVars >>
  BY <1>3, NextKeepsPins, TypesAtRest, RegistryAtRest, SampleAtRest, ArithmeticAtRest
<1>4. CASE Typing!Next /\ UNCHANGED << listVars, pinVars, registryVars, sampleVars, argVars >>
  BY <1>4, NextKeepsTypes, PinsAtRest, RegistryAtRest, SampleAtRest, ArithmeticAtRest
<1>5. CASE Registry!Next /\ UNCHANGED << listVars, pinVars, typeVars, sampleVars, argVars >>
  BY <1>5, NextKeepsRegistry, PinsAtRest, TypesAtRest, SampleAtRest, ArithmeticAtRest
<1>6. CASE Sample!Next /\ UNCHANGED << listVars, pinVars, typeVars, registryVars, argVars >>
  BY <1>6, NextKeepsSample, PinsAtRest, TypesAtRest, RegistryAtRest, ArithmeticAtRest
<1>7. CASE Arithmetic!Next /\ UNCHANGED << listVars, pinVars, typeVars, registryVars, sampleVars >>
  BY <1>7, ArithmeticStep, PinsAtRest, TypesAtRest, RegistryAtRest, SampleAtRest
<1>8. CASE ToolNext
  BY <1>2, <1>3, <1>4, <1>5, <1>6, <1>7, <1>8, Zenon DEF ToolNext
<1> QED BY <1>1, <1>8, Zenon DEF MCNext

\* For any pins, types, blocks of memory and formats, whatever is at work: an enumerator
\* gives out no pin twice between two Resets and all of them when it ends in sync, and
\* the types in order; the filter is with the mapper only while the server it needs can
\* be created (in ScreenCam's own RegisterFilters that of its last class), and the
\* results of registering are true as far as they go; every block of memory has one
\* owner, an interface is counted once for each type that has it, less once for each copy
\* that failed half way, and a sample reports a type and, unless its client declared an
\* end it did not give, times of its present life only; and for any width of a DWORD and
\* any arguments a quotient that can be represented is right, in both functions, and
\* one that needs more bits than there are is answered by the end of the range on its side.
THEOREM ToolsHold == MCSpec => []ToolsSound
<1>1. MCInit => ToolsInv
  BY PinInit, TypesInit, RegistryInit, SampleInit, ArgumentsStart, Zenon DEF MCInit, ToolsInv
<1>2. ToolsInv /\ [MCNext]_<< part, vars, pageVars, toolVars >> => ToolsInv'
  BY ToolsStep
<1>3. ToolsInv => ToolsSound
  BY PinInvSound, TypeInvSound, RegistryInvSound, SampleInvSound DEF ToolsInv, ToolsSound, ArithmeticInv
<1> QED BY <1>1, <1>2, <1>3, PTL DEF MCSpec

-----------------------------------------------------------------------------
(* The frame clock. *)

USE LengthAssumption, TimeAssumption, OvershootAssumption

\* A frame length is a number between the two bounds.
LEMMA LengthIsNat ==
    ASSUME NEW l \in Length
    PROVE  l \in Nat /\ MinLength <= l /\ l <= MaxLength
BY DEF Length

\* Half a frame length, rounded down.
LEMMA HalfALength ==
    ASSUME NEW l \in Length
    PROVE  l \div 2 \in Nat /\ l \div 2 <= l
<1>1. l \in Nat
  BY LengthIsNat
<1> QED
  BY <1>1, Z3

\* One more frame adds one frame length: the only product in the module.
LEMMA OneMoreFrame ==
    ASSUME NEW n \in Nat
    PROVE  /\ n * MinLength \in Nat
           /\ (n + 1) * MinLength = n * MinLength + MinLength
           /\ 0 * MinLength = 0
BY Z3

-----------------------------------------------------------------------------
(* Types: the numbers and the flags apart. *)

Numbers ==
    /\ m_previousFrameEndTime \in Nat
    /\ m_rtFrameLength \in Length
    /\ streamTime \in Int /\ high \in Int
    /\ -Lead <= streamTime /\ streamTime <= high /\ high <= Latest
    /\ start \in Int /\ end \in Int
    /\ inRow \in Nat /\ lastLength \in Nat

Flags ==
    /\ hasClock \in BOOLEAN /\ waiting \in BOOLEAN
    /\ stamped \in BOOLEAN /\ setBack \in BOOLEAN

\* The type invariant is the numbers and the flags.
LEMMA TypeSplit == TypeOK <=> Numbers /\ Flags
<1>1. (streamTime \in -Lead .. Latest /\ high \in -Lead .. Latest /\ streamTime <= high)
        <=> ( /\ streamTime \in Int /\ high \in Int
              /\ -Lead <= streamTime /\ streamTime <= high /\ high <= Latest )
  OBVIOUS
<1> QED
  BY <1>1 DEF TypeOK, Numbers, Flags

\* The streaming thread starts with well-typed values.
LEMMA TypeInit == Init => TypeOK
<1> SUFFICES ASSUME Init PROVE Numbers /\ Flags
  BY TypeSplit
<1>1. Numbers
  BY DEF Init, Numbers
<1>2. Flags
  BY DEF Init, Flags
<1> QED
  BY <1>1, <1>2

\* Every step keeps the flags Boolean.
LEMMA FlagsStep == Flags /\ [Next]_vars => Flags'
BY DEF Flags, Next, vars, OnThreadCreate, Restart, Advance, Rewind, SetSyncSource, SetFrameLength,
       WaitForSchedule, StampAfterWait, StampAtOnce, Stamp

\* Every step keeps the numbers in their ranges.
LEMMA NumbersStep == Numbers /\ [Next]_vars => Numbers'
<1> SUFFICES ASSUME Numbers, [Next]_vars PROVE Numbers'
  OBVIOUS
<1> USE DEF Numbers
<1>1. CASE OnThreadCreate
  BY <1>1 DEF OnThreadCreate, Restart
<1>2. CASE Advance
  BY <1>2 DEF Advance, Larger
<1>3. CASE Rewind
  BY <1>3 DEF Rewind
<1>4. CASE SetSyncSource \/ SetFrameLength
  BY <1>4, LengthIsNat DEF SetSyncSource, SetFrameLength
<1>5. CASE WaitForSchedule
  BY <1>5 DEF WaitForSchedule
<1>6. CASE StampAfterWait
  BY <1>6, LengthIsNat DEF StampAfterWait, Stamp, Larger
<1>7. CASE StampAtOnce
  BY <1>7, LengthIsNat, HalfALength DEF StampAtOnce, Stamp, Larger, Now
<1>8. CASE UNCHANGED vars
  BY <1>8 DEF vars
<1> QED
  BY <1>1, <1>2, <1>3, <1>4, <1>5, <1>6, <1>7, <1>8 DEF Next

\* Every variable keeps its type; in particular the schedule never becomes
\* negative, which FillBuffer's max(0, ...) is for.
THEOREM TypeCorrect == Spec => []TypeOK
<1>1. TypeOK /\ [Next]_vars => TypeOK'
  <2> SUFFICES ASSUME TypeOK, [Next]_vars PROVE TypeOK'
    OBVIOUS
  <2>1. Numbers' /\ Flags'
    BY TypeSplit, NumbersStep, FlagsStep
  <2>2. TypeOK' <=> Numbers' /\ Flags'
    BY TypeSplit, PTL
  <2> QED
    BY <2>1, <2>2
<1> QED
  BY TypeInit, <1>1, PTL DEF Spec

-----------------------------------------------------------------------------
(* The schedule stays close to the stream time. *)

\* The schedule starts at zero.
LEMMA ScheduleInit == Init => ScheduleNotAhead
BY DEF Init, ScheduleNotAhead, Larger

\* No step of FillBuffer moves the schedule too far ahead.
LEMMA ScheduleStep == Numbers /\ ScheduleNotAhead /\ [Next]_vars => ScheduleNotAhead'
<1> SUFFICES ASSUME Numbers, ScheduleNotAhead, [Next]_vars PROVE ScheduleNotAhead'
  OBVIOUS
<1> USE DEF Numbers, ScheduleNotAhead, Larger
<1>1. CASE OnThreadCreate
  <2>1. m_previousFrameEndTime' = 0 /\ high' \in Int
    BY <1>1 DEF OnThreadCreate, Restart
  <2>2. MaxLength <= Larger(high', MaxLength) /\ Larger(high', MaxLength) \in Int
    BY <2>1
  <2>3. 0 <= Larger(high', MaxLength) + MaxLength
    BY <2>2
  <2> QED
    BY <2>1, <2>3
<1>2. CASE Advance
  BY <1>2 DEF Advance
<1>3. CASE Rewind \/ SetSyncSource \/ SetFrameLength \/ WaitForSchedule \/ UNCHANGED vars
  BY <1>3 DEF Rewind, SetSyncSource, SetFrameLength, WaitForSchedule, vars
<1>4. CASE StampAfterWait
  \* A wait ends when the stream time has reached the schedule.
  <2>1. m_rtFrameLength \in Nat /\ m_rtFrameLength <= MaxLength
    BY LengthIsNat
  <2>2. m_previousFrameEndTime <= high /\ high' = high
    BY <1>4 DEF StampAfterWait
  <2>3. m_previousFrameEndTime' = m_previousFrameEndTime + m_rtFrameLength
    BY <1>4, <2>1 DEF StampAfterWait
  <2> QED
    BY <2>1, <2>2, <2>3
<1>5. CASE StampAtOnce
  \* The stream time has reached the schedule, or it is not positive.
  <2>1. Now \in Int /\ Now <= Larger(high, 0) /\ (Now <= 0 \/ Now >= m_previousFrameEndTime)
    BY <1>5 DEF StampAtOnce, IsEarly, Now
  <2>2. m_rtFrameLength \in Nat /\ m_rtFrameLength <= MaxLength
    BY LengthIsNat
  <2>3. CASE NearSchedule
    BY <1>5, <2>1, <2>2, <2>3 DEF StampAtOnce, NearSchedule
  <2>4. CASE ~NearSchedule
    BY <1>5, <2>1, <2>2, <2>4, HalfALength DEF StampAtOnce
  <2> QED
    BY <2>3, <2>4
<1> QED
  BY <1>1, <1>2, <1>3, <1>4, <1>5 DEF Next

\* The wait of FillBuffer is bounded: the schedule is never more than one frame
\* ahead of the greatest stream time, or two frames ahead of zero.
THEOREM ScheduleBounded == Spec => []ScheduleNotAhead
<1>1. TypeOK => Numbers
  BY TypeSplit
<1> QED
  BY <1>1, TypeCorrect, ScheduleInit, ScheduleStep, PTL DEF Spec

-----------------------------------------------------------------------------
(* The frame rate. *)

\* The schedule counts the frames of the row.
ScheduleCountsFrames == m_previousFrameEndTime >= inRow * MinLength

RateInv == ScheduleCountsFrames /\ RateBounded

\* Nothing is counted before the first frame.
LEMMA RateInit == Init => RateInv
BY OneMoreFrame DEF Init, RateInv, ScheduleCountsFrames, RateBounded

\* A sample stamped at time t, with the schedule moved to at least p.
LEMMA RateStamp ==
    ASSUME Numbers, ScheduleCountsFrames,
           NEW t \in Int, start' = t,
           inRow' = IF t > 0 THEN inRow + 1 ELSE 0,
           m_previousFrameEndTime' \in Nat,
           t > 0 => t >= m_previousFrameEndTime,
           t > 0 => m_previousFrameEndTime' >= m_previousFrameEndTime + MinLength
    PROVE  RateInv'
<1>1. inRow * MinLength \in Nat /\ (inRow + 1) * MinLength = inRow * MinLength + MinLength
        /\ 0 * MinLength = 0
  BY OneMoreFrame DEF Numbers
<1>2. CASE t > 0
  <2>1. inRow' = inRow + 1 /\ inRow' - 1 = inRow
    BY <1>2 DEF Numbers
  <2>2. inRow' * MinLength = inRow * MinLength + MinLength
    BY <1>1, <2>1
  <2>3. m_previousFrameEndTime >= inRow * MinLength
    BY DEF ScheduleCountsFrames
  <2>4. m_previousFrameEndTime' >= inRow' * MinLength
    BY <1>1, <1>2, <2>2, <2>3 DEF Numbers
  <2>5. start' >= (inRow' - 1) * MinLength
    BY <1>1, <1>2, <2>1, <2>3 DEF Numbers
  <2> QED
    BY <2>4, <2>5 DEF RateInv, ScheduleCountsFrames, RateBounded
<1>3. CASE ~(t > 0)
  BY <1>1, <1>3 DEF RateInv, ScheduleCountsFrames, RateBounded
<1> QED
  BY <1>2, <1>3

\* Every step keeps the count of frames below the schedule.
LEMMA RateStep == Numbers /\ RateInv /\ [Next]_vars => RateInv'
<1> SUFFICES ASSUME Numbers, RateInv, [Next]_vars PROVE RateInv'
  OBVIOUS
<1>1. CASE OnThreadCreate
  BY <1>1, OneMoreFrame DEF OnThreadCreate, Restart, RateInv, ScheduleCountsFrames, RateBounded
<1>2. CASE Advance \/ Rewind \/ SetSyncSource \/ SetFrameLength \/ WaitForSchedule \/ UNCHANGED vars
  BY <1>2 DEF Advance, Rewind, SetSyncSource, SetFrameLength, WaitForSchedule, vars, RateInv,
              ScheduleCountsFrames, RateBounded
<1>3. CASE StampAfterWait
  <2>1. start' = streamTime /\ streamTime >= m_previousFrameEndTime
        /\ inRow' = IF streamTime > 0 THEN inRow + 1 ELSE 0
    BY <1>3 DEF StampAfterWait, Stamp
  <2>2. m_rtFrameLength \in Nat /\ MinLength <= m_rtFrameLength
    BY LengthIsNat DEF Numbers
  <2>3. m_previousFrameEndTime' = m_previousFrameEndTime + m_rtFrameLength
    BY <1>3, <2>2 DEF StampAfterWait, Larger, Numbers
  <2> QED
    BY <2>1, <2>2, <2>3, RateStamp DEF RateInv, Numbers
<1>4. CASE StampAtOnce
  <2>1. Now \in Int /\ (Now > 0 => Now >= m_previousFrameEndTime) /\ start' = Now
        /\ inRow' = IF Now > 0 THEN inRow + 1 ELSE 0
    BY <1>4 DEF StampAtOnce, IsEarly, Now, Stamp, Numbers
  <2>2. m_rtFrameLength \in Nat /\ MinLength <= m_rtFrameLength
        /\ m_rtFrameLength \div 2 \in Nat
    BY LengthIsNat, HalfALength DEF Numbers
  <2>3. m_previousFrameEndTime' \in Nat
        /\ (Now > 0 => m_previousFrameEndTime' >= m_previousFrameEndTime + MinLength)
    <3>1. CASE NearSchedule
      BY <1>4, <2>2, <3>1 DEF StampAtOnce, Larger, Numbers
    <3>2. CASE ~NearSchedule
      \* At a positive time only a frame length of zero leads here.
      <4>1. m_previousFrameEndTime' = Larger(0, Now + m_rtFrameLength \div 2)
        BY <1>4, <3>2 DEF StampAtOnce
      <4>2. Now > 0 => m_rtFrameLength = 0
        BY <2>1, <2>2, <3>2 DEF NearSchedule, Numbers
      <4> QED
        BY <2>1, <2>2, <4>1, <4>2 DEF Larger, Numbers
    <3> QED
      BY <3>1, <3>2
  <2> QED
    BY <2>1, <2>3, RateStamp DEF RateInv
<1> QED
  BY <1>1, <1>2, <1>3, <1>4 DEF Next

\* Whatever stalls, catching up and setting back of the stream time there are,
\* the n-th frame of a row starts no earlier than n - 1 frame lengths.
THEOREM RateIsBounded == Spec => []RateBounded
<1>1. TypeOK => Numbers
  BY TypeSplit
<1>2. RateInv => RateBounded
  BY DEF RateInv
<1> QED
  BY <1>1, <1>2, TypeCorrect, RateInit, RateStep, PTL DEF Spec

\* Both: for every pace of the source and of the clock the schedule neither runs
\* away from the stream time nor lets frames come faster than the frame rate.
THEOREM FramesArePaced == Spec => []FramesPaced
BY ScheduleBounded, RateIsBounded, PTL DEF FramesPaced

-----------------------------------------------------------------------------
(* Start and end of a sample. *)

\* A sample does not end before it starts; and the worker oversleeps by less
\* than the time it may.
EndInv ==
    /\ StartBeforeEnd
    /\ waiting => streamTime <= m_previousFrameEndTime + MaxOvershoot

\* No sample is stamped yet.
LEMMA EndInit == Init => EndInv
BY DEF Init, EndInv, StartBeforeEnd

\* Every stamp ends after it starts.
LEMMA EndStep == Numbers /\ EndInv /\ [Next]_vars => EndInv'
<1> SUFFICES ASSUME Numbers, EndInv, [Next]_vars PROVE EndInv'
  OBVIOUS
<1>1. CASE OnThreadCreate
  <2>1. start' = 0 /\ end' = 0 /\ ~waiting'
    BY <1>1 DEF OnThreadCreate, Restart
  <2> QED
    BY <2>1 DEF EndInv, StartBeforeEnd
<1>2. CASE Advance
  BY <1>2 DEF Advance, EndInv, StartBeforeEnd, Numbers
<1>3. CASE Rewind
  BY <1>3 DEF Rewind, EndInv, StartBeforeEnd, Numbers
<1>4. CASE SetSyncSource \/ SetFrameLength \/ UNCHANGED vars
  BY <1>4 DEF SetSyncSource, SetFrameLength, vars, EndInv, StartBeforeEnd
<1>5. CASE WaitForSchedule
  BY <1>5 DEF WaitForSchedule, IsEarly, Now, EndInv, StartBeforeEnd, Numbers
<1>6. CASE StampAfterWait
  <2>1. start' = streamTime /\ end' = m_previousFrameEndTime + m_rtFrameLength
        /\ ~waiting' /\ waiting
    BY <1>6 DEF StampAfterWait, Stamp
  <2>2. m_rtFrameLength \in Nat /\ MinLength <= m_rtFrameLength
    BY LengthIsNat DEF Numbers
  <2>3. streamTime <= m_previousFrameEndTime + MaxOvershoot
    BY <2>1 DEF EndInv
  <2> QED
    BY <2>1, <2>2, <2>3 DEF EndInv, StartBeforeEnd, Numbers
<1>7. CASE StampAtOnce
  <2>1. ~waiting' /\ start' = Now
        /\ (end' = Now + m_rtFrameLength \/ end' = Now + m_rtFrameLength \div 2)
    BY <1>7 DEF StampAtOnce, Stamp
  <2>2. m_rtFrameLength \in Nat /\ m_rtFrameLength \div 2 \in Nat /\ Now \in Int
    BY LengthIsNat, HalfALength DEF Numbers, Now
  <2> QED
    BY <2>1, <2>2 DEF EndInv, StartBeforeEnd
<1> QED
  BY <1>1, <1>2, <1>3, <1>4, <1>5, <1>6, <1>7 DEF Next

-----------------------------------------------------------------------------
(* Times that never go back. *)

\* While the stream time is not set back it has passed the start of every
\* sample, and no sample ends later than the schedule or than a frame length
\* after its start.
MonotoneInv ==
    ~setBack /\ stamped /\ start > 0 =>
        /\ start <= streamTime
        /\ end <= m_previousFrameEndTime \/ end <= start + lastLength
        /\ waiting => start <= m_previousFrameEndTime

\* No sample is stamped yet.
LEMMA MonotoneInit == Init => MonotoneInv
BY DEF Init, MonotoneInv

\* A sample stamped while the invariant holds.
LEMMA MonotoneStamp ==
    ASSUME Numbers, MonotoneInv, StampAfterWait \/ StampAtOnce
    PROVE  /\ MonotoneInv'
           /\ (stamped /\ start > 0 /\ start' > 0 /\ ~setBack)
                => (start' >= start /\ (m_rtFrameLength >= lastLength => end' >= end))
<1>0. UNCHANGED << m_rtFrameLength, hasClock, streamTime, high, setBack >> /\ ~waiting'
  BY DEF StampAfterWait, StampAtOnce
<1>1. m_rtFrameLength \in Nat /\ MinLength <= m_rtFrameLength /\ m_rtFrameLength <= MaxLength
      /\ m_rtFrameLength \div 2 \in Nat /\ lastLength' = m_rtFrameLength
  BY LengthIsNat, HalfALength DEF Numbers, StampAfterWait, StampAtOnce, Stamp
<1>2. CASE StampAfterWait
  <2>1. /\ start' = streamTime /\ waiting /\ streamTime >= m_previousFrameEndTime
        /\ end' = m_previousFrameEndTime + m_rtFrameLength
        /\ m_previousFrameEndTime' = m_previousFrameEndTime + m_rtFrameLength
    BY <1>1, <1>2 DEF StampAfterWait, Stamp, Larger, Numbers
  <2>2. ASSUME ~setBack, stamped, start > 0
        PROVE  /\ start <= streamTime /\ start <= m_previousFrameEndTime
               /\ end <= m_previousFrameEndTime \/ end <= start + lastLength
    BY <2>1, <2>2 DEF MonotoneInv
  <2>3. (stamped /\ start > 0 /\ ~setBack)
           => (start' >= start /\ (m_rtFrameLength >= lastLength => end' >= end))
    BY <1>1, <2>1, <2>2 DEF Numbers
  <2>4. MonotoneInv'
    BY <1>0, <1>1, <2>1 DEF MonotoneInv, Numbers
  <2> QED
    BY <2>3, <2>4
<1>3. CASE StampAtOnce
  <2>1. /\ start' = Now /\ Now \in Int
        /\ Now > 0 => Now >= m_previousFrameEndTime /\ Now = streamTime
    BY <1>3 DEF StampAtOnce, IsEarly, Now, Stamp, Numbers
  <2>2. Now > 0 => end' = Now + m_rtFrameLength
    <3>1. CASE NearSchedule
      BY <1>3, <3>1 DEF StampAtOnce, Stamp
    <3>2. CASE ~NearSchedule
      <4>1. end' = Now + m_rtFrameLength \div 2
        BY <1>3, <3>2 DEF StampAtOnce, Stamp
      <4>2. Now > 0 => m_rtFrameLength = 0
        BY <1>1, <2>1, <3>2 DEF NearSchedule, Numbers
      <4>3. m_rtFrameLength \div 2 <= m_rtFrameLength
        BY HalfALength DEF Numbers
      <4> QED
        BY <1>1, <2>1, <4>1, <4>2, <4>3
    <3> QED
      BY <3>1, <3>2
  <2> QED
    BY <1>0, <1>1, <2>1, <2>2 DEF MonotoneInv, Numbers
<1> QED
  BY <1>2, <1>3

\* Every step keeps the relation of the last stamp to the schedule.
LEMMA MonotoneStep == Numbers /\ MonotoneInv /\ [Next]_vars => MonotoneInv'
<1> SUFFICES ASSUME Numbers, MonotoneInv, [Next]_vars PROVE MonotoneInv'
  OBVIOUS
<1>1. CASE OnThreadCreate
  <2>1. ~stamped' /\ high' = streamTime'
    BY <1>1 DEF OnThreadCreate, Restart
  <2> QED
    BY <2>1 DEF MonotoneInv
<1>2. CASE Advance
  BY <1>2 DEF Advance, Larger, MonotoneInv, Numbers
<1>3. CASE Rewind
  BY <1>3 DEF Rewind, MonotoneInv
<1>4. CASE SetSyncSource \/ SetFrameLength \/ UNCHANGED vars
  BY <1>4 DEF SetSyncSource, SetFrameLength, vars, MonotoneInv
<1>5. CASE WaitForSchedule
  BY <1>5 DEF WaitForSchedule, IsEarly, Now, MonotoneInv, Numbers
<1>6. CASE StampAfterWait \/ StampAtOnce
  BY <1>6, MonotoneStamp
<1> QED
  BY <1>1, <1>2, <1>3, <1>4, <1>5, <1>6 DEF Next

\* With a stream time that is not set back, the start times of the samples at
\* positive stream times never go back, nor do the end times unless the frames
\* become shorter.
LEMMA NeverBackStep == Numbers /\ MonotoneInv /\ [Next]_vars => [NeverBack]_vars
<1> SUFFICES ASSUME Numbers, MonotoneInv, [Next]_vars,
                    stamped, start > 0, inRow' = inRow + 1, ~setBack
             PROVE  start' >= start /\ (m_rtFrameLength >= lastLength => end' >= end)
  BY DEF NeverBack
<1>1. inRow' # inRow /\ inRow' # 0
  BY DEF Numbers
<1>2. StampAfterWait \/ StampAtOnce
  BY <1>1 DEF Next, vars, OnThreadCreate, Restart, Advance, Rewind, SetSyncSource, SetFrameLength,
              WaitForSchedule
<1>3. start' > 0
  BY <1>1, <1>2 DEF StampAfterWait, StampAtOnce, Stamp
<1> QED
  BY <1>2, <1>3, MonotoneStamp

\* The times of the samples are in order, for every pace of frames: the promise
\* of FillBuffer's comments.
THEOREM TimesAreInOrder == Spec => TimesInOrder
<1>1. TypeOK => Numbers
  BY TypeSplit
<1>2. EndInv => StartBeforeEnd
  BY DEF EndInv
<1>3. (StartBeforeEnd)' /\ [NeverBack]_vars => [StartBeforeEnd' /\ NeverBack]_vars
  OBVIOUS
<1> QED
  BY <1>1, <1>2, <1>3, TypeCorrect, EndInit, EndStep, MonotoneInit, MonotoneStep, NeverBackStep,
     PTL DEF Spec, TimesInOrder
=============================================================================
