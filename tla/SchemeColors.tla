---------------------------- MODULE SchemeColors ----------------------------
(***************************************************************************)
(* How the tone of a colour of a scheme is computed (material/dynamic):    *)
(* colours are named by roles, and the tone of one is computed from the    *)
(* tones of others, its backgrounds and the other role of its pair, by     *)
(* calls that nest.  What a role depends on is its entry, a function of    *)
(* the scheme, in the table of the 2021 specification or in that of 2025,  *)
(* which embeds the former.  Tones and palettes are left out: a call is    *)
(* the calls it makes, in their order.                                     *)
(***************************************************************************)
EXTENDS Sequences, Naturals, TLC

CONSTANTS Variants,   \* the variants of schemes asked for
          Given,      \* the sets of palettes handed to NewDynamicScheme
          Nil

VARIABLES
  scheme,    \* version, variant, dark, phone (the platform), raised (contrast over 0)
  palettes,  \* where each of its palettes comes from
  stack      \* the calls under way: function, colour, scheme, and the calls they will make

vars == <<scheme, palettes, stack>>

Color(v, r)     == [spec |-> v, role |-> r]
GetTone(c, s)   == [fn |-> "GetTone", of |-> c, in |-> s]
Tone(c, s)      == [fn |-> "Tone", of |-> c, in |-> s]
IsFidelity(s)   == s.variant \in {"fidelity", "content"}

\* An entry: the calls of its Tone function, and what its other functions
\* return; the pair as NewToneDeltaPair takes it.
Plain           == [tone |-> <<>>, bg |-> Nil, second |-> Nil, curve |-> FALSE, pair |-> Nil]
On(bg)          == [Plain EXCEPT !.bg = bg, !.curve = TRUE]
Pair(e, a, b, p) == [e EXCEPT !.pair = [a |-> a, b |-> b, polarity |-> p]]

\* DynamicColorFromPalette: without a Tone, that of the background.
Follow(bg, s) == [On(bg) EXCEPT !.tone = IF bg = Nil THEN <<>> ELSE <<GetTone(bg, s)>>]

Dims    == {"primary_dim", "secondary_dim", "tertiary_dim", "error_dim"}

-----------------------------------------------------------------------------
\* MaterialSpec2021.

M21(r) == IF r \in Dims THEN Nil ELSE Color(2021, r)

HighestSurface21(s) == M21(IF s.dark THEN "surface_bright" ELSE "surface_dim")

KeyColors21  == {"primary_palette_key_color", "secondary_palette_key_color",
                 "tertiary_palette_key_color", "neutral_palette_key_color",
                 "neutral_variant_palette_key_color", "error_palette_key_color"}
Surfaces21   == {"surface", "surface_dim", "surface_bright", "surface_container_lowest",
                 "surface_container_low", "surface_container", "surface_container_high",
                 "surface_container_highest"}
Shades21     == {"shadow", "scrim", "surface_tint"}

Background21       == Plain
OnBackground21     == On(M21("background"))
OnSurface21(s)     == On(HighestSurface21(s))
SurfaceVariant21   == Plain
OnSurfaceVariant21(s) == On(HighestSurface21(s))
InverseSurface21   == Plain
InverseOnSurface21 == On(M21("inverse_surface"))
Outline21(s)       == On(HighestSurface21(s))
OutlineVariant21(s) == On(HighestSurface21(s))

\* An accent and its container, two fixed colours, and what lies on them.
Accent21(container, accent, s) ==
  Pair(On(HighestSurface21(s)), M21(container), M21(accent), "nearer")
OnContainer21(container, s) ==
  [On(M21(container)) EXCEPT !.tone = IF IsFidelity(s) THEN <<Tone(M21(container), s)>> ELSE <<>>]
Fixed21(fixed, dim, s) ==
  Pair(On(HighestSurface21(s)), M21(fixed), M21(dim), "lighter")
OnFixed21(fixed, dim) == [On(M21(dim)) EXCEPT !.second = M21(fixed)]

Primary21(s)              == Accent21("primary_container", "primary", s)
OnPrimary21               == On(M21("primary"))
PrimaryContainer21(s)     == Accent21("primary_container", "primary", s)
OnPrimaryContainer21(s)   == OnContainer21("primary_container", s)
InversePrimary21          == On(M21("inverse_surface"))
Secondary21(s)            == Accent21("secondary_container", "secondary", s)
OnSecondary21             == On(M21("secondary"))
SecondaryContainer21(s)   == Accent21("secondary_container", "secondary", s)
OnSecondaryContainer21(s) == OnContainer21("secondary_container", s)
Tertiary21(s)             == Accent21("tertiary_container", "tertiary", s)
OnTertiary21              == On(M21("tertiary"))
TertiaryContainer21(s)    == Accent21("tertiary_container", "tertiary", s)
OnTertiaryContainer21(s)  == OnContainer21("tertiary_container", s)
Error21(s)                == Accent21("error_container", "error", s)
OnError21                 == On(M21("error"))
ErrorContainer21(s)       == Accent21("error_container", "error", s)
OnErrorContainer21        == On(M21("error_container"))
PrimaryFixed21(s)         == Fixed21("primary_fixed", "primary_fixed_dim", s)
PrimaryFixedDim21(s)      == Fixed21("primary_fixed", "primary_fixed_dim", s)
OnPrimaryFixed21          == OnFixed21("primary_fixed", "primary_fixed_dim")
OnPrimaryFixedVariant21   == OnFixed21("primary_fixed", "primary_fixed_dim")
SecondaryFixed21(s)       == Fixed21("secondary_fixed", "secondary_fixed_dim", s)
SecondaryFixedDim21(s)    == Fixed21("secondary_fixed", "secondary_fixed_dim", s)
OnSecondaryFixed21        == OnFixed21("secondary_fixed", "secondary_fixed_dim")
OnSecondaryFixedVariant21 == OnFixed21("secondary_fixed", "secondary_fixed_dim")
TertiaryFixed21(s)        == Fixed21("tertiary_fixed", "tertiary_fixed_dim", s)
TertiaryFixedDim21(s)     == Fixed21("tertiary_fixed", "tertiary_fixed_dim", s)
OnTertiaryFixed21         == OnFixed21("tertiary_fixed", "tertiary_fixed_dim")
OnTertiaryFixedVariant21  == OnFixed21("tertiary_fixed", "tertiary_fixed_dim")

Table21(s) ==
  [background |-> Background21, on_background |-> OnBackground21,
   on_surface |-> OnSurface21(s), surface_variant |-> SurfaceVariant21,
   on_surface_variant |-> OnSurfaceVariant21(s), inverse_surface |-> InverseSurface21,
   inverse_on_surface |-> InverseOnSurface21, inverse_primary |-> InversePrimary21,
   outline |-> Outline21(s), outline_variant |-> OutlineVariant21(s),
   primary |-> Primary21(s), on_primary |-> OnPrimary21,
   primary_container |-> PrimaryContainer21(s), on_primary_container |-> OnPrimaryContainer21(s),
   primary_fixed |-> PrimaryFixed21(s), primary_fixed_dim |-> PrimaryFixedDim21(s),
   on_primary_fixed |-> OnPrimaryFixed21, on_primary_fixed_variant |-> OnPrimaryFixedVariant21,
   secondary |-> Secondary21(s), on_secondary |-> OnSecondary21,
   secondary_container |-> SecondaryContainer21(s), on_secondary_container |-> OnSecondaryContainer21(s),
   secondary_fixed |-> SecondaryFixed21(s), secondary_fixed_dim |-> SecondaryFixedDim21(s),
   on_secondary_fixed |-> OnSecondaryFixed21, on_secondary_fixed_variant |-> OnSecondaryFixedVariant21,
   tertiary |-> Tertiary21(s), on_tertiary |-> OnTertiary21,
   tertiary_container |-> TertiaryContainer21(s), on_tertiary_container |-> OnTertiaryContainer21(s),
   tertiary_fixed |-> TertiaryFixed21(s), tertiary_fixed_dim |-> TertiaryFixedDim21(s),
   on_tertiary_fixed |-> OnTertiaryFixed21, on_tertiary_fixed_variant |-> OnTertiaryFixedVariant21,
   error |-> Error21(s), on_error |-> OnError21,
   error_container |-> ErrorContainer21(s), on_error_container |-> OnErrorContainer21]
Entry21(r, s) == IF r \in KeyColors21 \cup Surfaces21 \cup Shades21 THEN Plain ELSE Table21(s)[r]

-----------------------------------------------------------------------------
\* MaterialSpec2025.

M25(r) == Color(2025, r)

HighestSurface25(s) == M25(IF s.dark THEN "surface_bright" ELSE "surface_dim")
AccentBackground(s) == IF s.phone THEN HighestSurface25(s) ELSE M25("surface_container_high")
ContainerBackground(s) == IF s.phone THEN HighestSurface25(s) ELSE Nil
ContainerCurve(s)   == s.phone /\ s.raised
LightStandard(s)    == [s EXCEPT !.dark = FALSE, !.raised = FALSE]

Surfaces25          == Surfaces21
InverseSurface25    == Plain
OnSurface25(s)      == [Follow(AccentBackground(s), s) EXCEPT !.tone = IF s.variant = "vibrant" THEN <<>> ELSE @]
OnSurfaceVariant25(s) == Follow(AccentBackground(s), s)
Outline25(s)        == Follow(AccentBackground(s), s)
OutlineVariant25(s) == Follow(AccentBackground(s), s)
InverseOnSurface25(s) == Follow(M25("inverse_surface"), s)

Accent25(container, accent, s) ==
  IF s.phone THEN Pair(On(AccentBackground(s)), M25(container), M25(accent), "relative_lighter")
             ELSE On(AccentBackground(s))
Dim25(dim, accent) == Pair(On(M25("surface_container_high")), M25(dim), M25(accent), "darker")
OnAccent25(accent, dim, s) == Follow(M25(IF s.phone THEN accent ELSE dim), s)
Container25(container, dim, s) ==
  LET e == [On(ContainerBackground(s)) EXCEPT !.curve = ContainerCurve(s)]
  IN  IF s.phone THEN e ELSE Pair(e, M25(container), M25(dim), "darker")
Fixed25(container, s) ==
  [On(ContainerBackground(s)) EXCEPT !.curve = ContainerCurve(s),
                                     !.tone = <<GetTone(M25(container), LightStandard(s))>>]
FixedDim25(dim, fixed, s) ==
  Pair([Plain EXCEPT !.tone = <<GetTone(M25(fixed), s)>>], M25(dim), M25(fixed), "darker")

Primary25(s)                == Accent25("primary_container", "primary", s)
PrimaryDim25                == Dim25("primary_dim", "primary")
OnPrimary25(s)              == OnAccent25("primary", "primary_dim", s)
PrimaryContainer25(s)       == Container25("primary_container", "primary_dim", s)
OnPrimaryContainer25(s)     == Follow(M25("primary_container"), s)
PrimaryFixed25(s)           == Fixed25("primary_container", s)
PrimaryFixedDim25(s)        == FixedDim25("primary_fixed_dim", "primary_fixed", s)
OnPrimaryFixed25(s)         == Follow(M25("primary_fixed_dim"), s)
OnPrimaryFixedVariant25(s)  == Follow(M25("primary_fixed_dim"), s)
InversePrimary25            == On(M25("inverse_surface"))
Secondary25(s)              == Accent25("secondary_container", "secondary", s)
SecondaryDim25              == Dim25("secondary_dim", "secondary")
OnSecondary25(s)            == OnAccent25("secondary", "secondary_dim", s)
SecondaryContainer25(s)     == Container25("secondary_container", "secondary_dim", s)
OnSecondaryContainer25(s)   == Follow(M25("secondary_container"), s)
SecondaryFixed25(s)         == Fixed25("secondary_container", s)
SecondaryFixedDim25(s)      == FixedDim25("secondary_fixed_dim", "secondary_fixed", s)
OnSecondaryFixed25(s)       == Follow(M25("secondary_fixed_dim"), s)
OnSecondaryFixedVariant25(s) == Follow(M25("secondary_fixed_dim"), s)
Tertiary25(s)               == Accent25("tertiary_container", "tertiary", s)
TertiaryDim25               == Dim25("tertiary_dim", "tertiary")
OnTertiary25(s)             == OnAccent25("tertiary", "tertiary_dim", s)
TertiaryContainer25(s)      == Container25("tertiary_container", "tertiary_dim", s)
OnTertiaryContainer25(s)    == Follow(M25("tertiary_container"), s)
TertiaryFixed25(s)          == Fixed25("tertiary_container", s)
TertiaryFixedDim25(s)       == FixedDim25("tertiary_fixed_dim", "tertiary_fixed", s)
OnTertiaryFixed25(s)        == Follow(M25("tertiary_fixed_dim"), s)
OnTertiaryFixedVariant25(s) == Follow(M25("tertiary_fixed_dim"), s)
Error25(s)                  == Accent25("error_container", "error", s)
ErrorDim25                  == Dim25("error_dim", "error")
OnError25(s)                == OnAccent25("error", "error_dim", s)
ErrorContainer25(s)         == Container25("error_container", "error_dim", s)
OnErrorContainer25(s)       == Follow(M25("error_container"), s)

\* Copies under another name.
SurfaceVariant25 == Plain
SurfaceTint25(s) == Primary25(s)
Background25     == Plain
OnBackground25(s) ==
  [OnSurface25(s) EXCEPT !.tone = IF s.phone THEN <<GetTone(M25("on_surface"), s)>> ELSE <<>>]

Table25(s) ==
  [inverse_surface |-> InverseSurface25, on_surface |-> OnSurface25(s),
   on_surface_variant |-> OnSurfaceVariant25(s), outline |-> Outline25(s),
   outline_variant |-> OutlineVariant25(s), inverse_on_surface |-> InverseOnSurface25(s),
   inverse_primary |-> InversePrimary25, surface_variant |-> SurfaceVariant25,
   surface_tint |-> SurfaceTint25(s), background |-> Background25, on_background |-> OnBackground25(s),
   primary |-> Primary25(s), primary_dim |-> PrimaryDim25, on_primary |-> OnPrimary25(s),
   primary_container |-> PrimaryContainer25(s), on_primary_container |-> OnPrimaryContainer25(s),
   primary_fixed |-> PrimaryFixed25(s), primary_fixed_dim |-> PrimaryFixedDim25(s),
   on_primary_fixed |-> OnPrimaryFixed25(s), on_primary_fixed_variant |-> OnPrimaryFixedVariant25(s),
   secondary |-> Secondary25(s), secondary_dim |-> SecondaryDim25, on_secondary |-> OnSecondary25(s),
   secondary_container |-> SecondaryContainer25(s), on_secondary_container |-> OnSecondaryContainer25(s),
   secondary_fixed |-> SecondaryFixed25(s), secondary_fixed_dim |-> SecondaryFixedDim25(s),
   on_secondary_fixed |-> OnSecondaryFixed25(s), on_secondary_fixed_variant |-> OnSecondaryFixedVariant25(s),
   tertiary |-> Tertiary25(s), tertiary_dim |-> TertiaryDim25, on_tertiary |-> OnTertiary25(s),
   tertiary_container |-> TertiaryContainer25(s), on_tertiary_container |-> OnTertiaryContainer25(s),
   tertiary_fixed |-> TertiaryFixed25(s), tertiary_fixed_dim |-> TertiaryFixedDim25(s),
   on_tertiary_fixed |-> OnTertiaryFixed25(s), on_tertiary_fixed_variant |-> OnTertiaryFixedVariant25(s),
   error |-> Error25(s), error_dim |-> ErrorDim25, on_error |-> OnError25(s),
   error_container |-> ErrorContainer25(s), on_error_container |-> OnErrorContainer25(s)]
Entry25(r, s) == IF r \in Surfaces25 THEN Plain ELSE Table25(s)[r]

-----------------------------------------------------------------------------
\* A colour of MaterialSpec2025 is made by extendSpecVersion from both tables,
\* unless only one has its role.
Overrides == Surfaces25 \cup DOMAIN Table25(scheme)

Entry(c, s) ==
  IF c.spec = 2025 /\ c.role \in Overrides /\ (s.version = 2025 \/ c.role \in Dims)
  THEN Entry25(c.role, s) ELSE Entry21(c.role, s)

\* GetTone of calculator.go. Of 2021: both tones of the pair, and the background
\* of the colour itself.
NearerFirst(p, s) ==
  IF p.polarity = "nearer" \/ p.polarity = IF s.dark THEN "darker" ELSE "lighter"
  THEN <<p.a, p.b>> ELSE <<p.b, p.a>>

Calls21(c, s) ==
  LET e    == Entry(c, s)
      both == NearerFirst(e.pair, s)
      back == IF e.bg = Nil THEN <<>> ELSE <<GetTone(e.bg, s)>>
  IN IF e.pair # Nil
     THEN <<Tone(both[1], s), Tone(both[2], s)>> \o
          (IF Entry(both[1], s).curve /\ Entry(both[2], s).curve THEN back ELSE <<>>)
     ELSE <<Tone(c, s)>> \o (IF e.curve THEN back ELSE <<>>) \o
          (IF e.curve /\ e.bg # Nil /\ e.second # Nil THEN back \o <<GetTone(e.second, s)>> ELSE <<>>)

\* Of 2025: the tone of its own role of the pair, and all of the other role.
\* (No colour of 2025 has a second background.)
SelfRole(c, p) == IF c.role = p.a.role THEN p.a ELSE p.b
RefRoleIsB(c, p) == p.b
RefRole(c, p) == IF c.role = p.a.role THEN p.b ELSE p.a

Calls25(c, s) ==
  LET e == Entry(c, s) IN
  (IF e.pair # Nil THEN <<Tone(SelfRole(c, e.pair), s), GetTone(RefRole(c, e.pair), s)>>
                   ELSE <<Tone(c, s)>>)
    \o (IF e.bg # Nil /\ e.curve THEN <<GetTone(e.bg, s)>> ELSE <<>>)

Calls(f) == IF f.of = Nil THEN <<>>
            ELSE IF f.fn = "Tone" THEN Entry(f.of, f.in).tone
            ELSE IF f.in.version = 2025 THEN Calls25(f.of, f.in) ELSE Calls21(f.of, f.in)

-----------------------------------------------------------------------------
\* NewDynamicScheme: the 2025 specification only has some variants, and what
\* the palettes' delegate does not give is the caller's or a default.
Variants25 == {"expressive", "vibrant", "tonal_spot", "neutral"}
Kinds == {"primary", "secondary", "tertiary", "neutral", "neutral_variant", "error"}

FallbackSpecVersion(version, v) == IF v \in Variants25 THEN version ELSE 2021

GetPalette21(k, v) == IF k = "error" THEN Nil ELSE "of 2021"
GetPalette25(k, v) == IF v \in Variants25 THEN "of 2025" ELSE GetPalette21(k, v)

Palette(version, k, v, given) ==
  LET made == IF version = 2025 THEN GetPalette25(k, v) ELSE GetPalette21(k, v)
  IN  IF k \in given THEN "given" ELSE IF k = "error" /\ made = Nil THEN "default" ELSE made

Init ==
  \E asked \in {2021, 2025}, v \in Variants, dark, phone, raised \in BOOLEAN, given \in Given :
    LET version == FallbackSpecVersion(asked, v) IN
    /\ scheme = [version |-> version, variant |-> v, dark |-> dark, phone |-> phone, raised |-> raised]
    /\ palettes = [k \in Kinds |-> Palette(version, k, v, given)]
    /\ stack = <<>>

\* ToColorMap: the colours of the scheme's own specification; those of 2025
\* but the dim ones, which it alone has, serve a scheme of either version.
ToColorMap ==
  LET all == KeyColors21 \cup Shades21 \cup Surfaces21 \cup DOMAIN Table21(scheme)
  IN  {M25(r) : r \in all} \cup {M25(r) : r \in {d \in Dims : scheme.version = 2025}}
        \cup {M21(r) : r \in {q \in all : scheme.version = 2021}}

Push(f) == stack' = <<f @@ [todo |-> Calls(f)]>> \o stack /\ UNCHANGED <<scheme, palettes>>

Ask == stack = <<>> /\ \E c \in ToColorMap : Push(GetTone(c, scheme))

CallNext ==
  /\ stack # <<>> /\ Head(stack).todo # <<>>
  /\ LET f == Head(Head(stack).todo) IN
     stack' = <<f @@ [todo |-> Calls(f)], [Head(stack) EXCEPT !.todo = Tail(@)]>> \o Tail(stack)
  /\ UNCHANGED <<scheme, palettes>>

Return ==
  /\ stack # <<>> /\ Head(stack).todo = <<>>
  /\ stack' = Tail(stack) /\ UNCHANGED <<scheme, palettes>>

Next == Ask \/ CallNext \/ Return

Spec == Init /\ [][Next]_vars

-----------------------------------------------------------------------------
TypeOK ==
  /\ scheme \in [version : {2021, 2025}, variant : Variants, dark : BOOLEAN, phone : BOOLEAN, raised : BOOLEAN]
  /\ DOMAIN palettes = Kinds
  /\ \A i \in 1..Len(stack) : stack[i].fn \in {"GetTone", "Tone"} /\ stack[i].in.version = scheme.version

\* "Roles it does not override come from the embedded MaterialSpec2021", "The
\* embedded 2021 method would resolve the 2021 surfaces": every tone of every
\* scheme is computed, by calls that come to an end, on colours that exist.
\* - No call is under way inside itself: pairs and backgrounds refer to each
\*   other, in the 2025 table even by way of a light scheme, but not in a ring.
\* - No call goes to a role that its specification lacks, and no palette is nil.
\* - A scheme of 2025 has its own palettes, and asks no colour of 2021 whose
\*   role 2025 redefines.
\* - The two roles of a pair of 2021, which compute both tones each for itself,
\*   start from the same pair and the same background.
Resolves ==
  /\ \A i, j \in 1..Len(stack) :
       i # j => <<stack[i].fn, stack[i].of, stack[i].in>> # <<stack[j].fn, stack[j].of, stack[j].in>>
  /\ \A k \in Kinds : palettes[k] # Nil /\ (scheme.version = 2025 => palettes[k] # "of 2021")
  /\ \A i \in 1..Len(stack) :
       LET f == stack[i] IN
       /\ f.of # Nil
       /\ scheme.version = 2025 /\ f.of.spec = 2021 => f.of.role \notin Overrides
       /\ scheme.version = 2021 /\ f.fn = "GetTone" =>
            LET e == Entry(f.of, f.in) IN
            e.pair # Nil =>
              /\ f.of.role \in {e.pair.a.role, e.pair.b.role}
              /\ \A r \in {e.pair.a, e.pair.b} :
                   LET other == Entry(r, f.in) IN other.pair = e.pair /\ other.bg = e.bg
=============================================================================
