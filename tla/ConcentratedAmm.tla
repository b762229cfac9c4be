-------------------------- MODULE ConcentratedAmm ---------------------------
(* The concentrated-liquidity pool (contracts/concentrated_amm): positions  *)
(* over ranges of ticks, the liquidity active at the current tick, and the  *)
(* fee growth each tick keeps of its far side, from which a position's fees *)
(* are computed when it is next touched.  A failed call reverts, so an      *)
(* action is a call that succeeds.                                          *)
(* Prices are left out: how much liquidity an amount buys, how much a step  *)
(* of a swap charges and whether it reaches the next tick are choices, and  *)
(* the principal a position puts in and takes out is not followed.          *)
EXTENDS Integers, FiniteSetsExt, Functions, TLC

CONSTANTS Owner,
          Ranges,          \* the <<tick_lower, tick_upper>> positions may have
          tick_spacing,
          WordBits,        \* 64: ticks per word of the bitmap
          Q64, Modulus,    \* 2^64 and 2^128
          StepFees,        \* what one step of a swap may charge
          MaxLiquidity,    \* bound on a position
          MaxTaken         \* bound on the fees taken in a token

VARIABLES current_tick, liquidity,
          fee_growth,      \* FeeGrowthGlobal0 and FeeGrowthGlobal1
          tick,            \* TickInfo; a tick that is not stored is Empty
          bitmap,          \* the compressed ticks whose bit is set
          positions,       \* PositionInfo of the positions stored
          taken, paid      \* history: fees swaps charged, fees collected

vars == <<current_tick, liquidity, fee_growth, tick, bitmap, positions, taken, paid>>

Token == {0, 1}
Ticks == UNION {{r[1], r[2]} : r \in Ranges}
Zero == [k \in Token |-> 0]
Empty == [gross |-> 0, net |-> 0, outside |-> Zero]

wrapping_sub(f, g) == [k \in Token |-> (f[k] - g[k]) % Modulus]

Init ==
    /\ current_tick \in Ticks /\ liquidity = 0
    /\ fee_growth = Zero
    /\ tick = [t \in Ticks |-> Empty]
    /\ bitmap = {}
    /\ positions = <<>>
    /\ taken = Zero /\ paid = Zero

InRange(r, at) == r[1] <= at /\ at < r[2]

----------------------------------------------------------------------------
(* Ticks.                                                                   *)

\* A tick first used at or below the current one counts all growth as outside.
update_tick(t, delta, is_upper) ==
    LET gross == tick[t].gross + delta
    IN  IF gross = 0 THEN Empty
        ELSE [gross   |-> gross,
              net     |-> tick[t].net + (IF is_upper THEN -delta ELSE delta),
              outside |-> IF tick[t].gross = 0 /\ t <= current_tick THEN fee_growth
                          ELSE tick[t].outside]

UpdateTicks(r, delta) ==
    [tick EXCEPT ![r[1]] = update_tick(r[1], delta, FALSE),
                 ![r[2]] = update_tick(r[2], delta, TRUE)]

\* The bits of the ticks that come into use or go out of it are inverted.
flip_tick_bitmap(after) ==
    LET flipped == {t \div tick_spacing :
                      t \in {x \in Ticks : (tick[x].gross = 0) # (after[x].gross = 0)}}
    IN  (bitmap \ flipped) \cup (flipped \ bitmap)

\* The initialized tick the search finds in the one word it looks at, if any.
next_initialized_tick_within_one_word(at, lte) ==
    LET c == IF lte THEN at \div tick_spacing ELSE at \div tick_spacing + 1
        masked == {b \in bitmap : /\ b \div WordBits = c \div WordBits
                                  /\ IF lte THEN b <= c ELSE b >= c}
    IN  IF masked = {} THEN {}
        ELSE {tick_spacing * (IF lte THEN Max(masked) ELSE Min(masked))}

get_fee_growth_inside(r, info) ==
    LET lower == info[r[1]].outside
        upper == info[r[2]].outside
        below == IF current_tick >= r[1] THEN lower ELSE wrapping_sub(fee_growth, lower)
        above == IF current_tick < r[2] THEN upper ELSE wrapping_sub(fee_growth, upper)
    IN  wrapping_sub(wrapping_sub(fee_growth, below), above)

----------------------------------------------------------------------------
(* Positions.                                                               *)

\* The position with the fees it has earned since it was last touched.
Settled(pos, inside) ==
    LET grown == wrapping_sub(inside, pos.last)
    IN  [pos EXCEPT !.last = inside,
                    !.owed = [k \in Token |-> @[k] + (pos.liquidity * grown[k]) \div Q64]]

Store(key, pos) == positions' = (key :> pos) @@ positions
Remove(key) == positions' = Restrict(positions, DOMAIN positions \ {key})

mint(o, r, n) ==
    LET key == <<o, r>>
        after == UpdateTicks(r, n)
        inside == get_fee_growth_inside(r, after)
        pos == IF key \in DOMAIN positions THEN positions[key]
               ELSE [liquidity |-> 0, last |-> inside, owed |-> Zero]
    IN  /\ n > 0 /\ pos.liquidity + n <= MaxLiquidity
        /\ Store(key, [Settled(pos, inside) EXCEPT !.liquidity = @ + n])
        /\ tick' = after
        /\ bitmap' = flip_tick_bitmap(after)
        /\ liquidity' = liquidity + (IF InRange(r, current_tick) THEN n ELSE 0)
        /\ UNCHANGED <<current_tick, fee_growth, taken, paid>>

\* Burning nothing settles the position.
burn(o, r, n) ==
    LET key == <<o, r>>
        after == UpdateTicks(r, -n)
        pos == [Settled(positions[key], get_fee_growth_inside(r, tick))
                  EXCEPT !.liquidity = @ - n]
    IN  /\ key \in DOMAIN positions /\ n <= positions[key].liquidity
        /\ IF pos.liquidity = 0 /\ pos.owed = Zero THEN Remove(key) ELSE Store(key, pos)
        /\ tick' = after
        /\ bitmap' = flip_tick_bitmap(after)
        /\ liquidity' = liquidity - (IF InRange(r, current_tick) THEN n ELSE 0)
        /\ UNCHANGED <<current_tick, fee_growth, taken, paid>>

collect_fees(o, r) ==
    LET key == <<o, r>>
        pos == Settled(positions[key], get_fee_growth_inside(r, tick))
    IN  /\ key \in DOMAIN positions
        /\ IF pos.liquidity = 0 THEN Remove(key) ELSE Store(key, [pos EXCEPT !.owed = Zero])
        /\ paid' = [k \in Token |-> paid[k] + pos.owed[k]]
        /\ UNCHANGED <<current_tick, liquidity, fee_growth, tick, bitmap, taken>>

----------------------------------------------------------------------------
(* Swaps.  The loop works on copies of the state, stored when it ends.      *)

\* Passing a tick turns its outside over and takes its net liquidity in or out.
Cross(s, t, zero_for_one) ==
    LET net == IF zero_for_one THEN -s.tick[t].net ELSE s.tick[t].net
    IN  [s EXCEPT !.tick[t].outside = wrapping_sub(s.fee_growth, @),
                  !.liquidity = Max({0, @ + net}),
                  !.at = IF zero_for_one THEN t - 1 ELSE t]

\* A step's fee is shared among the liquidity active in it.
Charge(s, k, f) ==
    [s EXCEPT !.fee_growth[k] = (@ + (f * Q64) \div s.liquidity) % Modulus,
              !.taken[k] = @ + f]

RECURSIVE Loop(_, _)
\* The states the loop may end in.  Without liquidity it passes to the next
\* initialized tick, or stops; otherwise a step uses up what is left of the
\* amount, or reaches that tick with or without some of it left.
Loop(s, zero_for_one) ==
    LET next == next_initialized_tick_within_one_word(s.at, zero_for_one)
        k == IF zero_for_one THEN 0 ELSE 1
    IN  IF s.liquidity = 0
        THEN IF next = {} THEN {s}
             ELSE UNION {Loop(Cross(s, t, zero_for_one), zero_for_one) : t \in next}
        ELSE UNION {LET c == Charge(s, k, f)
                        crossed == {Cross(c, t, zero_for_one) : t \in next}
                    IN  {c} \cup crossed
                            \cup UNION {Loop(x, zero_for_one) : x \in crossed} :
                    f \in StepFees}

swap(zero_for_one) ==
    \E s \in Loop([at |-> current_tick, liquidity |-> liquidity, fee_growth |-> fee_growth,
                   tick |-> tick, taken |-> taken], zero_for_one) :
        /\ \A k \in Token : s.taken[k] <= MaxTaken
        /\ current_tick' = s.at
        /\ liquidity' = s.liquidity
        /\ fee_growth' = s.fee_growth
        /\ tick' = s.tick
        /\ taken' = s.taken
        /\ UNCHANGED <<bitmap, positions, paid>>

Next ==
    \/ \E o \in Owner, r \in Ranges :
          \/ \E n \in 0 .. MaxLiquidity : mint(o, r, n) \/ burn(o, r, n)
          \/ collect_fees(o, r)
    \/ \E z \in BOOLEAN : swap(z)

Spec == Init /\ [][Next]_vars

----------------------------------------------------------------------------
LiquidityOver(Among(_)) ==
    MapThenSumSet(LAMBDA p : positions[p].liquidity,
                  {p \in DOMAIN positions : Among(p[2])})

(* However mints, burns and swaps in both directions follow each other, the *)
(* liquidity swaps are priced with is that of the positions whose range     *)
(* holds the current tick, and a tick is found by the search exactly when a *)
(* position ends there.                                                     *)
ActiveLiquidity ==
    /\ liquidity = LiquidityOver(LAMBDA r : InRange(r, current_tick))
    /\ \A t \in Ticks : tick[t].gross = LiquidityOver(LAMBDA r : t \in {r[1], r[2]})
    /\ bitmap = {t \div tick_spacing : t \in {x \in Ticks : tick[x].gross > 0}}

(* What positions were paid, are owed and could still settle never exceeds  *)
(* the fees swaps charged: a fee is earned once, by liquidity that was in   *)
(* range, although positions settle late, ticks come and go between, and    *)
(* the growth counters wrap.                                                *)
FeesCovered ==
    \A k \in Token :
        paid[k] + MapThenSumSet(
            LAMBDA p : Settled(positions[p], get_fee_growth_inside(p[2], tick)).owed[k],
            DOMAIN positions) <= taken[k]
=============================================================================
