------------------------------- MODULE MCDesk ------------------------------
(* Inputs for the run of the calculations.                                 *)
EXTENDS DeskProps, ResearchProps

MCRow(bid, bidSize, ask, askSize) == [bid |-> bid, bidSize |-> bidSize, ask |-> ask, askSize |-> askSize]
MCBookRows == {MCRow(5, 1, 6, 2), MCRow(4, 3, 7, 1), MCRow(3, 2, 9, 3), MCRow(0, 0, 8, 2), MCRow(2, 2, 0, 0)}

MCLimits == [equity : {10000}, riskPct : {1, 5}, positionPct : {5, 20}, stop : {0, 35, 100}, target : {70}, maxContracts : {3, 50}]
MCBrokerEquities == {0, 4900}
MCFees == [buy : {0, 4}, sell : {0, 9}, perOrder : {0, 7}]
MCPremiums == {0, 1, 7, 20, 700}

MCContract(type, strike, expiry) == [type |-> type, strike |-> strike, expiry |-> expiry, size |-> 10]
MCListed == {MCContract("call", 8, 30), MCContract("put", 8, 30), MCContract("put", 6, 30),
             MCContract("call", 12, 30), MCContract("call", 14, 30), MCContract("call", 14, 60)}
MCQuotes == {[bid |-> 0, ask |-> 1, interest |-> 60], [bid |-> 1, ask |-> 1, interest |-> 60],
             [bid |-> 3, ask |-> 4, interest |-> 300]}
MCFilter == [minDays |-> 7, maxDays |-> 120, minInterest |-> 50, minVolume |-> 0, bothQuotes |-> TRUE,
             maxSpread |-> 35, maxWidth |-> 60, minGap |-> 14, rate |-> 1]

MCJalaliYears == 1400..1412

\* 2024-03-14, the 24th of Esfand 1402: the days that follow hold the fixed
\* holidays around the new year.
MCMarketFrom == 738959

MCChanges == {[day |-> 2, old |-> 100, new |-> 200], [day |-> 3, old |-> 100, new |-> 200],
              [day |-> 3, old |-> 200, new |-> 400], [day |-> 4, old |-> 0, new |-> 400]}

MCIv(type, strike, interest, iv) == [type |-> type, strike |-> strike, expiry |-> 30, interest |-> interest, iv |-> iv]
MCIvChains == {{}, {MCIv("call", 10, 9, 3), MCIv("put", 6, 9, 8)}, {MCIv("call", 9, 9, 2), MCIv("put", 11, 9, 5)},
               {MCIv("call", 10, 0, 9)}, {MCIv("call", 10, 9, 7)}}
MCIvPlan == [spot |-> 10, minInterest |-> 1, maxDays |-> 3, minSamples |-> 2]

MCStrat(type, strike, expiry, interest, bid, ask, iv) ==
    [type |-> type, strike |-> strike, expiry |-> expiry, size |-> 10, bid |-> bid, ask |-> ask, last |-> ask,
     interest |-> interest, iv |-> iv]
MCStratListed == {MCStrat("call", 100, 30, 9, 9, 10, 50), MCStrat("put", 100, 30, 9, 9, 10, 50),
                  MCStrat("call", 110, 30, 9, 4, 5, 10), MCStrat("put", 90, 30, 9, 5, 6, 10),
                  [MCStrat("put", 100, 60, 0, 0, 0, 10) EXCEPT !.last = 4], MCStrat("call", 100, 60, 9, 0, 12, 10),
                  MCStrat("call", 110, 60, 9, 6, 7, 20), MCStrat("put", 90, 60, 9, 5, 5, 0),
                  MCStrat("call", 100, 2, 9, 9, 10, 50)}
MCStratPlan == [minDays |-> 7, maxDays |-> 90, minInterest |-> 5, maxSpread |-> 350,
                slow |-> 3, fast |-> 2, momentum |-> 1, minSeparation |-> 10, minMomentum |-> 10, moneyness |-> 0,
                trend |-> 3, range |-> 50, requireHolding |-> TRUE, skipUnknown |-> FALSE, callMoneyness |-> 50,
                useRank |-> TRUE, richRatio |-> 1300, richRank |-> 70, cheapRatio |-> 800, cheapRank |-> 30,
                coveredCall |-> TRUE, straddle |-> TRUE, maxGap |-> 100, maxRatio |-> 900,
                protection |-> 100, cap |-> 100, maxCost |-> 20]
MCContexts == [spot : {100}, closes : {<<100, 100, 100>>, <<90, 95, 100>>, <<120, 110, 100>>}, realized : {0, 20, 60},
               rank : {[known |-> FALSE, below |-> 0, samples |-> 0], [known |-> TRUE, below |-> 1, samples |-> 4]},
               holding : {-1, 5, 10}]

MCBarPrices == {1, 2, 4}
MCReplayPlan == [warmup |-> 2, horizon |-> 2, step |-> 1]
MCFoldPlan == [train |-> 3, test |-> 3, warmup |-> 1, horizon |-> 1, step |-> 1]
=============================================================================
