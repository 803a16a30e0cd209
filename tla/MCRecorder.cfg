CONSTANTS
    hist_num_buckets = 3
    hist_ns_per_bucket = 2
    IntMax = 15
    WordMod = 128
    MinSentinel = 12
    PercentScale = 100
    Rtts <- MCRtts
    MaxSamples = 4
    Percentiles <- MCPercentiles
    NarrowSample = TRUE
SPECIFICATION Spec
INVARIANTS TypeOK HistogramExact ExtremesExact PercentileExact OverflowsAreLongRtts
