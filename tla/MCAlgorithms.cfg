CONSTANTS
    Char <- Letters
    MaxLen = 3
    MaxParityData = 6
    MaxCrcData = 2
    MaxHammingData = 6
    arrival_times <- MCArrivalTimes
    packet_size = 4
    bucket_size = 10
    outgoing_rate = 1
    max_bucket_size = 50
    tokens_per_interval = 5
    token_packet_size = 15
    TextChars = {10, 49, 97, 98}
    MaxText = 4
    Spare = 1
SPECIFICATION AlgorithmsSpec
INVARIANTS ComparisonRight ParityNoticesOdd CrcNoticesErrors HammingCorrectsOne
           TokensWithinSize OutputBounded ComputationsRight
CHECK_DEADLOCK FALSE
