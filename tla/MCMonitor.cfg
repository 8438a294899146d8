SPECIFICATION MonSpec
CONSTANTS VisBufferLength = 4
          monitor = TRUE
          monitor_skip = 3
PROPERTY ThreadsHeard
